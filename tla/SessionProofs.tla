--------------------------- MODULE SessionProofs ---------------------------
(***************************************************************************)
(* Proofs about module Session, for any number of endpoints, hosts and     *)
(* processes.                                                              *)
(***************************************************************************)
EXTENDS Session, FiniteSetTheorems, Lemmas

States == {"new", "connected", "gathered", "scattered", "nor_rts", "ready", "gone"}
Active == {"scattered", "nor_rts", "ready"}
Running == {"clear_tables", "init_tables", "init_registers", "scatter", "join", "close"}
Over == {"listen", "console", "stopped"}

-----------------------------------------------------------------------------
(* The inductive invariant                                                 *)

\* How many ranks are given to endpoints that have answered.
Gathered == IF pc \in {"accept", "gather"} THEN i ELSE IF pc \in Running THEN NEp ELSE 0
IsMember(p) == rank[p] < Gathered /\ conn_fds[rank[p]] = p
Told(r) == pc \in {"join", "close"} \/ (pc = "scatter" /\ r < i)

Domains ==
  /\ pc \in {"accept", "gather"} \cup Running \cup Over
  /\ i \in Ranks /\ (pc \in Over \cup {"clear_tables", "init_tables", "init_registers"} => i = 0)
  /\ DOMAIN conn_fds = Ranks /\ DOMAIN fp_rank = Ranks
  /\ DOMAIN ep_infos = Ranks /\ DOMAIN qp_infos = Ranks
  /\ DOMAIN toEp = Procs /\ DOMAIN toMaster = Procs
  /\ state \in [Procs -> States] /\ rank \in [Procs -> Ranks]
  /\ DOMAIN net_ep_infos = Procs /\ DOMAIN dst_qp_info = Procs
  /\ DOMAIN dest = Procs /\ DOMAIN op = Procs

\* The master knows of each member what the member is.
MembersKnown ==
  \A r \in Ranks : r < Gathered =>
    /\ conn_fds[r] \in Procs /\ rank[conn_fds[r]] = r
    /\ ep_infos[r] = EpInfo(conn_fds[r], r)
    /\ qp_infos[r] = QpInfo(conn_fds[r])
    /\ fp_rank[r] = Host(conn_fds[r])
    /\ state[conn_fds[r]] = "gathered" \/ (Told(r) /\ state[conn_fds[r]] \in Active \cup {"gone"})
    /\ pc = "close" \/ (pc = "join" /\ r < i) => state[conn_fds[r]] = "gone"

\* Connections that wait are those of different, connected processes.
BacklogWaits ==
  /\ backlog \in Seq(Procs)
  /\ \A k \in 1 .. Len(backlog) :
       /\ state[backlog[k]] = "connected" /\ toEp[backlog[k]] = <<>>
       /\ \A l \in 1 .. Len(backlog) : backlog[k] = backlog[l] => k = l
  /\ pc = "gather" => conn_fd \in Procs /\ fp_rank[i] = Host(conn_fd)

Fresh(p) == toEp[p] = <<>> /\ toMaster[p] = <<>>

IsConnected(p) ==
  /\ toMaster[p] = <<>>
  /\ toEp[p] = <<>> \/ (pc = "gather" /\ conn_fd = p /\ toEp[p] = <<MsgAccept(i)>>)

IsGathered(p) ==
  \/ /\ pc = "gather" /\ conn_fd = p /\ rank[p] = i
     /\ toEp[p] = <<>> /\ toMaster[p] = <<MsgGather(p, i)>>
  \/ /\ IsMember(p)
     /\ toMaster[p] = <<>>
     /\ toEp[p] = IF Told(rank[p]) THEN <<MsgScatter(ep_infos, DqpInfo(rank[p]))>> ELSE <<>>

\* What an endpoint was told is what the master still has.
IsActive(p) ==
  /\ IsMember(p) /\ Told(rank[p]) /\ Fresh(p)
  /\ net_ep_infos[p] = ep_infos
  /\ dst_qp_info[p] = DqpInfo(rank[p])

NorConnected(p) ==
  \A s \in Ranks :
    dest[p][<<"nor", s>>] = Dest(Host(conn_fds[s]), Qpn(conn_fds[s], <<"nor", rank[p]>>))

ProcessInv(p) ==
  /\ state[p] = "new" => Fresh(p)
  /\ state[p] = "connected" => IsConnected(p)
  /\ state[p] = "gathered" => IsGathered(p)
  /\ state[p] \in Active => IsActive(p)
  /\ state[p] \in {"nor_rts", "ready"} => NorConnected(p)
  /\ state[p] = "gone" => toMaster[p] = <<>> \/ toMaster[p] = <<MsgFinish>>

SessionInv ==
  /\ Domains
  /\ MembersKnown
  /\ BacklogWaits
  /\ \A p \in Procs : ProcessInv(p)

-----------------------------------------------------------------------------
(* Every step preserves it                                                 *)

\* The constants' sets.
LEMMA RankFacts ==
  /\ NEp \in Nat /\ NEp > 0 /\ Ranks = 0 .. NEp - 1 /\ 0 \in Ranks
  /\ Procs \subseteq Nat
BY SessionAssumption DEF Ranks, Procs

\* Who waits in the backlog is connected.
LEMMA BacklogConnected ==
  ASSUME SessionInv, NEW p, state[p] # "connected"
  PROVE  \A k \in 1 .. Len(backlog) : backlog[k] \in Procs /\ backlog[k] # p
BY DEF SessionInv, BacklogWaits

\* The first state.
LEMMA InitInv == Init => SessionInv
<1> SUFFICES ASSUME Init PROVE SessionInv
  OBVIOUS
<1> USE RankFacts DEF Init
<1>1. Domains
  BY DEF Domains, Over, Running, States
<1>2. MembersKnown
  BY DEF MembersKnown, Gathered, Running
<1>3. BacklogWaits
  BY DEF BacklogWaits
<1>4. ASSUME NEW p \in Procs PROVE ProcessInv(p)
  BY DEF ProcessInv, Fresh, Active
<1> QED
  BY <1>1, <1>2, <1>3, <1>4 DEF SessionInv

\* The master's listen().
LEMMA ListenInv == SessionInv /\ Listen => SessionInv'
<1> SUFFICES ASSUME SessionInv, Listen PROVE SessionInv'
  OBVIOUS
<1> USE RankFacts DEF SessionInv, Listen, infoVars, netVars, switchVars, epVars, Over, Running
<1>1. Domains'
  BY DEF Domains
<1>2. MembersKnown'
  BY DEF Domains, MembersKnown, Gathered, Told
<1>3. BacklogWaits'
  BY DEF Domains, BacklogWaits
<1>4. ASSUME NEW p \in Procs PROVE ProcessInv(p)'
  BY DEF Domains, ProcessInv, Fresh, IsConnected, IsGathered, IsActive, IsMember, Gathered,
         Active, States
<1> QED
  BY <1>1, <1>2, <1>3, <1>4

\* The master's clear_tables(), init_tables() and init_registers().
LEMMA InitSwitchInv ==
  SessionInv /\ (ClearTables \/ InitTables \/ InitRegisters) => SessionInv'
<1> SUFFICES ASSUME SessionInv, ClearTables \/ InitTables \/ InitRegisters PROVE SessionInv'
  OBVIOUS
<1>0. /\ pc \in {"clear_tables", "init_tables", "init_registers"}
      /\ pc' \in {"init_tables", "init_registers", "scatter"}
      /\ UNCHANGED <<i, conn_fd, conn_fds, infoVars, netVars, epVars>>
  BY DEF ClearTables, InitTables, InitRegisters
<1> USE RankFacts, <1>0 DEF SessionInv, infoVars, netVars, epVars, Over, Running
<1>1. Domains'
  BY DEF Domains
<1>2. MembersKnown'
  BY DEF Domains, MembersKnown, Gathered, Told
<1>3. BacklogWaits'
  BY DEF Domains, BacklogWaits
<1>4. ASSUME NEW p \in Procs PROVE ProcessInv(p)'
  <2>1. state[p] \notin Active /\ ~Told(rank[p]) /\ ~Told(rank[p])'
    BY DEF Domains, ProcessInv, IsActive, Told
  <2>2. IsMember(p)' <=> IsMember(p)
    BY DEF IsMember, Gathered
  <2>3. state[p] = "gathered" => IsGathered(p)'
    BY <2>1, <2>2 DEF ProcessInv, IsGathered
  <2> QED
    BY <2>1, <2>3 DEF ProcessInv, IsConnected, Fresh, Active
<1> QED
  BY <1>1, <1>2, <1>3, <1>4

\* The console.
LEMMA ConsoleInv ==
  SessionInv /\ (Console("listen") \/ Console("stopped")) => SessionInv'
<1> SUFFICES ASSUME SessionInv, Console("listen") \/ Console("stopped") PROVE SessionInv'
  OBVIOUS
<1> USE RankFacts DEF SessionInv, Console, infoVars, netVars, switchVars, epVars, Over, Running
<1>1. Domains'
  BY DEF Domains
<1>2. MembersKnown'
  BY DEF Domains, MembersKnown, Gathered, Told
<1>3. BacklogWaits'
  BY DEF Domains, BacklogWaits
<1>4. ASSUME NEW p \in Procs PROVE ProcessInv(p)'
  BY DEF ProcessInv, Fresh, IsConnected, IsGathered, IsActive, IsMember, Gathered, Told,
         NorConnected, DqpInfo
<1> QED
  BY <1>1, <1>2, <1>3, <1>4

\* accept() takes a connection from the backlog.
LEMMA AcceptInv == SessionInv /\ Accept => SessionInv'
<1> SUFFICES ASSUME SessionInv, Accept PROVE SessionInv'
  OBVIOUS
<1> USE RankFacts DEF SessionInv, Accept, SendTo, switchVars, epVars, Over, Running
<1> DEFINE c == Head(backlog)
<1>a. c = backlog[1] /\ c \in Procs /\ state[c] = "connected" /\ toEp[c] = <<>> /\ conn_fd' = c
  BY DEF BacklogWaits
<1>b. backlog' \in Seq(Procs) /\ Len(backlog') = Len(backlog) - 1
      /\ \A k \in 1 .. Len(backlog') : backlog'[k] = backlog[k + 1]
  BY DEF BacklogWaits
<1>1. Domains'
  BY DEF Domains
<1>2. MembersKnown'
  BY DEF Domains, MembersKnown, Gathered, Told
<1>3. BacklogWaits'
  <2>1. ASSUME NEW k \in 1 .. Len(backlog')
        PROVE state'[backlog'[k]] = "connected" /\ toEp'[backlog'[k]] = <<>> /\ backlog'[k] # c
    BY <1>a, <1>b DEF Domains, BacklogWaits
  <2>2. ASSUME NEW k \in 1 .. Len(backlog'), NEW l \in 1 .. Len(backlog'), backlog'[k] = backlog'[l]
        PROVE k = l
    BY <2>2, <1>b DEF BacklogWaits
  <2> QED
    BY <1>a, <1>b, <2>1, <2>2 DEF BacklogWaits, Domains
<1>4. ASSUME NEW p \in Procs PROVE ProcessInv(p)'
  <2>1. CASE p = c
    BY <1>a, <2>1 DEF Domains, ProcessInv, Fresh, IsConnected, Active
  <2>2. CASE p # c
    BY <1>a, <2>2 DEF Domains, ProcessInv, Fresh, IsConnected, IsGathered, IsActive, IsMember,
       Gathered, Told, NorConnected, DqpInfo
  <2> QED
    BY <2>1, <2>2
<1> QED
  BY <1>1, <1>2, <1>3, <1>4

\* accept() waits for an endpoint that answers.
LEMMA GatherMember ==
  ASSUME SessionInv, Gather
  PROVE  /\ conn_fd \in Procs /\ state[conn_fd] = "gathered" /\ rank[conn_fd] = i
         /\ toEp[conn_fd] = <<>> /\ toMaster[conn_fd] = <<MsgGather(conn_fd, i)>>
         /\ fp_rank[i] = Host(conn_fd)
<1> USE DEF SessionInv, Gather
<1>1. conn_fd \in Procs /\ fp_rank[i] = Host(conn_fd)
  BY DEF BacklogWaits
<1>2. toMaster[conn_fd] # <<>> /\ Head(toMaster[conn_fd]).type = "GATHER"
  BY DEF Arrived
<1>3. toMaster[conn_fd] # <<MsgFinish>>
  BY <1>2 DEF MsgFinish
<1>4. state[conn_fd] = "gathered"
  BY <1>1, <1>2, <1>3 DEF Domains, ProcessInv, Fresh, IsConnected, IsActive, Active, States
<1> QED
  BY <1>1, <1>2, <1>4 DEF ProcessInv, IsGathered

\* accept() reads what the endpoint is.
LEMMA GatherInv == SessionInv /\ Gather => SessionInv'
<1> SUFFICES ASSUME SessionInv, Gather PROVE SessionInv'
  OBVIOUS
<1> USE RankFacts DEF SessionInv, Gather, ReadFrom, Loop, switchVars, epVars, Over, Running
<1>0. /\ conn_fd \in Procs /\ state[conn_fd] = "gathered" /\ rank[conn_fd] = i
      /\ toEp[conn_fd] = <<>> /\ toMaster[conn_fd] = <<MsgGather(conn_fd, i)>>
      /\ fp_rank[i] = Host(conn_fd)
  BY GatherMember
<1>1. Domains'
  BY DEF Domains
<1>2. MembersKnown'
  <2>1. Gathered' = i + 1 /\ Gathered = i
    BY DEF Gathered, Domains
  <2>2. Head(toMaster[conn_fd]) = MsgGather(conn_fd, i)
    BY <1>0
  <2>3. pc' \notin {"join", "close"} /\ ~Told(i)
    BY DEF Domains, Told
  <2>4. ASSUME NEW r \in Ranks, r < i
        PROVE /\ conn_fds'[r] = conn_fds[r] /\ ep_infos'[r] = ep_infos[r]
              /\ qp_infos'[r] = qp_infos[r] /\ ~Told(r)
    BY <2>4 DEF Domains, Told
  <2>5. /\ conn_fds'[i] = conn_fd /\ ep_infos'[i] = EpInfo(conn_fd, i)
        /\ qp_infos'[i] = QpInfo(conn_fd)
    BY <2>2 DEF Domains, MsgGather
  <2>6. ASSUME NEW r \in Ranks, r < i + 1 PROVE r < i \/ r = i
    BY <2>6 DEF Domains
  <2> QED
    BY <1>0, <2>1, <2>3, <2>4, <2>5, <2>6 DEF MembersKnown
<1>3. BacklogWaits'
  BY DEF Domains, BacklogWaits
<1>4. ASSUME NEW p \in Procs PROVE ProcessInv(p)'
  <2>1. CASE p = conn_fd
    BY <1>0, <2>1 DEF Domains, ProcessInv, IsGathered, IsMember, Gathered, Told, Active
  <2>2. CASE p # conn_fd
    <3>0. toEp[p] = toEp'[p] /\ toMaster[p] = toMaster'[p]
      BY <1>0, <2>2 DEF Domains
    <3>1. state[p] \notin Active /\ ~Told(rank[p]) /\ ~Told(rank[p])'
      BY DEF Domains, ProcessInv, IsActive, Told
    <3>2. IsMember(p) => IsMember(p)'
      BY DEF Domains, IsMember, Gathered
    <3>3. state[p] = "gathered" => IsGathered(p)'
      BY <2>2, <3>0, <3>1, <3>2 DEF ProcessInv, IsGathered
    <3> QED
      BY <2>2, <3>0, <3>1, <3>3 DEF ProcessInv, IsConnected, Fresh, Active
  <2> QED
    BY <2>1, <2>2
<1> QED
  BY <1>1, <1>2, <1>3, <1>4

\* The master tells one rank about the others.
LEMMA ScatterInv == SessionInv /\ Scatter => SessionInv'
<1> SUFFICES ASSUME SessionInv, Scatter PROVE SessionInv'
  OBVIOUS
<1> USE RankFacts DEF SessionInv, Scatter, SendTo, Loop, infoVars, switchVars, epVars, Over, Running
<1> DEFINE c == conn_fds[i]
<1>0. /\ c \in Procs /\ rank[c] = i /\ state[c] = "gathered"
      /\ toEp[c] = <<>> /\ toMaster[c] = <<>>
  <2>1. ~Told(i) /\ Gathered = NEp
    BY DEF Told, Domains, Gathered
  <2>2. c \in Procs /\ rank[c] = i /\ state[c] = "gathered"
    BY <2>1 DEF Domains, MembersKnown
  <2> QED
    BY <2>1, <2>2 DEF ProcessInv, IsGathered
<1>1. Domains'
  BY DEF Domains
<1>2. MembersKnown'
  BY DEF Domains, MembersKnown, Gathered, Told
<1>3. BacklogWaits'
  <2>1. \A k \in 1 .. Len(backlog) : backlog[k] \in Procs /\ backlog[k] # c
    BY <1>0, BacklogConnected
  <2> QED
    BY <2>1 DEF Domains, BacklogWaits
<1>4. ASSUME NEW p \in Procs PROVE ProcessInv(p)'
  <2>1. CASE p = c
    BY <1>0, <2>1 DEF Domains, ProcessInv, IsGathered, IsMember, Gathered, Told, Active, DqpInfo
  <2>2. CASE p # c
    <3>0. toEp[p] = toEp'[p] /\ toMaster[p] = toMaster'[p]
      BY <1>0, <2>2 DEF Domains
    <3>1. IsMember(p)' <=> IsMember(p)
      BY DEF IsMember, Gathered
    <3>2. IsMember(p) => (Told(rank[p])' <=> Told(rank[p]))
      BY <2>2 DEF Domains, IsMember, Told
    <3>3. DqpInfo(rank[p])' = DqpInfo(rank[p])
      BY DEF DqpInfo
    <3>4. IsGathered(p) => IsGathered(p)'
      BY <3>0, <3>1, <3>2, <3>3 DEF IsGathered
    <3>5. IsActive(p) => IsActive(p)'
      BY <3>0, <3>1, <3>2, <3>3 DEF IsActive, Fresh
    <3> QED
      BY <3>0, <3>4, <3>5 DEF ProcessInv, IsConnected, Fresh, NorConnected
  <2> QED
    BY <2>1, <2>2
<1> QED
  BY <1>1, <1>2, <1>3, <1>4

\* The master waits for an endpoint that has gone when its message arrives.
LEMMA JoinMember ==
  ASSUME SessionInv, Join
  PROVE  /\ conn_fds[i] \in Procs /\ rank[conn_fds[i]] = i
         /\ state[conn_fds[i]] = "gone" /\ toMaster[conn_fds[i]] = <<MsgFinish>>
<1> DEFINE c == conn_fds[i]
<1> USE RankFacts DEF SessionInv, Join, Running
<1>1. c \in Procs /\ rank[c] = i /\ state[c] \in Active \cup {"gathered", "gone"}
  BY DEF Domains, MembersKnown, Gathered
<1>2. toMaster[c] # <<>>
  BY DEF Arrived
<1> QED
  BY <1>1, <1>2 DEF ProcessInv, IsGathered, IsActive, Fresh

\* The master waits for one rank to finish.
LEMMA JoinInv == SessionInv /\ Join => SessionInv'
<1> SUFFICES ASSUME SessionInv, Join PROVE SessionInv'
  OBVIOUS
<1> USE RankFacts DEF SessionInv, Join, ReadFrom, Loop, infoVars, switchVars, epVars, Over, Running
<1> DEFINE c == conn_fds[i]
<1>0. c \in Procs /\ rank[c] = i /\ state[c] = "gone" /\ toMaster[c] = <<MsgFinish>>
  BY JoinMember
<1>1. Domains'
  BY DEF Domains
<1>2. MembersKnown'
  BY <1>0 DEF Domains, MembersKnown, Gathered, Told
<1>3. BacklogWaits'
  <2>1. \A k \in 1 .. Len(backlog) : backlog[k] \in Procs /\ backlog[k] # c
    BY <1>0, BacklogConnected
  <2> QED
    BY <2>1 DEF Domains, BacklogWaits
<1>4. ASSUME NEW p \in Procs PROVE ProcessInv(p)'
  <2>1. CASE p = c
    BY <1>0, <2>1 DEF Domains, ProcessInv, Active
  <2>2. CASE p # c
    <3>0. toEp[p] = toEp'[p] /\ toMaster[p] = toMaster'[p]
      BY <1>0, <2>2 DEF Domains
    <3>1. IsMember(p)' <=> IsMember(p)
      BY DEF IsMember, Gathered
    <3>2. IsMember(p) => (Told(rank[p])' <=> Told(rank[p]))
      BY <2>2 DEF Domains, IsMember, Told
    <3>3. DqpInfo(rank[p])' = DqpInfo(rank[p])
      BY DEF DqpInfo
    <3>4. IsGathered(p) => IsGathered(p)'
      BY <3>0, <3>1, <3>2, <3>3 DEF IsGathered
    <3>5. IsActive(p) => IsActive(p)'
      BY <3>0, <3>1, <3>2, <3>3 DEF IsActive, Fresh
    <3> QED
      BY <3>0, <3>4, <3>5 DEF ProcessInv, IsConnected, Fresh, NorConnected
  <2> QED
    BY <2>1, <2>2
<1> QED
  BY <1>1, <1>2, <1>3, <1>4

\* The master tells one rank, which may be gone by then, that all is over.
LEMMA CloseInv == SessionInv /\ Close => SessionInv'
<1> SUFFICES ASSUME SessionInv, Close PROVE SessionInv'
  OBVIOUS
<1> USE RankFacts DEF SessionInv, Close, SendTo, Loop, infoVars, switchVars, epVars, Over, Running
<1> DEFINE c == conn_fds[i]
<1>0. \A r \in Ranks : conn_fds[r] \in Procs /\ rank[conn_fds[r]] = r /\ state[conn_fds[r]] = "gone"
  BY DEF Domains, MembersKnown, Gathered, Told
<1>1. Domains'
  BY DEF Domains
<1>2. MembersKnown'
  BY <1>0 DEF Domains, MembersKnown, Gathered, Told
<1>3. BacklogWaits'
  <2>0. state[c] = "gone"
    BY <1>0 DEF Domains
  <2>1. \A k \in 1 .. Len(backlog) : backlog[k] \in Procs /\ backlog[k] # c
    BY <2>0, BacklogConnected
  <2> QED
    BY <2>1 DEF Domains, BacklogWaits
<1>4. ASSUME NEW p \in Procs PROVE ProcessInv(p)'
  <2>0. c \in Procs /\ state[c] = "gone" /\ (IsMember(p) => state[p] = "gone")
    BY <1>0 DEF Domains, IsMember, Gathered
  <2>1. CASE p = c
    BY <2>0, <2>1 DEF Domains, ProcessInv, Active
  <2>2. CASE p # c
    BY <2>0, <2>2 DEF Domains, ProcessInv, Fresh, IsConnected, IsGathered, IsActive, Active
  <2> QED
    BY <2>1, <2>2
<1> QED
  BY <1>1, <1>2, <1>3, <1>4

\* A process is started.
LEMMA ConnectInv == \A p \in Procs : SessionInv /\ Connect(p) => SessionInv'
<1> SUFFICES ASSUME NEW p \in Procs, SessionInv, Connect(p) PROVE SessionInv'
  OBVIOUS
<1> USE RankFacts DEF SessionInv, Connect, Goes, masterVars, infoVars, netVars, switchVars
<1>0. state[p] = "new" /\ toEp[p] = <<>> /\ toMaster[p] = <<>>
  BY DEF ProcessInv, Fresh
<1>1. Domains'
  BY <1>0 DEF Domains, States
<1>2. MembersKnown'
  BY <1>0 DEF Domains, MembersKnown, Gathered, Told, Active
<1>3. BacklogWaits'
  <2>1. /\ backlog' \in Seq(Procs) /\ Len(backlog') = Len(backlog) + 1
        /\ backlog'[Len(backlog) + 1] = p
        /\ \A k \in 1 .. Len(backlog) : backlog'[k] = backlog[k] /\ backlog[k] \in Procs \ {p}
    BY <1>0 DEF BacklogWaits
  <2>2. \A k \in 1 .. Len(backlog') : k \in 1 .. Len(backlog) \/ k = Len(backlog) + 1
    BY <2>1
  <2>3. ASSUME NEW k \in 1 .. Len(backlog')
        PROVE state'[backlog'[k]] = "connected" /\ toEp'[backlog'[k]] = <<>>
    BY <1>0, <2>1, <2>2 DEF Domains, BacklogWaits
  <2>4. ASSUME NEW k \in 1 .. Len(backlog'), NEW l \in 1 .. Len(backlog'),
               backlog'[k] = backlog'[l]
        PROVE k = l
    BY <2>1, <2>2, <2>4 DEF BacklogWaits
  <2> QED
    BY <2>1, <2>3, <2>4 DEF BacklogWaits
<1>4. ASSUME NEW q \in Procs PROVE ProcessInv(q)'
  <2>1. CASE q = p
    BY <1>0, <2>1 DEF Domains, ProcessInv, Active, IsConnected
  <2>2. CASE q # p
    <3>0. /\ state'[q] = state[q] /\ toEp'[q] = toEp[q] /\ toMaster'[q] = toMaster[q]
          /\ rank'[q] = rank[q] /\ dest'[q] = dest[q]
          /\ net_ep_infos'[q] = net_ep_infos[q] /\ dst_qp_info'[q] = dst_qp_info[q]
      BY <2>2 DEF Domains
    <3>1. (IsMember(q)' <=> IsMember(q)) /\ (Told(rank[q])' <=> Told(rank[q]))
          /\ DqpInfo(rank[q])' = DqpInfo(rank[q])
      BY <3>0 DEF IsMember, Gathered, Told, DqpInfo
    <3>2. IsGathered(q) => IsGathered(q)'
      BY <3>0, <3>1 DEF IsGathered
    <3>3. IsActive(q) => IsActive(q)'
      BY <3>0, <3>1 DEF IsActive, Fresh
    <3>4. NorConnected(q) => NorConnected(q)'
      BY <3>0 DEF NorConnected
    <3> QED
      BY <3>0, <3>2, <3>3, <3>4 DEF ProcessInv, IsConnected, Fresh
  <2> QED
    BY <2>1, <2>2
<1> QED
  BY <1>1, <1>2, <1>3, <1>4

\* It is told its rank and reports what it is.
LEMMA RecvAcceptInv == \A p \in Procs : SessionInv /\ RecvAccept(p) => SessionInv'
<1> SUFFICES ASSUME NEW p \in Procs, SessionInv, RecvAccept(p) PROVE SessionInv'
  OBVIOUS
<1> USE RankFacts DEF SessionInv, RecvAccept, Goes, masterVars, infoVars, netVars, switchVars
<1>0. /\ state[p] = "connected" /\ pc = "gather" /\ conn_fd = p /\ i \in Ranks
      /\ toEp[p] = <<MsgAccept(i)>> /\ toMaster[p] = <<>>
      /\ Head(toEp[p]).rank = i
  BY DEF Domains, ProcessInv, IsConnected, Arrived, MsgAccept
<1>1. Domains'
  BY <1>0 DEF Domains, States
<1>2. MembersKnown'
  BY <1>0 DEF Domains, MembersKnown, Gathered, Told, Active
<1>3. BacklogWaits'
  <2>1. \A k \in 1 .. Len(backlog) : backlog[k] \in Procs /\ backlog[k] # p
    <3>1. toEp[p] # <<>>
      BY DEF Arrived
    <3> QED
      BY <3>1 DEF BacklogWaits
  <2> QED
    BY <2>1 DEF Domains, BacklogWaits
<1>4. ASSUME NEW q \in Procs PROVE ProcessInv(q)'
  <2>1. CASE q = p
    BY <1>0, <2>1 DEF Domains, ProcessInv, Active, IsGathered
  <2>2. CASE q # p
    <3>0. /\ state'[q] = state[q] /\ toEp'[q] = toEp[q] /\ toMaster'[q] = toMaster[q]
          /\ rank'[q] = rank[q] /\ dest'[q] = dest[q]
          /\ net_ep_infos'[q] = net_ep_infos[q] /\ dst_qp_info'[q] = dst_qp_info[q]
      BY <2>2 DEF Domains
    <3>1. (IsMember(q)' <=> IsMember(q)) /\ (Told(rank[q])' <=> Told(rank[q]))
          /\ DqpInfo(rank[q])' = DqpInfo(rank[q])
      BY <3>0 DEF IsMember, Gathered, Told, DqpInfo
    <3>2. IsGathered(q) => IsGathered(q)'
      BY <3>0, <3>1 DEF IsGathered
    <3>3. IsActive(q) => IsActive(q)'
      BY <3>0, <3>1 DEF IsActive, Fresh
    <3>4. NorConnected(q) => NorConnected(q)'
      BY <3>0 DEF NorConnected
    <3> QED
      BY <3>0, <3>2, <3>3, <3>4 DEF ProcessInv, IsConnected, Fresh
  <2> QED
    BY <2>1, <2>2
<1> QED
  BY <1>1, <1>2, <1>3, <1>4

\* It was told after it had answered.
LEMMA RecvScatterMember ==
  ASSUME SessionInv, NEW p \in Procs, RecvScatter(p)
  PROVE  /\ state[p] = "gathered" /\ IsMember(p) /\ Told(rank[p]) /\ toMaster[p] = <<>>
         /\ toEp[p] = <<MsgScatter(ep_infos, DqpInfo(rank[p]))>>
         /\ Head(toEp[p]).ep_infos = ep_infos /\ Head(toEp[p]).dqp_info = DqpInfo(rank[p])
<1> USE DEF SessionInv, RecvScatter, Goes
<1>1. toEp[p] # <<>>
  BY DEF Arrived
<1>2. IsMember(p) /\ Told(rank[p]) /\ toMaster[p] = <<>>
      /\ toEp[p] = <<MsgScatter(ep_infos, DqpInfo(rank[p]))>>
  BY <1>1 DEF ProcessInv, IsGathered
<1> QED
  BY <1>2 DEF MsgScatter

\* It is told about the others.
LEMMA RecvScatterInv == \A p \in Procs : SessionInv /\ RecvScatter(p) => SessionInv'
<1> SUFFICES ASSUME NEW p \in Procs, SessionInv, RecvScatter(p) PROVE SessionInv'
  OBVIOUS
<1> USE RankFacts DEF SessionInv, RecvScatter, Goes, masterVars, infoVars, netVars, switchVars
<1>0. /\ state[p] = "gathered" /\ IsMember(p) /\ Told(rank[p]) /\ toMaster[p] = <<>>
      /\ toEp[p] = <<MsgScatter(ep_infos, DqpInfo(rank[p]))>>
      /\ Head(toEp[p]).ep_infos = ep_infos /\ Head(toEp[p]).dqp_info = DqpInfo(rank[p])
  BY RecvScatterMember
<1>1. Domains'
  BY <1>0 DEF Domains, States
<1>2. MembersKnown'
  BY <1>0 DEF Domains, MembersKnown, Gathered, Told, Active
<1>3. BacklogWaits'
  <2>1. \A k \in 1 .. Len(backlog) : backlog[k] \in Procs /\ backlog[k] # p
    BY <1>0, BacklogConnected
  <2> QED
    BY <2>1 DEF Domains, BacklogWaits
<1>4. ASSUME NEW q \in Procs PROVE ProcessInv(q)'
  <2>1. CASE q = p
    BY <1>0, <2>1 DEF Domains, ProcessInv, Active, IsActive, IsMember, Gathered, Told, Fresh, DqpInfo
  <2>2. CASE q # p
    <3>0. /\ state'[q] = state[q] /\ toEp'[q] = toEp[q] /\ toMaster'[q] = toMaster[q]
          /\ rank'[q] = rank[q] /\ dest'[q] = dest[q]
          /\ net_ep_infos'[q] = net_ep_infos[q] /\ dst_qp_info'[q] = dst_qp_info[q]
      BY <2>2 DEF Domains
    <3>1. (IsMember(q)' <=> IsMember(q)) /\ (Told(rank[q])' <=> Told(rank[q]))
          /\ DqpInfo(rank[q])' = DqpInfo(rank[q])
      BY <3>0 DEF IsMember, Gathered, Told, DqpInfo
    <3>2. IsGathered(q) => IsGathered(q)'
      BY <3>0, <3>1 DEF IsGathered
    <3>3. IsActive(q) => IsActive(q)'
      BY <3>0, <3>1 DEF IsActive, Fresh
    <3>4. NorConnected(q) => NorConnected(q)'
      BY <3>0 DEF NorConnected
    <3> QED
      BY <3>0, <3>2, <3>3, <3>4 DEF ProcessInv, IsConnected, Fresh
  <2> QED
    BY <2>1, <2>2
<1> QED
  BY <1>1, <1>2, <1>3, <1>4

\* It connects its queue pairs to those of the others.
LEMMA MoveNorQpsInv == \A p \in Procs : SessionInv /\ MoveNorQps(p) => SessionInv'
<1> SUFFICES ASSUME NEW p \in Procs, SessionInv, MoveNorQps(p) PROVE SessionInv'
  OBVIOUS
<1> USE RankFacts DEF SessionInv, MoveNorQps, Goes, masterVars, infoVars, netVars, switchVars
<1>0. state[p] = "scattered" /\ IsActive(p)
  BY DEF ProcessInv, Active
<1>1. Domains'
  BY <1>0 DEF Domains, States
<1>2. MembersKnown'
  BY <1>0 DEF Domains, MembersKnown, Gathered, Told, Active
<1>3. BacklogWaits'
  <2>1. \A k \in 1 .. Len(backlog) : backlog[k] \in Procs /\ backlog[k] # p
    BY <1>0, BacklogConnected
  <2> QED
    BY <2>1 DEF Domains, BacklogWaits
<1>4. ASSUME NEW q \in Procs PROVE ProcessInv(q)'
  <2>1. CASE q = p
    <3>1. IsActive(p)'
      BY <1>0 DEF Domains, IsActive, IsMember, Gathered, Told, Fresh, DqpInfo
    <3>2. ASSUME NEW s \in Ranks
          PROVE dest'[p][<<"nor", s>>] =
                  Dest(Host(conn_fds[s]), Qpn(conn_fds[s], <<"nor", rank[p]>>))
      <4>1. <<"nor", s>> \in QpIds /\ rank[p] \in Ranks
        BY DEF QpIds, Domains
      <4>2. ep_infos[s] = EpInfo(conn_fds[s], s) /\ qp_infos[s] = QpInfo(conn_fds[s])
        <5>1. Gathered = NEp /\ s < NEp
          BY <1>0 DEF IsActive, Told, Gathered, Running
        <5> QED
          BY <5>1 DEF MembersKnown
      <4>3. net_ep_infos[p][s].gid = Host(conn_fds[s])
        BY <1>0, <4>2 DEF IsActive, EpInfo
      <4>4. dst_qp_info[p].nor_qpn[s] = qp_infos[s].nor_qpn[rank[p]]
        BY <1>0 DEF IsActive, DqpInfo, vir_qp_info, QpInfo
      <4>5. qp_infos[s].nor_qpn[rank[p]] = Qpn(conn_fds[s], <<"nor", rank[p]>>)
        BY <4>1, <4>2 DEF QpInfo
      <4>6. dest'[p][<<"nor", s>>] = Dest(net_ep_infos[p][s].gid, dst_qp_info[p].nor_qpn[s])
        BY <4>1 DEF Domains
      <4> QED
        BY <4>3, <4>4, <4>5, <4>6
    <3>3. NorConnected(p)'
      BY <3>2 DEF NorConnected
    <3> QED
      BY <1>0, <2>1, <3>1, <3>3 DEF ProcessInv, Active, Domains
  <2>2. CASE q # p
    <3>0. /\ state'[q] = state[q] /\ toEp'[q] = toEp[q] /\ toMaster'[q] = toMaster[q]
          /\ rank'[q] = rank[q] /\ dest'[q] = dest[q]
          /\ net_ep_infos'[q] = net_ep_infos[q] /\ dst_qp_info'[q] = dst_qp_info[q]
      BY <2>2 DEF Domains
    <3>1. (IsMember(q)' <=> IsMember(q)) /\ (Told(rank[q])' <=> Told(rank[q]))
          /\ DqpInfo(rank[q])' = DqpInfo(rank[q])
      BY <3>0 DEF IsMember, Gathered, Told, DqpInfo
    <3>2. IsGathered(q) => IsGathered(q)'
      BY <3>0, <3>1 DEF IsGathered
    <3>3. IsActive(q) => IsActive(q)'
      BY <3>0, <3>1 DEF IsActive, Fresh
    <3>4. NorConnected(q) => NorConnected(q)'
      BY <3>0 DEF NorConnected
    <3> QED
      BY <3>0, <3>2, <3>3, <3>4 DEF ProcessInv, IsConnected, Fresh
  <2> QED
    BY <2>1, <2>2
<1> QED
  BY <1>1, <1>2, <1>3, <1>4

\* It connects its queue pairs to those of the switch.
LEMMA MoveVirQpsInv == \A p \in Procs : SessionInv /\ MoveVirQps(p) => SessionInv'
<1> SUFFICES ASSUME NEW p \in Procs, SessionInv, MoveVirQps(p) PROVE SessionInv'
  OBVIOUS
<1> USE RankFacts DEF SessionInv, MoveVirQps, Goes, masterVars, infoVars, netVars, switchVars
<1>0. state[p] = "nor_rts" /\ IsActive(p) /\ NorConnected(p)
  BY DEF ProcessInv, Active
<1>1. Domains'
  BY <1>0 DEF Domains, States
<1>2. MembersKnown'
  BY <1>0 DEF Domains, MembersKnown, Gathered, Told, Active
<1>3. BacklogWaits'
  <2>1. \A k \in 1 .. Len(backlog) : backlog[k] \in Procs /\ backlog[k] # p
    BY <1>0, BacklogConnected
  <2> QED
    BY <2>1 DEF Domains, BacklogWaits
<1>4. ASSUME NEW q \in Procs PROVE ProcessInv(q)'
  <2>1. CASE q = p
    <3>1. IsActive(p)'
      BY <1>0 DEF Domains, IsActive, IsMember, Gathered, Told, Fresh, DqpInfo
    <3>2. ASSUME NEW s \in Ranks PROVE dest'[p][<<"nor", s>>] = dest[p][<<"nor", s>>]
      <4>1. <<"nor", s>> \in QpIds /\ <<"nor", s>>[1] = "nor"
        BY DEF QpIds
      <4> QED
        BY <4>1 DEF Domains
    <3>3. NorConnected(p)'
      BY <1>0, <3>2 DEF NorConnected
    <3> QED
      BY <1>0, <2>1, <3>1, <3>3 DEF ProcessInv, Active, Domains
  <2>2. CASE q # p
    <3>0. /\ state'[q] = state[q] /\ toEp'[q] = toEp[q] /\ toMaster'[q] = toMaster[q]
          /\ rank'[q] = rank[q] /\ dest'[q] = dest[q]
          /\ net_ep_infos'[q] = net_ep_infos[q] /\ dst_qp_info'[q] = dst_qp_info[q]
      BY <2>2 DEF Domains
    <3>1. (IsMember(q)' <=> IsMember(q)) /\ (Told(rank[q])' <=> Told(rank[q]))
          /\ DqpInfo(rank[q])' = DqpInfo(rank[q])
      BY <3>0 DEF IsMember, Gathered, Told, DqpInfo
    <3>2. IsGathered(q) => IsGathered(q)'
      BY <3>0, <3>1 DEF IsGathered
    <3>3. IsActive(q) => IsActive(q)'
      BY <3>0, <3>1 DEF IsActive, Fresh
    <3>4. NorConnected(q) => NorConnected(q)'
      BY <3>0 DEF NorConnected
    <3> QED
      BY <3>0, <3>2, <3>3, <3>4 DEF ProcessInv, IsConnected, Fresh
  <2> QED
    BY <2>1, <2>2
<1> QED
  BY <1>1, <1>2, <1>3, <1>4

\* It finishes.
LEMMA FinishInv == \A p \in Procs : SessionInv /\ Finish(p) => SessionInv'
<1> SUFFICES ASSUME NEW p \in Procs, SessionInv, Finish(p) PROVE SessionInv'
  OBVIOUS
<1> USE RankFacts DEF SessionInv, Finish, Goes, masterVars, infoVars, netVars, switchVars
<1>0. state[p] = "ready" /\ IsActive(p)
  BY DEF ProcessInv, Active
<1>1. Domains'
  BY <1>0 DEF Domains, States
<1>2. MembersKnown'
  BY <1>0 DEF Domains, MembersKnown, Gathered, Told, Active
<1>3. BacklogWaits'
  <2>1. \A k \in 1 .. Len(backlog) : backlog[k] \in Procs /\ backlog[k] # p
    BY <1>0, BacklogConnected
  <2> QED
    BY <2>1 DEF Domains, BacklogWaits
<1>4. ASSUME NEW q \in Procs PROVE ProcessInv(q)'
  <2>1. CASE q = p
    BY <1>0, <2>1 DEF Domains, ProcessInv, Active, IsActive, Fresh
  <2>2. CASE q # p
    <3>0. /\ state'[q] = state[q] /\ toEp'[q] = toEp[q] /\ toMaster'[q] = toMaster[q]
          /\ rank'[q] = rank[q] /\ dest'[q] = dest[q]
          /\ net_ep_infos'[q] = net_ep_infos[q] /\ dst_qp_info'[q] = dst_qp_info[q]
      BY <2>2 DEF Domains
    <3>1. (IsMember(q)' <=> IsMember(q)) /\ (Told(rank[q])' <=> Told(rank[q]))
          /\ DqpInfo(rank[q])' = DqpInfo(rank[q])
      BY <3>0 DEF IsMember, Gathered, Told, DqpInfo
    <3>2. IsGathered(q) => IsGathered(q)'
      BY <3>0, <3>1 DEF IsGathered
    <3>3. IsActive(q) => IsActive(q)'
      BY <3>0, <3>1 DEF IsActive, Fresh
    <3>4. NorConnected(q) => NorConnected(q)'
      BY <3>0 DEF NorConnected
    <3> QED
      BY <3>0, <3>2, <3>3, <3>4 DEF ProcessInv, IsConnected, Fresh
  <2> QED
    BY <2>1, <2>2
<1> QED
  BY <1>1, <1>2, <1>3, <1>4

\* Posted work and its completions change nothing of this.
LEMMA OpInv ==
  SessionInv /\ UNCHANGED <<masterVars, netVars, state, rank, net_ep_infos, dst_qp_info, dest>>
  /\ DOMAIN op' = Procs => SessionInv'
<1> SUFFICES ASSUME SessionInv, DOMAIN op' = Procs,
                    UNCHANGED <<masterVars, netVars, state, rank, net_ep_infos, dst_qp_info, dest>>
             PROVE SessionInv'
  OBVIOUS
<1> USE DEF SessionInv, masterVars, infoVars, netVars
<1>1. Domains'
  BY DEF Domains
<1>2. MembersKnown'
  BY DEF MembersKnown, Gathered, Told
<1>3. BacklogWaits'
  BY DEF BacklogWaits
<1>4. ASSUME NEW p \in Procs PROVE ProcessInv(p)'
  <2>1. (IsMember(p)' <=> IsMember(p)) /\ (Told(rank[p])' <=> Told(rank[p]))
        /\ DqpInfo(rank[p])' = DqpInfo(rank[p])
    BY DEF IsMember, Gathered, Told, DqpInfo
  <2> QED
    BY <2>1 DEF ProcessInv, Fresh, IsConnected, IsGathered, IsActive, NorConnected
<1> QED
  BY <1>1, <1>2, <1>3, <1>4

\* Every step.
LEMMA NextInv == SessionInv /\ [Next]_vars => SessionInv'
<1> SUFFICES ASSUME SessionInv, [Next]_vars PROVE SessionInv'
  OBVIOUS
<1>1. CASE Master
  BY <1>1, ListenInv, AcceptInv, GatherInv, InitSwitchInv, ScatterInv, JoinInv, CloseInv DEF Master
<1>2. CASE Console("listen") \/ Console("stopped")
  BY <1>2, ConsoleInv
<1>3. ASSUME NEW p \in Procs,
             \/ Connect(p) \/ RecvAccept(p) \/ RecvScatter(p) \/ MoveNorQps(p) \/ MoveVirQps(p)
             \/ Finish(p)
      PROVE SessionInv'
  BY <1>3, ConnectInv, RecvAcceptInv, RecvScatterInv, MoveNorQpsInv, MoveVirQpsInv, FinishInv
<1>4. ASSUME NEW p \in Procs, ReadDone(p) \/ RequestDone(p) PROVE SessionInv'
  BY <1>4, OpInv DEF ReadDone, RequestDone, Completes, SessionInv, Domains
<1>5. ASSUME NEW p \in Procs, NEW kind, NEW s, Post(p, kind, s) PROVE SessionInv'
  BY <1>5, OpInv DEF Post, SessionInv, Domains
<1>6. CASE UNCHANGED vars
  BY <1>6, OpInv DEF vars, epVars, SessionInv, Domains
<1> QED
  BY <1>1, <1>2, <1>3, <1>4, <1>5, <1>6 DEF Next, Endpoint, Rest

\* The inductive invariant holds.
THEOREM SessionInvHolds == Spec => []SessionInv
BY InitInv, NextInv, PTL DEF Spec

\* Two endpoints that have each other connected answer each other's READs.
LEMMA ReadsAnsweredOfInv == SessionInv => ReadsAnswered
<1> SUFFICES ASSUME SessionInv, NEW p \in Procs, NEW s \in Ranks, state[p] = "ready"
             PROVE LET q == net_ep_infos[p][s].mem
                   IN  q \in Procs /\ (state[q] \in {"nor_rts", "ready"} => ReadAnswered(p, s))
  BY DEF ReadsAnswered
<1> DEFINE q == conn_fds[s]
<1>1. IsActive(p) /\ NorConnected(p) /\ rank[p] \in Ranks
  BY DEF SessionInv, ProcessInv, Domains, Active
<1>2. Gathered = NEp /\ s < NEp /\ s \in Ranks
  BY <1>1, RankFacts DEF IsActive, Told, Gathered, Running
<1>3. q \in Procs /\ rank[q] = s /\ ep_infos[s] = EpInfo(q, s)
  BY <1>2 DEF SessionInv, MembersKnown
<1>4. net_ep_infos[p][s].mem = q
  BY <1>1, <1>3 DEF IsActive, EpInfo
<1>5. conn_fds[rank[p]] = p
  BY <1>1 DEF IsActive, IsMember
<1>6. dest[p][<<"nor", s>>] = Dest(Host(q), Qpn(q, <<"nor", rank[p]>>))
  BY <1>1 DEF NorConnected
<1>7. ASSUME state[q] \in {"nor_rts", "ready"} PROVE ReadAnswered(p, s)
  <2>1. dest[q][<<"nor", rank[p]>>] = Dest(Host(p), Qpn(p, <<"nor", s>>))
    BY <1>1, <1>3, <1>5, <1>7 DEF SessionInv, ProcessInv, NorConnected
  <2>2. dest[q][<<"nor", rank[p]>>] # NotConnected
    <3>1. dest[q][<<"nor", rank[p]>>].qpn.proc = p
      BY <2>1 DEF Dest, Qpn
    <3>2. NotConnected.qpn.proc = -1 /\ p # -1
      BY RankFacts DEF NotConnected, Dest, Qpn, Nobody
    <3> QED
      BY <3>1, <3>2
  <2>3. Connected(Host(q), Qpn(q, <<"nor", rank[p]>>))
    BY <1>3, <1>7, <2>2 DEF Connected, Qpn
  <2>4. /\ dest[p][<<"nor", s>>].gid = Host(q)
        /\ dest[p][<<"nor", s>>].qpn = Qpn(q, <<"nor", rank[p]>>)
        /\ dest[p][<<"nor", s>>].qpn.proc = q
        /\ dest[p][<<"nor", s>>].qpn.id = <<"nor", rank[p]>>
    BY <1>6 DEF Dest, Qpn
  <2> QED
    BY <1>4, <2>1, <2>3, <2>4 DEF ReadAnswered
<1> QED
  BY <1>3, <1>4, <1>7

(* Whoever has set itself up can READ from every endpoint of its session   *)
(* that has done so too, however many endpoints, hosts and sessions there  *)
(* are: move_qp_to_rts() connects queue pairs that belong together.        *)
THEOREM ReadsAnsweredAlways == Spec => []ReadsAnswered
BY SessionInvHolds, ReadsAnsweredOfInv, PTL

-----------------------------------------------------------------------------
(* A session is a barrier                                                  *)

\* Processes that are enumerated by their ranks are as many as the ranks.
LEMMA RanksCount ==
  ASSUME NEW n \in Nat, \A r \in 0 .. n - 1 : rank[conn_fds[r]] = r
  PROVE  Cardinality({conn_fds[r] : r \in 0 .. n - 1}) = n
<1> DEFINE R == 0 .. n - 1
           T == {conn_fds[r] : r \in R}
           h == [r \in R |-> conn_fds[r]]
<1>1. h \in Bijection(R, T)
  <2>1. h \in [R -> T]
    OBVIOUS
  <2>2. \A a, b \in R : h[a] = h[b] => a = b
    OBVIOUS
  <2>3. \A t \in T : \E r \in R : h[r] = t
    OBVIOUS
  <2> QED
    BY <2>1, <2>2, <2>3 DEF Bijection, Injection, IsInjective, Surjection
<1>2. ExistsBijection(R, T)
  BY <1>1 DEF ExistsBijection
<1>3. IsFiniteSet(R) /\ Cardinality(R) = n
  BY FS_Interval, 0 \in Int, n - 1 \in Int
<1> QED
  BY <1>2, <1>3, FS_Bijection

Begun == {p \in Procs : state[p] \in {"scattered", "nor_rts", "ready", "gone"}}
Finished == {p \in Procs : state[p] = "gone"}

\* As many members as ranks are given.
LEMMA MembersCount ==
  ASSUME SessionInv, pc # "close"
  PROVE  /\ Gathered \in Nat /\ Cardinality(Members) = Gathered
         /\ Members = {conn_fds[r] : r \in 0 .. Gathered - 1}
         /\ \A p \in Procs : IsMember(p) => p \in Members
<1>1. Gathered \in 0 .. NEp /\ Members = {conn_fds[r] : r \in 0 .. Gathered - 1}
  BY RankFacts DEF SessionInv, Domains, Gathered, Members, Running, Over
<1>2. \A r \in 0 .. Gathered - 1 : rank[conn_fds[r]] = r
  BY <1>1, RankFacts DEF SessionInv, MembersKnown
<1>3. Cardinality({conn_fds[r] : r \in 0 .. Gathered - 1}) = Gathered
  BY <1>1, <1>2, RanksCount, RankFacts
<1>4. \A p \in Procs : IsMember(p) => p \in Members
  BY <1>1, RankFacts DEF IsMember, SessionInv, Domains
<1> QED
  BY <1>1, <1>3, <1>4, RankFacts

\* The service counts with the same operator.
LEMMA ServiceCardinality == \A S : Service!Cardinality(S) = Cardinality(S)
BY DEF Service!Cardinality, Cardinality

\* The first state of a session is one of the service.
LEMMA ServiceInit == Init => Service!Init
BY RankFacts DEF Init, Service!Init, Members

\* An endpoint that has answered is in.
LEMMA ServiceGather == SessionInv /\ Gather => \E p \in Procs : Service!Join(p)
<1> SUFFICES ASSUME SessionInv, Gather PROVE Service!Join(conn_fd) /\ conn_fd \in Procs
  OBVIOUS
<1>0. SessionInv'
  BY GatherInv
<1>1. conn_fd \in Procs /\ state[conn_fd] = "gathered" /\ rank[conn_fd] = i
  BY GatherMember
<1>2. /\ i \in Nat /\ i < NEp /\ i \in Ranks /\ Gathered = i
      /\ Cardinality(Members) = i /\ Members = {conn_fds[r] : r \in 0 .. i - 1}
  BY MembersCount, RankFacts DEF SessionInv, Domains, Gather, Gathered
<1>3. conn_fd \notin Members
  <2>1. \A r \in 0 .. i - 1 : rank[conn_fds[r]] = r
    BY <1>2, RankFacts DEF SessionInv, MembersKnown
  <2> QED
    BY <1>1, <1>2, <2>1
<1>5. Members' = {conn_fds'[r] : r \in 0 .. i}
  <2>1. CASE i + 1 < NEp /\ i' = i + 1 /\ pc' = "accept"
    BY <1>2, <2>1 DEF Members
  <2>2. CASE i + 1 = NEp /\ pc' = "clear_tables"
    BY <1>2, <2>2, RankFacts DEF Members
  <2> QED
    BY <2>1, <2>2 DEF Gather, Loop
<1>6. Members' = Members \cup {conn_fd}
  <2>1. conn_fds'[i] = conn_fd /\ \A r \in 0 .. i - 1 : conn_fds'[r] = conn_fds[r]
    BY <1>2, RankFacts DEF SessionInv, Domains, Gather
  <2> QED
    BY <1>2, <1>5, <2>1
<1>7. UNCHANGED <<Begun, Finished>>
  BY DEF Gather, epVars, Begun, Finished
<1> QED
  BY <1>1, <1>2, <1>3, <1>6, <1>7, ServiceCardinality DEF Service!Join, Begun, Finished

\* What a process that runs is to the service.
LEMMA ActiveMember ==
  ASSUME SessionInv, NEW p \in Procs, IsMember(p), Told(rank[p]), pc # "close"
  PROVE  p \in Members /\ Cardinality(Members) = NEp
<1>1. Gathered = NEp
  BY DEF Told, Gathered, Running
<1> QED
  BY <1>1, MembersCount

\* The members stay the same unless the master moves on.
LEMMA MembersUnchanged ==
  ASSUME UNCHANGED masterVars PROVE Members' = Members
BY DEF masterVars, Members

\* Being told about the others begins the session for an endpoint.
LEMMA ServiceBegin == \A p \in Procs : SessionInv /\ RecvScatter(p) => Service!Begin(p)
<1> SUFFICES ASSUME NEW p \in Procs, SessionInv, RecvScatter(p) PROVE Service!Begin(p)
  OBVIOUS
<1>1. /\ state[p] = "gathered" /\ IsMember(p) /\ Told(rank[p])
  BY RecvScatterMember
<1>2. pc # "close"
  BY <1>1 DEF SessionInv, Domains, MembersKnown, IsMember, Gathered
<1>3. p \in Members /\ Cardinality(Members) = NEp
  BY <1>1, <1>2, ActiveMember
<1>4. Begun' = Begun \cup {p} /\ p \notin Begun
  BY <1>1 DEF RecvScatter, Goes, SessionInv, Domains, Begun
<1>5. Finished' = Finished /\ Members' = Members
  BY <1>1, MembersUnchanged DEF RecvScatter, Goes, SessionInv, Domains, Finished
<1> QED
  BY <1>3, <1>4, <1>5, ServiceCardinality DEF Service!Begin, Begun, Finished

\* An endpoint that finishes has begun.
LEMMA ServiceFinish == \A p \in Procs : SessionInv /\ Finish(p) => Service!Finish(p)
<1> SUFFICES ASSUME NEW p \in Procs, SessionInv, Finish(p) PROVE Service!Finish(p)
  OBVIOUS
<1>1. state[p] = "ready" /\ IsMember(p) /\ Told(rank[p])
  BY DEF Finish, Goes, SessionInv, ProcessInv, IsActive, Active
<1>2. pc # "close"
  BY <1>1 DEF SessionInv, Domains, MembersKnown, IsMember, Gathered
<1>3. p \in Members
  BY <1>1, <1>2, ActiveMember
<1>4. Finished' = Finished \cup {p} /\ p \notin Finished /\ p \in Begun
  BY <1>1 DEF Finish, Goes, SessionInv, Domains, Begun, Finished
<1>5. Begun' = Begun /\ Members' = Members
  BY <1>1, MembersUnchanged DEF Finish, Goes, SessionInv, Domains, Begun
<1> QED
  BY <1>3, <1>4, <1>5 DEF Service!Finish, Begun, Finished

\* The master leaves a session when all of its members have finished.
LEMMA ServiceEnd ==
  SessionInv /\ Join => Service!End \/ UNCHANGED <<Members, Begun, Finished>>
<1> SUFFICES ASSUME SessionInv, Join
             PROVE Service!End \/ UNCHANGED <<Members, Begun, Finished>>
  OBVIOUS
<1>1. UNCHANGED <<Begun, Finished>>
  BY DEF Join, epVars, Begun, Finished
<1>2. CASE pc' = "join"
  BY <1>1, <1>2 DEF Join, Members
<1>3. CASE pc' = "close"
  <2>1. i + 1 = NEp
    BY <1>3 DEF Join, Loop
  <2>2. conn_fds[i] \in Procs /\ state[conn_fds[i]] = "gone"
    BY JoinMember
  <2>3. \A r \in Ranks : conn_fds[r] \in Finished
    BY <2>1, <2>2, RankFacts
       DEF SessionInv, Domains, MembersKnown, Gathered, Running, Finished, Join
  <2>4. Members = {conn_fds[r] : r \in Ranks} /\ Members' = {}
    BY <1>3 DEF Members, Join
  <2>5. Cardinality(Members) = NEp
    BY MembersCount DEF Gathered, Running, Join
  <2> QED
    BY <1>1, <2>3, <2>4, <2>5, ServiceCardinality DEF Service!End, Begun, Finished
<1> QED
  BY <1>2, <1>3 DEF Join, Loop

\* All other steps are not seen.
LEMMA ServiceStutter ==
  ASSUME SessionInv,
         \/ Listen \/ Accept \/ ClearTables \/ InitTables \/ InitRegisters \/ Scatter \/ Close
         \/ Console("listen") \/ Console("stopped")
  PROVE  UNCHANGED <<Members, Begun, Finished>>
<1>1. UNCHANGED state
  BY DEF Listen, Accept, ClearTables, InitTables, InitRegisters, Scatter, Close, Console, epVars
<1>2. UNCHANGED conn_fds
  BY DEF Listen, Accept, ClearTables, InitTables, InitRegisters, Scatter, Close, Console
<1>3. Members' = Members
  <2>1. CASE Listen
    BY <2>1, RankFacts DEF Listen, Members
  <2>2. CASE Accept
    BY <2>2, <1>2 DEF Accept, Members
  <2>3. CASE ClearTables \/ InitTables \/ InitRegisters \/ Scatter
    BY <2>3, <1>2 DEF ClearTables, InitTables, InitRegisters, Scatter, Loop, Members
  <2>4. CASE Close \/ Console("listen") \/ Console("stopped")
    BY <2>4 DEF Close, Loop, Console, Members
  <2> QED
    BY <2>1, <2>2, <2>3, <2>4
<1> QED
  BY <1>1, <1>3 DEF Begun, Finished

\* So are the steps of an endpoint between its beginning and its end.
LEMMA ServiceEpStutter ==
  ASSUME SessionInv, NEW p \in Procs,
         \/ Connect(p) \/ RecvAccept(p) \/ MoveNorQps(p) \/ MoveVirQps(p)
         \/ UNCHANGED <<masterVars, state>>
  PROVE  UNCHANGED <<Members, Begun, Finished>>
<1>1. UNCHANGED masterVars
  BY DEF Connect, RecvAccept, MoveNorQps, MoveVirQps
<1>2. \A q \in Procs : (q \in Begun)' = (q \in Begun) /\ (q \in Finished)' = (q \in Finished)
  BY DEF Connect, RecvAccept, MoveNorQps, MoveVirQps, Goes, SessionInv, Domains, Begun, Finished
<1>3. Begun' = Begun /\ Finished' = Finished
  BY <1>2 DEF Begun, Finished
<1> QED
  BY <1>1, <1>3, MembersUnchanged

\* Every step.
LEMMA ServiceNext == SessionInv /\ [Next]_vars => [Service!Next]_(Service!vars)
<1> SUFFICES ASSUME SessionInv, [Next]_vars
             PROVE Service!Next \/ UNCHANGED <<Members, Begun, Finished>>
  BY DEF Service!vars, Begun, Finished
<1>1. CASE Master
  BY <1>1, ServiceGather, ServiceEnd, ServiceStutter DEF Master, Service!Next
<1>2. CASE Console("listen") \/ Console("stopped")
  BY <1>2, ServiceStutter
<1>3. ASSUME NEW p \in Procs,
             Connect(p) \/ RecvAccept(p) \/ MoveNorQps(p) \/ MoveVirQps(p)
      PROVE UNCHANGED <<Members, Begun, Finished>>
  BY <1>3, ServiceEpStutter
<1>4. ASSUME NEW p \in Procs, RecvScatter(p) \/ Finish(p) PROVE Service!Next
  BY <1>4, ServiceBegin, ServiceFinish DEF Service!Next
<1>5. ASSUME NEW p \in Procs,
             ReadDone(p) \/ RequestDone(p) \/ \E kind \in {"read", "request"}, s \in Ranks : Post(p, kind, s)
      PROVE UNCHANGED <<Members, Begun, Finished>>
  <2>1. UNCHANGED <<masterVars, state>>
    BY <1>5 DEF ReadDone, RequestDone, Completes, Post
  <2> QED
    BY <2>1, ServiceEpStutter
<1>6. CASE UNCHANGED vars
  BY <1>6, MembersUnchanged DEF vars, epVars, Begun, Finished
<1> QED
  BY <1>1, <1>2, <1>3, <1>4, <1>5, <1>6 DEF Next, Endpoint, Rest

(* The master and the endpoints implement a barrier at both ends of a      *)
(* session, however many endpoints, hosts and sessions there are.          *)
THEOREM BarrierImplemented == Spec => ServiceImplemented
<1>1. Init => Service!Init
  BY ServiceInit
<1>2. SessionInv /\ [Next]_vars => [Service!Next]_(Service!vars)
  BY ServiceNext
<1> QED
  BY <1>1, <1>2, SessionInvHolds, PTL DEF Spec, ServiceImplemented, Service!Spec

-----------------------------------------------------------------------------
(* The switch in a session: its tables and registers stay those of the     *)
(* endpoints that run.                                                     *)

InSession == {"init_registers", "scatter", "join", "close"}

\* While endpoints run, the tables are those of their session.
TablesKnown ==
  /\ DOMAIN tables = TableNames /\ DOMAIN req_epsn = Ranks
  /\ pc = "init_tables" => \A t \in TableNames : tables[t] = {}
  /\ pc \in InSession => \A t \in TableNames : tables[t] = NewEntries[t]

\* The register of a rank is that of the endpoint that has it.
RegistersKnown ==
  pc \in {"scatter", "join"} =>
    \A r \in Ranks : state[conn_fds[r]] # "gone" => req_epsn[r] = Sent(conn_fds[r])

\* At most one process of a host runs, and hosts tell members apart.
OneAtATime ==
  \A p, q \in Procs : p < q /\ Host(p) = Host(q) /\ state[q] # "new" => state[p] = "gone"

HostsDiffer ==
  \A a, b \in Ranks : a < Gathered /\ b < Gathered /\ fp_rank[a] = fp_rank[b] => a = b

VirConnected(p) ==
  /\ \A s \in Ranks : dest[p][<<"src", s>>] = Dest(Switch, Qpn(Switch, <<"src", s>>))
  /\ dest[p][<<"dst", 0>>] = Dest(Switch, Qpn(Switch, <<"dst", 0>>))
  /\ dest[p][<<"req", 0>>] = Dest(Switch, Qpn(Switch, <<"req", 0>>))

Ops == [kind : {"none", "read", "request"}, src : Ranks,
        status : {"none", "posted", "ok", "error"}]

WorkOf(p) ==
  /\ op[p] \in Ops
  /\ state[p] \notin {"ready", "gone"} => op[p] = NoOp
  /\ state[p] = "gone" => op[p].status # "posted"
  /\ state[p] = "ready" => VirConnected(p)

TablesInv ==
  /\ SessionInv
  /\ TablesKnown /\ RegistersKnown /\ OneAtATime /\ HostsDiffer
  /\ \A p \in Procs : WorkOf(p)

-----------------------------------------------------------------------------
(* Hosts                                                                   *)

\* Two processes of a host are at least NHost apart.
LEMMA HostApart ==
  ASSUME NEW p \in Procs, NEW q \in Procs, p < q, Host(p) = Host(q)
  PROVE  q >= NHost /\ q - NHost \in Procs /\ Host(q - NHost) = Host(q) /\ p <= q - NHost
<1>1. p \in Nat /\ q \in Nat /\ NHost \in Nat /\ NHost > 0 /\ NProc \in Nat
  BY SessionAssumption DEF Procs
<1>2. p % NHost = q % NHost
  BY <1>1 DEF Host
<1>3. p <= q - NHost
  <2>1. ASSUME q < p + NHost PROVE FALSE
    <3>0. q % NHost = p % NHost /\ NHost \in Nat \ {0}
      BY <1>1, <1>2
    <3>1. q <= p
      BY <1>1, <2>1, <3>0, SameSlot
    <3> QED
      BY <1>1, <3>1
  <2> QED
    BY <1>1, <2>1
<1>4. (q - NHost) % NHost = q % NHost
  <2>1. NHost \in Nat \ {0} /\ q >= NHost
    BY <1>1, <1>3
  <2> QED
    BY <1>1, <2>1, ModShift
<1> QED
  BY <1>1, <1>3, <1>4 DEF Host, Procs

\* A step that keeps the processes' states keeps them apart.
LEMMA OneAtATimeNext ==
  SessionInv /\ OneAtATime /\ [Next]_vars => OneAtATime'
<1> SUFFICES ASSUME SessionInv, OneAtATime, [Next]_vars, NEW p \in Procs, NEW q \in Procs,
                    p < q, Host(p) = Host(q), state'[q] # "new"
             PROVE  state'[p] = "gone"
  BY DEF OneAtATime
<1>1. state[p] = "gone" => state'[p] = "gone"
  BY DEF SessionInv, Domains, Next, Master, Listen, Accept, Gather, ClearTables, InitTables,
     InitRegisters, Scatter, Join, Close, Console, Connect, Endpoint, RecvAccept, RecvScatter,
     MoveNorQps, MoveVirQps, Finish, Post, ReadDone, RequestDone, Completes, Rest, Goes, vars, epVars
<1>2. CASE state[q] # "new"
  BY <1>1, <1>2 DEF OneAtATime
<1>3. CASE state[q] = "new"
  <2>1. q >= NHost => state[q - NHost] = "gone"
    BY <1>3 DEF SessionInv, Domains, Next, Master, Listen, Accept, Gather, ClearTables, InitTables,
       InitRegisters, Scatter, Join, Close, Console, Connect, CanConnect, Endpoint, RecvAccept, RecvScatter,
       MoveNorQps, MoveVirQps, Finish, Post, ReadDone, RequestDone, Completes, Rest, Goes, vars, epVars
  <2>2. q >= NHost /\ q - NHost \in Procs /\ Host(q - NHost) = Host(q) /\ p <= q - NHost
    BY HostApart
  <2>3. state[p] = "gone"
    <3>1. CASE p = q - NHost
      BY <2>1, <2>2, <3>1
    <3>2. CASE p < q - NHost
      BY <2>1, <2>2, <3>2 DEF OneAtATime
    <3> QED
      BY <2>2, <3>1, <3>2 DEF Procs, SessionAssumption
  <2> QED
    BY <1>1, <2>3
<1> QED
  BY <1>2, <1>3

\* A member is told apart from the others by its host when it answers.
LEMMA HostsDifferNext ==
  SessionInv /\ OneAtATime /\ HostsDiffer /\ [Next]_vars => HostsDiffer'
<1> SUFFICES ASSUME SessionInv, OneAtATime, HostsDiffer, [Next]_vars PROVE HostsDiffer'
  OBVIOUS
<1>1. CASE Listen
  BY <1>1, RankFacts DEF Listen, HostsDiffer, Gathered, Running
<1>2. CASE Accept
  <2>1. Gathered = i /\ Gathered' = i
    BY <1>2 DEF Accept, Gathered
  <2>2. \A a \in Ranks : a < i => fp_rank'[a] = fp_rank[a]
    BY <1>2, RankFacts DEF Accept, SessionInv, Domains
  <2> QED
    BY <2>1, <2>2 DEF HostsDiffer
<1>3. CASE Gather
  <2>1. Gathered = i /\ Gathered' = i + 1 /\ fp_rank' = fp_rank /\ i \in Ranks
    BY <1>3, RankFacts DEF Gather, Loop, Gathered, Running, SessionInv, Domains
  <2>2. conn_fd \in Procs /\ state[conn_fd] = "gathered" /\ fp_rank[i] = Host(conn_fd)
        /\ rank[conn_fd] = i
    BY <1>3, GatherMember
  <2>3. ASSUME NEW a \in Ranks, a < i PROVE fp_rank[a] # fp_rank[i]
    <3>1. /\ conn_fds[a] \in Procs /\ state[conn_fds[a]] = "gathered" /\ rank[conn_fds[a]] = a
          /\ fp_rank[a] = Host(conn_fds[a])
      BY <1>3, <2>1, <2>3 DEF SessionInv, MembersKnown, Told, Gather
    <3>2. conn_fds[a] < conn_fd \/ conn_fd < conn_fds[a]
      <4>1. a # i
        BY <2>1, <2>3, RankFacts
      <4>2. conn_fds[a] # conn_fd
        BY <2>2, <3>1, <4>1
      <4>3. conn_fds[a] \in Nat /\ conn_fd \in Nat
        BY <2>2, <3>1, RankFacts
      <4> QED
        BY <4>2, <4>3
    <3>3. Host(conn_fds[a]) # Host(conn_fd)
      BY <2>2, <3>1, <3>2 DEF OneAtATime
    <3> QED
      BY <2>2, <3>1, <3>3
  <2>4. \A a \in Ranks : a < i + 1 => a < i \/ a = i
    BY <2>1, RankFacts
  <2> QED
    BY <2>1, <2>3, <2>4 DEF HostsDiffer
<1>4. CASE UNCHANGED fp_rank /\ Gathered' \in {Gathered, 0}
  BY <1>4, RankFacts DEF HostsDiffer
<1>5. CASE ClearTables \/ InitTables \/ InitRegisters \/ Scatter \/ Join \/ Close
           \/ Console("listen") \/ Console("stopped")
  BY <1>4, <1>5 DEF ClearTables, InitTables, InitRegisters, Scatter, Join, Close, Console, Loop,
     Gathered, Running, infoVars
<1>6. CASE UNCHANGED masterVars
  BY <1>4, <1>6 DEF masterVars, infoVars, Gathered
<1> QED
  BY <1>1, <1>2, <1>3, <1>5, <1>6 DEF Next, Master, Connect, Endpoint, RecvAccept, RecvScatter,
     MoveNorQps, MoveVirQps, Finish, Post, ReadDone, RequestDone, Completes, Rest, vars

\* The work of an endpoint.
LEMMA WorkNext ==
  SessionInv /\ (\A p \in Procs : WorkOf(p)) /\ [Next]_vars => \A p \in Procs : WorkOf(p)'
<1> SUFFICES ASSUME SessionInv, \A q \in Procs : WorkOf(q), [Next]_vars, NEW p \in Procs
             PROVE  WorkOf(p)'
  OBVIOUS
<1> USE DEF SessionInv, Domains
<1>1. CASE UNCHANGED <<state[p], op[p], dest[p]>>
  BY <1>1 DEF WorkOf, VirConnected
<1>2. CASE UNCHANGED <<state, op, dest>>
  BY <1>1, <1>2
<1>3. ASSUME NEW q \in Procs, Connect(q) \/ RecvAccept(q) \/ RecvScatter(q) \/ MoveNorQps(q)
      PROVE  WorkOf(p)'
  <2>1. CASE q = p
    BY <1>3, <2>1 DEF WorkOf, Connect, RecvAccept, RecvScatter, MoveNorQps, Goes
  <2>2. CASE q # p
    BY <1>1, <1>3, <2>2 DEF Connect, RecvAccept, RecvScatter, MoveNorQps, Goes
  <2> QED
    BY <2>1, <2>2
<1>4. ASSUME NEW q \in Procs, MoveVirQps(q) PROVE WorkOf(p)'
  <2>1. CASE q = p
    <3>1. IsActive(p) /\ rank[p] \in Ranks
      BY <1>4, <2>1 DEF MoveVirQps, Goes, ProcessInv, Active
    <3>2. /\ \A s \in Ranks : dst_qp_info[p].src_qpn[s] = Qpn(Switch, <<"src", s>>)
          /\ dst_qp_info[p].dst_qpn = Qpn(Switch, <<"dst", 0>>)
          /\ dst_qp_info[p].req_qpn = Qpn(Switch, <<"req", 0>>)
      BY <3>1 DEF IsActive, DqpInfo, vir_qp_info, QpInfo
    <3>3. \A s \in Ranks : <<"src", s>> \in QpIds /\ <<"src", s>>[1] = "src" /\ <<"src", s>>[2] = s
      BY DEF QpIds
    <3>4. /\ <<"dst", 0>> \in QpIds /\ <<"dst", 0>>[1] = "dst"
          /\ <<"req", 0>> \in QpIds /\ <<"req", 0>>[1] = "req"
      BY DEF QpIds
    <3>5. \A s \in Ranks : dest'[p][<<"src", s>>] = Dest(Switch, Qpn(Switch, <<"src", s>>))
      BY <1>4, <2>1, <3>2, <3>3 DEF MoveVirQps
    <3>6. dest'[p][<<"dst", 0>>] = Dest(Switch, Qpn(Switch, <<"dst", 0>>))
      BY <1>4, <2>1, <3>2, <3>4 DEF MoveVirQps
    <3>7. dest'[p][<<"req", 0>>] = Dest(Switch, Qpn(Switch, <<"req", 0>>))
      BY <1>4, <2>1, <3>2, <3>4 DEF MoveVirQps
    <3>8. VirConnected(p)'
      BY <3>5, <3>6, <3>7 DEF VirConnected
    <3> QED
      BY <1>4, <2>1, <3>8 DEF WorkOf, MoveVirQps, Goes
  <2>2. CASE q # p
    BY <1>1, <1>4, <2>2 DEF MoveVirQps, Goes
  <2> QED
    BY <2>1, <2>2
<1>5. ASSUME NEW q \in Procs, Finish(q) PROVE WorkOf(p)'
  <2>1. CASE q = p
    BY <1>5, <2>1 DEF WorkOf, Finish, Goes
  <2>2. CASE q # p
    BY <1>1, <1>5, <2>2 DEF Finish, Goes
  <2> QED
    BY <2>1, <2>2
<1>6. ASSUME NEW q \in Procs, NEW kind \in {"read", "request"}, NEW s \in Ranks, Post(q, kind, s)
      PROVE WorkOf(p)'
  <2>1. CASE q = p
    BY <1>6, <2>1 DEF WorkOf, Post, VirConnected, Ops
  <2>2. CASE q # p
    BY <1>1, <1>6, <2>2 DEF Post
  <2> QED
    BY <2>1, <2>2
<1>7. ASSUME NEW q \in Procs, ReadDone(q) \/ RequestDone(q) PROVE WorkOf(p)'
  <2>1. CASE q = p
    <3>1. PICK status \in {"ok", "error"} : Completes(p, status)
      BY <1>7, <2>1 DEF ReadDone, RequestDone
    <3>2. op[p] \in Ops /\ op[p].status = "posted" /\ op'[p] = [op[p] EXCEPT !.status = status]
      BY <3>1 DEF Completes, WorkOf
    <3>3. op'[p] \in Ops /\ op'[p].status # "posted"
      BY <3>2 DEF Ops
    <3>4. state[p] \in {"ready", "gone"}
      BY <3>2 DEF WorkOf, NoOp
    <3>5. state'[p] = state[p] /\ dest'[p] = dest[p]
      BY <3>1 DEF Completes
    <3> QED
      BY <3>3, <3>4, <3>5 DEF WorkOf, VirConnected
  <2>2. CASE q # p
    BY <1>1, <1>7, <2>2 DEF ReadDone, RequestDone, Completes
  <2> QED
    BY <2>1, <2>2
<1> QED
  BY <1>2, <1>3, <1>4, <1>5, <1>6, <1>7 DEF Next, Master, Listen, Accept, Gather, ClearTables,
     InitTables, InitRegisters, Scatter, Join, Close, Console, Endpoint, Rest, vars, epVars

-----------------------------------------------------------------------------
(* Tables and registers                                                    *)

\* init_tables() finds the tables empty.
LEMMA TablesNext ==
  SessionInv /\ TablesKnown /\ [Next]_vars => TablesKnown'
<1> SUFFICES ASSUME SessionInv, TablesKnown, [Next]_vars PROVE TablesKnown'
  OBVIOUS
<1>1. CASE UNCHANGED <<pc, tables, req_epsn, infoVars>>
  <2>1. NewEntries' = NewEntries
    BY <1>1 DEF NewEntries, Entry, To, Key, Case, SrcDst, infoVars
  <2> QED
    BY <1>1, <2>1 DEF TablesKnown
<1>2. CASE pc' \notin InSession \cup {"init_tables"} /\ UNCHANGED <<tables, req_epsn>>
  BY <1>2 DEF TablesKnown, InSession
<1>3. CASE ClearTables
  BY <1>3 DEF ClearTables, TablesKnown, InSession
<1>4. CASE InitTables
  <2>1. \A t \in TableNames : tables'[t] = NewEntries[t]
    <3>1. ASSUME NEW t \in TableNames PROVE tables[t] = {}
      BY <1>4 DEF InitTables, TablesKnown
    <3> QED
      BY <1>4, <3>1 DEF InitTables
  <2>2. NewEntries' = NewEntries
    BY <1>4 DEF InitTables, NewEntries, Entry, To, Key, Case, SrcDst, infoVars
  <2> QED
    BY <1>4, <2>1, <2>2 DEF InitTables, TablesKnown
<1>5. CASE pc \in InSession /\ pc' # "init_tables" /\ UNCHANGED <<tables, infoVars>>
           /\ DOMAIN req_epsn' = Ranks
  <2>1. NewEntries' = NewEntries
    BY <1>5 DEF NewEntries, Entry, To, Key, Case, SrcDst, infoVars
  <2> QED
    BY <1>5, <2>1 DEF TablesKnown
<1>6. CASE Listen \/ Accept \/ Gather \/ Console("listen") \/ Console("stopped")
  BY <1>2, <1>6 DEF Listen, Accept, Gather, Loop, Console, InSession, switchVars
<1>7. CASE InitRegisters \/ Scatter \/ Join \/ Close
  BY <1>2, <1>5, <1>7 DEF InitRegisters, Scatter, Join, Close, Loop, InSession, switchVars, TablesKnown
<1>8. ASSUME NEW p \in Procs, RequestDone(p) PROVE TablesKnown'
  <2>1. UNCHANGED <<pc, tables, infoVars>> /\ DOMAIN req_epsn' = Ranks
    BY <1>8 DEF RequestDone, Completes, masterVars
  <2>2. NewEntries' = NewEntries
    BY <2>1 DEF NewEntries, Entry, To, Key, Case, SrcDst, infoVars
  <2> QED
    BY <2>1, <2>2 DEF TablesKnown
<1> QED
  BY <1>1, <1>3, <1>4, <1>6, <1>7, <1>8 DEF Next, Master, Connect, Endpoint, RecvAccept, RecvScatter,
     MoveNorQps, MoveVirQps, Finish, Post, ReadDone, Completes, Rest, vars, masterVars, switchVars

\* What the endpoints of a session know while it runs.
LEMMA ReadyFacts ==
  ASSUME TablesInv, NEW p \in Procs, state[p] = "ready"
  PROVE  /\ rank[p] \in Ranks /\ conn_fds[rank[p]] = p /\ pc \in {"scatter", "join"}
         /\ Gathered = NEp /\ net_ep_infos[p] = ep_infos /\ VirConnected(p)
         /\ \A t \in TableNames : tables[t] = NewEntries[t]
<1>1. IsActive(p) /\ rank[p] \in Ranks /\ VirConnected(p)
  BY DEF TablesInv, SessionInv, ProcessInv, Domains, Active, WorkOf
<1>2. pc # "close"
  BY <1>1 DEF TablesInv, SessionInv, MembersKnown, IsActive, IsMember
<1>3. pc \in {"scatter", "join"} /\ Gathered = NEp
  BY <1>1, <1>2 DEF IsActive, Told, Gathered, Running
<1> QED
  BY <1>1, <1>3 DEF TablesInv, TablesKnown, InSession, IsActive, IsMember

\* What the switch knows of each rank then.
LEMMA RankFactsReady ==
  ASSUME TablesInv, Gathered = NEp, NEW r \in Ranks
  PROVE  /\ conn_fds[r] \in Procs /\ rank[conn_fds[r]] = r
         /\ fp_rank[r] = Host(conn_fds[r]) /\ ep_infos[r].mem = conn_fds[r]
         /\ qp_infos[r] = QpInfo(conn_fds[r])
         /\ \A a \in Ranks : fp_rank[a] = fp_rank[r] => a = r
<1>1. r < Gathered /\ \A a \in Ranks : a < Gathered
  BY RankFacts
<1>2. ep_infos[r] = EpInfo(conn_fds[r], r)
  BY <1>1 DEF TablesInv, SessionInv, MembersKnown
<1>3. ep_infos[r].mem = conn_fds[r]
  BY <1>2 DEF EpInfo
<1>4. \A a \in Ranks : fp_rank[a] = fp_rank[r] => a = r
  BY <1>1 DEF TablesInv, HostsDiffer
<1> QED
  BY <1>1, <1>3, <1>4 DEF TablesInv, SessionInv, MembersKnown

\* An entry is found.
LEMMA Found ==
  ASSUME NEW t, NEW k, NEW v, Entry(k, v) \in tables[t]
  PROVE  v \in Lookup(t, k)
BY DEF Lookup, Entry

\* The entries for requests.
LEMMA RequestEntries ==
  ASSUME NEW e \in NewEntries["roce_case"], e.key.opcode = "WRITE_ONLY"
  PROVE  \E d \in Ranks : e.key.smac = fp_rank[d] /\ e.data.dst = d
<1>1. CASE \E d \in Ranks, o \in RequestOps :
             e = Entry(Key(d, o, vir_qp_info.req_qpn), Case("request", d, 0))
  BY <1>1 DEF Entry, Key, Case
<1>2. CASE \E s \in Ranks, d \in Ranks :
             e = Entry(Key(s, "READ_RES_ONLY", vir_qp_info.src_qpn[d]),
                       Case("read_response", d, SrcDst(s, d)))
  BY <1>2 DEF Entry, Key
<1>3. CASE \E s \in Ranks, d \in Ranks :
             e = Entry(Key(s, "ACK", vir_qp_info.src_qpn[d]), Case("read_nak", d, SrcDst(s, d)))
  BY <1>3 DEF Entry, Key
<1>4. CASE \E d \in Ranks :
             e = Entry(Key(d, "ACK", vir_qp_info.dst_qpn), Case("write_ack", d, 0))
  BY <1>4 DEF Entry, Key
<1> QED
  BY <1>1, <1>2, <1>3, <1>4 DEF NewEntries

\* The switch takes the requests of an endpoint for those of its rank.
LEMMA RequesterIs ==
  ASSUME TablesInv, NEW p \in Procs, state[p] = "ready"
  PROVE  Requester(p) = {rank[p]}
<1> DEFINE d == rank[p]
           K == [smac |-> Host(p), opcode |-> "WRITE_ONLY", dqpn |-> dest[p][<<"req", 0>>].qpn]
<1>1. /\ d \in Ranks /\ conn_fds[d] = p /\ Gathered = NEp
      /\ tables["roce_case"] = NewEntries["roce_case"]
      /\ dest[p][<<"req", 0>>].qpn = vir_qp_info.req_qpn
  BY ReadyFacts DEF VirConnected, Dest, Qpn, vir_qp_info, QpInfo, TableNames
<1>2. fp_rank[d] = Host(p) /\ \A a \in Ranks : fp_rank[a] = Host(p) => a = d
  BY <1>1, RankFactsReady
<1>3. Case("request", d, 0) \in RoceCase(Host(p), "WRITE_ONLY", dest[p][<<"req", 0>>].qpn)
  <2>1. Entry(Key(d, "WRITE_ONLY", vir_qp_info.req_qpn), Case("request", d, 0)) \in tables["roce_case"]
    BY <1>1 DEF NewEntries, RequestOps
  <2>2. Key(d, "WRITE_ONLY", vir_qp_info.req_qpn) = K
    BY <1>1, <1>2 DEF Key
  <2> QED
    BY <2>1, <2>2, Found DEF RoceCase
<1>4. ASSUME NEW c \in RoceCase(Host(p), "WRITE_ONLY", dest[p][<<"req", 0>>].qpn)
      PROVE  c.dst = d
  <2>1. PICK e \in tables["roce_case"] : e.key = K /\ e.data = c
    BY <1>4 DEF RoceCase, Lookup
  <2>2. e.key.opcode = "WRITE_ONLY" /\ e.key.smac = Host(p)
    BY <2>1
  <2>3. PICK a \in Ranks : e.key.smac = fp_rank[a] /\ e.data.dst = a
    BY <1>1, <2>1, <2>2, RequestEntries
  <2> QED
    BY <1>2, <2>1, <2>2, <2>3
<1>5. Case("request", d, 0).dst = d
  BY DEF Case
<1> QED
  BY <1>3, <1>4, <1>5 DEF Requester

\* Each request moves the register of its rank and no other.
LEMMA RegistersNext ==
  TablesInv /\ [Next]_vars => RegistersKnown'
<1> SUFFICES ASSUME TablesInv, [Next]_vars, pc' \in {"scatter", "join"},
                    NEW r \in Ranks, state'[conn_fds'[r]] # "gone"
             PROVE  req_epsn'[r] = Sent(conn_fds[r])'
  BY DEF RegistersKnown
<1> DEFINE c == conn_fds[r]
<1>1. CASE InitRegisters
  <2>1. Gathered = NEp /\ ~Told(r) /\ conn_fds' = conn_fds
    BY <1>1 DEF InitRegisters, Gathered, Running, Told
  <2>2. c \in Procs
    BY <2>1, RankFactsReady
  <2>3. state[c] = "gathered"
    BY <2>1, RankFacts DEF TablesInv, SessionInv, MembersKnown
  <2>4. op[c] = NoOp /\ op' = op
    BY <1>1, <2>2, <2>3 DEF TablesInv, WorkOf, InitRegisters, epVars
  <2> QED
    BY <1>1, <2>1, <2>4 DEF InitRegisters, Sent, NoOp
<1>2. CASE pc \in {"scatter", "join"}
  <2>1. Gathered = NEp
    BY <1>2 DEF Gathered, Running
  <2>2. c \in Procs /\ rank[c] = r
    BY <2>1, RankFactsReady
  <2>3. CASE UNCHANGED <<conn_fds, req_epsn, op>>
            /\ (state[c] = "gone" => state'[c] = "gone")
    BY <1>2, <2>3 DEF TablesInv, RegistersKnown, Sent
  <2>4. CASE Scatter \/ Join
    BY <2>3, <2>4 DEF Scatter, Join, switchVars, epVars
  <2>5. ASSUME NEW p \in Procs,
               \/ Connect(p) \/ RecvAccept(p) \/ RecvScatter(p) \/ MoveNorQps(p) \/ MoveVirQps(p)
               \/ Finish(p)
        PROVE  req_epsn'[r] = Sent(conn_fds[r])'
    BY <2>2, <2>3, <2>5 DEF Connect, RecvAccept, RecvScatter, MoveNorQps, MoveVirQps, Finish, Goes,
       masterVars, switchVars, TablesInv, SessionInv, Domains
  <2>6. ASSUME NEW p \in Procs, NEW kind \in {"read", "request"}, NEW s \in Ranks, Post(p, kind, s)
        PROVE  req_epsn'[r] = Sent(conn_fds[r])'
    <3>1. conn_fds' = conn_fds /\ req_epsn' = req_epsn /\ state' = state
      BY <2>6 DEF Post, masterVars, switchVars
    <3>2. Sent(c)' = Sent(c)
      BY <2>2, <2>6, <3>1 DEF Post, Sent, NoOp, TablesInv, SessionInv, Domains
    <3> QED
      BY <1>2, <3>1, <3>2 DEF TablesInv, RegistersKnown, Sent
  <2>7. ASSUME NEW p \in Procs, ReadDone(p) PROVE req_epsn'[r] = Sent(conn_fds[r])'
    <3>1. /\ conn_fds' = conn_fds /\ req_epsn' = req_epsn /\ state' = state
          /\ op[p].kind = "read" /\ \E status : op' = [op EXCEPT ![p].status = status]
      BY <2>7 DEF ReadDone, Completes, masterVars, switchVars
    <3>2. op'[p].kind = "read" /\ (c # p => op'[c] = op[c])
      BY <2>2, <3>1 DEF TablesInv, WorkOf, Ops, SessionInv, Domains
    <3>3. Sent(c)' = Sent(c)
      BY <3>1, <3>2 DEF Sent
    <3> QED
      BY <1>2, <3>1, <3>3 DEF TablesInv, RegistersKnown, Sent
  <2>8. ASSUME NEW p \in Procs, RequestDone(p) PROVE req_epsn'[r] = Sent(conn_fds[r])'
    <3>1. /\ conn_fds' = conn_fds /\ state' = state
          /\ op[p].kind = "request" /\ op[p].status = "posted"
          /\ \E status \in {"ok", "error"} : op' = [op EXCEPT ![p].status = status]
      BY <2>8 DEF RequestDone, Completes, masterVars
    <3>2. state[p] = "ready"
      BY <3>1 DEF TablesInv, WorkOf, NoOp
    <3>3. Requester(p) = {rank[p]} /\ conn_fds[rank[p]] = p
      BY <3>2, RequesterIs, ReadyFacts
    <3>4. req_epsn'[r] = IF r = rank[p] THEN req_epsn[r] + 1 ELSE req_epsn[r]
      BY <2>8, <3>3 DEF RequestDone
    <3>5. req_epsn[r] = Sent(c)
      BY <1>2, <3>1 DEF TablesInv, RegistersKnown
    <3>6. CASE r = rank[p]
      <4>1. c = p /\ Sent(c) = 0
        BY <3>1, <3>3, <3>6 DEF Sent
      <4>2. op'[p].kind = "request" /\ op'[p].status # "posted"
        BY <3>1 DEF TablesInv, WorkOf, Ops, SessionInv, Domains
      <4>3. Sent(c)' = 1
        BY <3>1, <4>1, <4>2 DEF Sent
      <4> QED
        BY <3>1, <3>4, <3>5, <3>6, <4>1, <4>3
    <3>7. CASE r # rank[p]
      <4>1. c # p
        BY <2>2, <3>7
      <4>2. Sent(c)' = Sent(c)
        BY <2>2, <3>1, <4>1 DEF Sent, TablesInv, SessionInv, Domains
      <4> QED
        BY <3>1, <3>4, <3>5, <3>7, <4>2 DEF Sent
    <3> QED
      BY <3>6, <3>7
  <2>9. CASE UNCHANGED vars
    BY <2>3, <2>9 DEF vars, masterVars, switchVars, epVars
  <2> QED
    BY <1>2, <2>4, <2>5, <2>6, <2>7, <2>8, <2>9 DEF Next, Master, Endpoint, Rest, Listen, Accept,
       Gather, ClearTables, InitTables, InitRegisters, Close, Console
<1>3. InitRegisters \/ pc \in {"scatter", "join"}
  <2>1. CASE Master
    BY <2>1 DEF Master, Listen, Accept, Gather, Loop, ClearTables, InitTables, Scatter, Join, Close
  <2>2. CASE Console("listen") \/ Console("stopped")
    BY <2>2 DEF Console
  <2>3. CASE UNCHANGED masterVars
    BY <2>3 DEF masterVars
  <2> QED
    BY <2>1, <2>2, <2>3 DEF Next, Endpoint, Rest, Connect, RecvAccept, RecvScatter, MoveNorQps,
       MoveVirQps, Finish, Post, ReadDone, RequestDone, Completes, vars
<1> QED
  BY <1>1, <1>2, <1>3

\* All of it holds.
LEMMA TablesInvInit == Init => TablesInv
<1> SUFFICES ASSUME Init PROVE TablesInv
  OBVIOUS
<1>1. SessionInv
  BY InitInv
<1>2. TablesKnown /\ RegistersKnown /\ OneAtATime
  BY DEF Init, TablesKnown, RegistersKnown, OneAtATime, InSession
<1>3. HostsDiffer
  BY RankFacts DEF Init, HostsDiffer, Gathered, Running
<1>4. ASSUME NEW p \in Procs PROVE WorkOf(p)
  BY RankFacts DEF Init, WorkOf, Ops, NoOp
<1> QED
  BY <1>1, <1>2, <1>3, <1>4 DEF TablesInv

LEMMA TablesInvNext == TablesInv /\ [Next]_vars => TablesInv'
BY NextInv, TablesNext, RegistersNext, OneAtATimeNext, HostsDifferNext, WorkNext DEF TablesInv

(* Whatever the session, the tables and registers of the switch are those  *)
(* of the endpoints that run.                                              *)
THEOREM TablesInvHolds == Spec => []TablesInv
BY TablesInvInit, TablesInvNext, PTL DEF Spec

-----------------------------------------------------------------------------
(* The way of a request                                                    *)

\* The READs of a request reach the source and their responses are known.
LEMMA SourceFound ==
  ASSUME TablesInv, NEW p \in Procs, NEW s \in Ranks, state[p] = "ready",
         state[conn_fds[s]] = "ready"
  PROVE  SourceReads(p, s, rank[p])
<1> DEFINE d == rank[p]
           q == conn_fds[s]
           a == To(s, qp_infos[s].src_qpn[d])
           k == Key(s, "READ_RES_ONLY", vir_qp_info.src_qpn[d])
<1>1. /\ d \in Ranks /\ Gathered = NEp /\ net_ep_infos[p] = ep_infos
      /\ \A t \in TableNames : tables[t] = NewEntries[t]
  BY ReadyFacts
<1>2. /\ q \in Procs /\ fp_rank[s] = Host(q) /\ ep_infos[s].mem = q
      /\ qp_infos[s] = QpInfo(q)
  BY <1>1, RankFactsReady
<1>3. a.port = Host(q) /\ a.dqpn = Qpn(q, <<"src", d>>) /\ a.rkey = q
  BY <1>1, <1>2 DEF To, QpInfo
<1>4. a \in Lookup("tx_src_read", <<s, d>>)
  <2>1. Entry(<<s, d>>, a) \in tables["tx_src_read"]
    BY <1>1 DEF NewEntries, TableNames
  <2> QED
    BY <2>1, Found
<1>5. VirConnected(q)
  BY <1>2 DEF TablesInv, WorkOf
<1>6. dest[q][<<"src", d>>] = Dest(Switch, vir_qp_info.src_qpn[d])
  BY <1>1, <1>5 DEF VirConnected, vir_qp_info, QpInfo
<1>7. Connected(a.port, a.dqpn)
  <2>1. dest[q][<<"src", d>>].gid = -2 /\ NotConnected.gid = -1
    BY <1>6 DEF Dest, Switch, NotConnected, Nobody
  <2>2. dest[q][<<"src", d>>] # NotConnected
    BY <2>1
  <2> QED
    BY <1>2, <1>3, <2>2 DEF Connected, Qpn
<1>8. a.dqpn.proc = q /\ a.dqpn.id = <<"src", d>>
  BY <1>3 DEF Qpn
<1>9. Case("read_response", d, SrcDst(s, d))
        \in RoceCase(a.port, "READ_RES_ONLY", dest[a.dqpn.proc][a.dqpn.id].qpn)
  <2>1. Entry(k, Case("read_response", d, SrcDst(s, d))) \in tables["roce_case"]
    BY <1>1 DEF NewEntries, TableNames
  <2>2. dest[a.dqpn.proc][a.dqpn.id].qpn = vir_qp_info.src_qpn[d]
    BY <1>6, <1>8 DEF Dest
  <2>3. k = [smac |-> a.port, opcode |-> "READ_RES_ONLY", dqpn |-> vir_qp_info.src_qpn[d]]
    BY <1>2, <1>3 DEF Key
  <2> QED
    BY <2>1, <2>2, <2>3, Found DEF RoceCase
<1> QED
  BY <1>1, <1>2, <1>3, <1>4, <1>7, <1>8, <1>9 DEF SourceReads

\* The WRITE goes to the requester, and so does the ACK of it.
LEMMA DestFound ==
  ASSUME TablesInv, NEW p \in Procs, state[p] = "ready"
  PROVE  DestWrites(p, rank[p])
<1> DEFINE d == rank[p]
           w == To(d, qp_infos[d].dst_qpn)
           a == To(d, qp_infos[d].req_qpn)
           k == Key(d, "ACK", vir_qp_info.dst_qpn)
           c == Case("write_ack", d, 0)
<1>1. /\ d \in Ranks /\ Gathered = NEp /\ VirConnected(p) /\ conn_fds[d] = p
      /\ \A t \in TableNames : tables[t] = NewEntries[t]
  BY ReadyFacts
<1>2. fp_rank[d] = Host(p) /\ ep_infos[d].mem = p /\ qp_infos[d] = QpInfo(p)
  BY <1>1, RankFactsReady
<1>3. w = [port |-> Host(p), dqpn |-> Qpn(p, <<"dst", 0>>), rkey |-> p]
  BY <1>2 DEF To, QpInfo
<1>4. w \in Lookup("tx_dst_write", d)
  <2>1. Entry(d, w) \in tables["tx_dst_write"]
    BY <1>1 DEF NewEntries, TableNames
  <2> QED
    BY <2>1, Found
<1>5. a.port = Host(p) /\ a.dqpn = Qpn(p, <<"req", 0>>) /\ c.dst = d
  BY <1>2 DEF To, QpInfo, Case
<1>6. a \in Lookup("tx_req_ack", d)
  <2>1. Entry(d, a) \in tables["tx_req_ack"]
    BY <1>1 DEF NewEntries, TableNames
  <2> QED
    BY <2>1, Found
<1>7. c \in RoceCase(Host(p), "ACK", dest[p][<<"dst", 0>>].qpn)
  <2>1. Entry(k, c) \in tables["roce_case"]
    BY <1>1 DEF NewEntries, TableNames
  <2>2. dest[p][<<"dst", 0>>].qpn = vir_qp_info.dst_qpn
    BY <1>1 DEF VirConnected, vir_qp_info, QpInfo, Dest
  <2>3. k = [smac |-> Host(p), opcode |-> "ACK", dqpn |-> vir_qp_info.dst_qpn]
    BY <1>2 DEF Key
  <2> QED
    BY <2>1, <2>2, <2>3, Found DEF RoceCase
<1> QED
  BY <1>3, <1>4, <1>5, <1>6, <1>7 DEF DestWrites

\* The invariant says that requests are answered.
LEMMA RequestsAnsweredOfInv == TablesInv => RequestsAnswered
<1> SUFFICES ASSUME TablesInv, NEW p \in Procs, NEW s \in Ranks, state[p] = "ready",
                    state[net_ep_infos[p][s].mem] = "ready"
             PROVE  RequestAnswered(p, s)
  BY DEF RequestsAnswered
<1> DEFINE d == rank[p]
<1>1. /\ d \in Ranks /\ Gathered = NEp /\ net_ep_infos[p] = ep_infos /\ conn_fds[d] = p
      /\ pc \in {"scatter", "join"} /\ \A t \in TableNames : tables[t] = NewEntries[t]
  BY ReadyFacts
<1>2. fp_rank[d] = Host(p) /\ state[conn_fds[s]] = "ready"
  BY <1>1, RankFactsReady
<1>3. d \in Requester(p)
  BY RequesterIs
<1>4. req_epsn[d] = Sent(p)
  BY <1>1 DEF TablesInv, RegistersKnown
<1>5. Host(p) \in Lookup("tx_repl_many", Host(p))
  <2>1. Entry(fp_rank[d], fp_rank[d]) \in tables["tx_repl_many"]
    BY <1>1 DEF NewEntries, TableNames
  <2> QED
    BY <1>2, <2>1, Found
<1>6. [dst |-> d, pair |-> SrcDst(s, d)] \in Lookup("rx_repl_only", <<Host(p), s>>)
  <2>1. Entry(<<fp_rank[d], s>>, [dst |-> d, pair |-> SrcDst(s, d)]) \in tables["rx_repl_only"]
    BY <1>1 DEF NewEntries, TableNames
  <2> QED
    BY <1>2, <2>1, Found
<1>7. SourceReads(p, s, d) /\ DestWrites(p, d)
  BY <1>2, SourceFound, DestFound
<1> QED
  BY <1>3, <1>4, <1>5, <1>6, <1>7 DEF RequestAnswered

(* Whoever has set itself up can shuffle from every endpoint of its        *)
(* session that has done so too: clear_tables(), init_tables() and         *)
(* init_registers() leave nothing of an earlier session, and say the same  *)
(* of ranks, hosts and queue pairs as the endpoints were told.             *)
THEOREM RequestsAnsweredAlways == Spec => []RequestsAnswered
BY TablesInvHolds, RequestsAnsweredOfInv, PTL
=============================================================================
