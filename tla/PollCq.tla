------------------------------- MODULE PollCq -------------------------------
(***************************************************************************)
(* Posting and polling READs from several threads of an endpoint.          *)
(*                                                                         *)
(* Source: endpoint/shuffle_endpoint.hpp, post_read() and poll_cq(); the   *)
(* pairs post_shuffle_request() / poll_shuffle_request_cq() there and      *)
(* post_read() / poll_cq() of endpoint/rdma_endpoint.hpp are the same code *)
(* on other queues.  Any thread polls any completion queue, and hands the  *)
(* completions of other threads over through their ring buffers.  A push   *)
(* takes the steps it takes in module RingBuffer, for what it returns      *)
(* depends on what others do between them; a pop() is one step, for each   *)
(* ring has one thread that pops.  Queue pairs and ibv_poll_cq belong to   *)
(* the verbs library.                                                      *)
(***************************************************************************)
EXTENDS Integers, SequencesExt

CONSTANTS
  NCore,         \* n_core: threads
  NEp,           \* n_ep: endpoints, each with a queue pair and a queue
  QSize,         \* q_size: entries of a queue, and of a ring buffer
  MaxPost,       \* bound: READs a thread posts
  Window         \* READs the callers keep outstanding on a queue pair

ASSUME PollAssumption ==
  /\ NCore \in Nat \ {0} /\ NEp \in Nat \ {0} /\ QSize \in Nat \ {0, 1}
  /\ MaxPost \in Nat /\ Window \in 1 .. QSize

Threads == 0 .. NCore - 1
Eps == 0 .. NEp - 1

\* The wr_id that travels with a READ carries the thread's number.
WrId(wr, thread) == wr * NCore + thread
WrThread(id) == id % NCore
WrOf(id) == id \div NCore

VARIABLES
  posted,        \* posted[t]: READs thread t has posted
  sq,            \* sq[e]: wr_ids of the READs under way to endpoint e
  cq,            \* nor_cqs[e]: completions nobody has polled
  ring,          \* nor_cq_perthread[t]: what is published, not popped
  tail,          \* and its index tail
  polling,       \* polling[t]: the queue thread t is about to poll
  pc,            \* pc[t]: where in poll_cq() it is
  wcs, i, ret,   \* locals of poll_cq()
  at,            \* at[t]: the local t of push(), the tail it has loaded;
                 \* a local is 0 when nothing needs it any more
  cqes,          \* cqes[t]: what poll_cq() gave thread t, in order
  lossy          \* history: a batch of several completions was polled, or
                 \* a push was refused

callVars == <<polling, pc, wcs, i, ret, at>>
vars == <<posted, sq, cq, ring, tail, callVars, cqes, lossy>>

Init ==
  /\ posted = [t \in Threads |-> 0]
  /\ sq = [e \in Eps |-> <<>>]
  /\ cq = [e \in Eps |-> <<>>]
  /\ ring = [t \in Threads |-> <<>>]
  /\ tail = [t \in Threads |-> 0]
  /\ polling = [t \in Threads |-> 0]
  /\ pc = [t \in Threads |-> "idle"]
  /\ wcs = [t \in Threads |-> <<>>]
  /\ i = [t \in Threads |-> 0]
  /\ ret = [t \in Threads |-> 0]
  /\ at = [t \in Threads |-> 0]
  /\ cqes = [t \in Threads |-> <<>>]
  /\ lossy = FALSE

\* READs to endpoint e that are not yet polled from its queue.
Outstanding(e) == Len(sq[e]) + Len(cq[e])

PostRead(t, e) ==
  /\ pc[t] = "idle"
  /\ posted[t] < MaxPost /\ Outstanding(e) < Window
  /\ sq' = [sq EXCEPT ![e] = Append(@, WrId(posted[t], t))]
  /\ posted' = [posted EXCEPT ![t] = @ + 1]
  /\ UNCHANGED <<cq, ring, tail, callVars, cqes, lossy>>

\* A reliable connection completes its READs in order.
Complete(e) ==
  /\ sq[e] # <<>>
  /\ cq' = [cq EXCEPT ![e] = Append(@, Head(sq[e]))]
  /\ sq' = [sq EXCEPT ![e] = Tail(@)]
  /\ UNCHANGED <<posted, ring, tail, callVars, cqes, lossy>>

-----------------------------------------------------------------------------
(* poll_cq(e, t)                                                           *)

\* pop() of the thread's own ring.
PopRing(t) ==
  /\ ring[t] # <<>>
  /\ ring' = [ring EXCEPT ![t] = Tail(@)]
  /\ cqes' = [cqes EXCEPT ![t] = Append(@, Head(ring[t]))]

\* The first pop() finds a completion and poll_cq returns it.
PollRing(t) ==
  /\ pc[t] = "idle"
  /\ PopRing(t)
  /\ UNCHANGED <<posted, sq, cq, tail, callVars, lossy>>

\* The first pop() finds nothing.
StartPoll(t, e) ==
  /\ pc[t] = "idle" /\ ring[t] = <<>>
  /\ pc' = [pc EXCEPT ![t] = "poll"]
  /\ polling' = [polling EXCEPT ![t] = e]
  /\ UNCHANGED <<posted, sq, cq, ring, tail, wcs, i, ret, at, cqes, lossy>>

\* ibv_poll_cq takes up to q_size completions at once.
IbvPollCq(t) ==
  LET e == polling[t]
      n == IF Len(cq[e]) < QSize THEN Len(cq[e]) ELSE QSize
  IN  /\ pc[t] = "poll"
      /\ wcs' = [wcs EXCEPT ![t] = SubSeq(cq[e], 1, n)]
      /\ cq' = [cq EXCEPT ![e] = SubSeq(@, n + 1, Len(@))]
      /\ ret' = [ret EXCEPT ![t] = n]
      /\ i' = [i EXCEPT ![t] = 0]
      /\ pc' = [pc EXCEPT ![t] = "loop"]
      /\ polling' = [polling EXCEPT ![t] = 0]
      /\ lossy' = (lossy \/ n > 1)
      /\ UNCHANGED <<posted, sq, ring, tail, at, cqes>>

-----------------------------------------------------------------------------
(* One iteration of the loop: push() of the completion to the ring of the  *)
(* thread that posted.  The indices of a ring count from the start here;   *)
(* the code keeps them % q_size, which is what the test for a full ring    *)
(* sees.  Two things are taken as they are on x86 and in programs of this  *)
(* size: a compare-and-swap fails only when the index has moved, and no    *)
(* push is overtaken by a whole lap of the ring before its own.            *)

\* Mutant: everything is handed to the thread that polls.
OwnRing(t) == t

Target(t) == WrThread(wcs[t][i[t] + 1])

HeadOf(u) == Len(cqes[u])
WriteOf(u) == HeadOf(u) + Len(ring[u])

LoadTail(t) ==
  /\ pc[t] = "loop" /\ i[t] < ret[t]
  /\ at' = [at EXCEPT ![t] = tail[Target(t)]]
  /\ pc' = [pc EXCEPT ![t] = "test"]
  /\ UNCHANGED <<posted, sq, cq, ring, tail, polling, wcs, i, ret, cqes, lossy>>

\* Mutant: one slot more is kept free.
LooksFullEarly(t) == (at[t] + 2 - HeadOf(Target(t))) % QSize = 0

\* The head is younger than the tail the thread has loaded: the ring looks
\* full too when the head has passed that tail meanwhile.
LooksFull(t) == (at[t] + 1 - HeadOf(Target(t))) % QSize = 0

FindRoom(t) ==
  /\ pc[t] = "test" /\ ~LooksFull(t)
  /\ pc' = [pc EXCEPT ![t] = "swap"]
  /\ UNCHANGED <<posted, sq, cq, ring, tail, polling, wcs, i, ret, at, cqes, lossy>>

\* push() returns -1 into ret, which the loop compares i with.  The
\* logassert that fails only writes to the log: the completion is gone.
Refuse(t) ==
  /\ pc[t] = "test" /\ LooksFull(t)
  /\ ret' = [ret EXCEPT ![t] = -1]
  /\ i' = [i EXCEPT ![t] = @ + 1]
  /\ at' = [at EXCEPT ![t] = 0]
  /\ pc' = [pc EXCEPT ![t] = "loop"]
  /\ lossy' = TRUE
  /\ UNCHANGED <<posted, sq, cq, ring, tail, polling, wcs, cqes>>

\* Takes the slot, or loads the tail again.
CasTail(t) ==
  LET u == Target(t)
  IN  /\ pc[t] = "swap"
      /\ \/ /\ tail[u] = at[t]
            /\ tail' = [tail EXCEPT ![u] = @ + 1]
            /\ pc' = [pc EXCEPT ![t] = "publish"]
         \/ /\ tail[u] # at[t]
            /\ pc' = [pc EXCEPT ![t] = "loop"]
            /\ UNCHANGED tail
      /\ UNCHANGED <<posted, sq, cq, ring, polling, wcs, i, ret, at, cqes, lossy>>

\* Waits for the pushes before it, then returns 0 into ret.
CasWrite(t) ==
  LET u == Target(t)
  IN  /\ pc[t] = "publish" /\ WriteOf(u) = at[t]
      /\ ring' = [ring EXCEPT ![u] = Append(@, WrOf(wcs[t][i[t] + 1]))]
      /\ ret' = [ret EXCEPT ![t] = 0]
      /\ i' = [i EXCEPT ![t] = @ + 1]
      /\ at' = [at EXCEPT ![t] = 0]
      /\ pc' = [pc EXCEPT ![t] = "loop"]
      /\ UNCHANGED <<posted, sq, cq, tail, polling, wcs, cqes, lossy>>

PushWc(t) == LoadTail(t) \/ FindRoom(t) \/ Refuse(t) \/ CasTail(t) \/ CasWrite(t)

-----------------------------------------------------------------------------
\* Mutant: the loop ends one completion early.
EndPollEarly(t) ==
  /\ pc[t] = "loop" /\ i[t] + 1 >= ret[t]
  /\ pc' = [pc EXCEPT ![t] = "idle"]
  /\ wcs' = [wcs EXCEPT ![t] = <<>>]
  /\ i' = [i EXCEPT ![t] = 0]
  /\ ret' = [ret EXCEPT ![t] = 0]
  /\ \/ PopRing(t)
     \/ ring[t] = <<>> /\ UNCHANGED <<ring, cqes>>
  /\ UNCHANGED <<posted, sq, cq, tail, polling, at, lossy>>

\* The loop ends; the last pop() decides what poll_cq returns.
EndPoll(t) ==
  /\ pc[t] = "loop" /\ i[t] >= ret[t]
  /\ pc' = [pc EXCEPT ![t] = "idle"]
  /\ wcs' = [wcs EXCEPT ![t] = <<>>]
  /\ i' = [i EXCEPT ![t] = 0]
  /\ ret' = [ret EXCEPT ![t] = 0]
  /\ \/ PopRing(t)
     \/ ring[t] = <<>> /\ UNCHANGED <<ring, cqes>>
  /\ UNCHANGED <<posted, sq, cq, tail, polling, at, lossy>>

-----------------------------------------------------------------------------
InPoll(t) == IbvPollCq(t) \/ PushWc(t) \/ EndPoll(t)

Next ==
  \/ \E t \in Threads, e \in Eps : PostRead(t, e) \/ StartPoll(t, e)
  \/ \E t \in Threads : PollRing(t) \/ InPoll(t)
  \/ \E e \in Eps : Complete(e)

Spec == Init /\ [][Next]_vars

\* Connections work, a thread inside poll_cq goes on, and threads poll each
\* queue again and again, as the loops of the example programs do.
Fairness ==
  /\ \A e \in Eps : WF_vars(Complete(e))
  /\ \A t \in Threads :
       /\ WF_vars(PollRing(t)) /\ WF_vars(InPoll(t))
       /\ \A e \in Eps : SF_vars(StartPoll(t, e))

FairSpec == Spec /\ Fairness

(* A thread is told of its own READs only, and of none twice, whoever      *)
(* polls which queue at the same time.                                     *)
OwnOnce ==
  \A t \in Threads :
    /\ IsInjective(cqes[t])
    /\ \A k \in 1 .. Len(cqes[t]) : cqes[t][k] < posted[t]

\* The completions taken from a queue and not yet handed to their thread.
InHand(t) == {wcs[t][k] : k \in i[t] + 1 .. Len(wcs[t])}
Waiting(t, wr) ==
  LET id == WrId(wr, t)
  IN  \/ \E e \in Eps : id \in ToSet(sq[e]) \cup ToSet(cq[e])
      \/ \E u \in Threads : id \in InHand(u)
      \/ wr \in ToSet(ring[t]) \cup ToSet(cqes[t])

(* A posted READ is under way, waits in a queue or a ring, or was reported *)
(* to its thread: no completion is dropped between the two.                *)
NoCompletionLost == \A t \in Threads : \A wr \in 0 .. posted[t] - 1 : Waiting(t, wr)

(* There are two ways to lose a completion: to poll it behind another one  *)
(* in a batch, and to have its push refused, by a ring that is full or     *)
(* only looks full.  Whatever the threads do at the same time, there is no *)
(* third: until one of the two happens every READ is accounted for.        *)
LostInBatchOrRefused == lossy \/ NoCompletionLost

(* A push is refused with reason, or because others were quicker: the ring *)
(* of the thread that posted is full, counting the slots that are taken    *)
(* and not published yet, or another push got in after this one loaded the *)
(* tail.  In the second case the ring may be empty by then.                *)
RefusedFullOrOvertaken ==
  [][\A t \in Threads : ret'[t] = -1 /\ ret[t] # -1 =>
       LET u == Target(t)
       IN  tail[u] - HeadOf(u) = QSize - 1 \/ tail[u] # at[t]]_vars

(* Every READ is reported to the thread that posted it, as the loops of    *)
(* endpoint/shuffle_endpoint.cpp:36-49 and one_read_endpoint.cpp wait for, *)
(* unless one of the two ways to lose completions is taken.                *)
EveryReadReported ==
  \A t \in Threads : \A wr \in 0 .. MaxPost - 1 :
    posted[t] > wr ~> lossy \/ wr \in ToSet(cqes[t])
=============================================================================
