# Verification of the RoCE shuffle

The repository builds a *shuffle* inside a network: an endpoint sends a list of
descriptors ("bring me this item of that endpoint's memory, to this offset") to
a programmable switch as one RDMA WRITE; the switch turns every descriptor into
an RDMA READ to the endpoint that has the item, and every READ response into an
RDMA WRITE to the endpoint that asked. This directory holds TLA+ models of the
parts of it that can go wrong, the TLC runs that check them, and theorems that
TLAPS checks for every value of the constants.

Run TLC with `tlc -config NAME.cfg MODULE` (the table of runs names the module)
and the proofs with `tlapm MODULE.tla`.

## 1. Inventory

| part | code | state | operations | modelled |
| --- | --- | --- | --- | --- |
| simulated endpoints, queue pairs | `python/rdma.py`, `python/endpoint.py` | memory region, send queue, completion queue, PSNs of requester and responder, packet queues | `tx_once`, `rx` (ACK; READ; WRITE), `retry` | `Packet`, `Qp` |
| simulated switch | `python/switch.py` | 15 register arrays: request window, units, read ring, write ring, PSNs per endpoint pair | `process` (request, write ACK/NAK, read response/NAK), `process_loopback` (multicast, mirror, READ) | `Switch` |
| simulator | `python/simulator.py` | the tick, transmission and retry timers, random loss | `simulate`, the set-up and the final check of the main program | `Shuffle`, `ShuffleService` |
| ring buffer | `common/ring_buffer.hpp` | `data`, `head`, `tail`, `write` | `push`, `pop`, from several threads | `RingBuffer`, `BoundedFifo` |
| endpoint library | `endpoint/shuffle_endpoint.hpp` (`rdma_endpoint.hpp` is an older copy the build does not compile) | queue pairs, completion queues, one ring per thread; what the master told it | `post_read`, `post_shuffle_request`, `poll_cq`, `poll_shuffle_request_cq`; address exchange, `move_qp_to_rts`, `finish` | posting and polling: `PollCq`; from connecting to `finish`: `Session` |
| P4 pipeline | `p4/shuffle/*.p4` | the registers of `switch.py`, spread over ingress and egress, and the queues between them | one pass of a packet: `rx_case` of ingress, `case_tbl` and `request_case` of egress; mirror and loopback | `Pipeline`, `Fabric` |
| switch driver | `switchd/shuffle_drv.hpp` | tables and initial register values | `init_*_tbl`, `init_registers`, `clear_tables` | `Tables`, `Pipeline`; from one session to the next: `Fabric`, `Session` |
| master session | `switchd/shuffle_master.hpp` | connections, ranks, queue pair numbers | `listen`, `accept`, `scatter`, `join`, `close`, the console, over TCP | `Session`, `SessionService` |
| switch daemon | `switchd/vswitchd.hpp` | ports, mirror sessions, table entries | start-up with the vendor's API; `clear_table` | loopback ports and mirrors: `Tables`; `clear_table`: `Session` |
| the rest | `rdma/`, `common/` (logging, command line, configuration, huge pages), other P4 programs, scripts | none a property is about | start-up, device lookup, printing | no |

How the parts meet. Endpoints and the switch exchange packets only; a packet
may be lost. In the switch a packet is handled in one atomic pass, but the work
for a request is spread over many passes: a request packet is cut up by
multicast (copies with one item each) and mirror (the rest), each copy comes
back as a loopback packet, becomes a READ, its response becomes a WRITE, and the
ACK of the last WRITE of a unit retires the request. Between any two of these
passes anything else may happen. In an endpoint, threads share queue pairs,
completion queues and the ring buffers between them, with no lock. Before any of
this the master, which also drives the switch, brings the endpoints together over
TCP: it gives each one a rank, collects their addresses and queue pair numbers,
fills the tables and sets the registers of the switch, tells every endpoint about
the others, and waits until all have finished. Then the next session may begin,
with other processes, on the same switch.

The repository has the switch twice. `switch.py` is the prototype, with its own
simulator, and handles every loss. The P4 program is what runs on the chip; it
spreads the same registers over ingress and egress, and between the two, and
between two turns round a loopback port, packets wait in queues. The two differ
in more than form (section 3), so each has its own model.

What is hard:

* **ordering**: ACKs for several PSNs at once, repeated, late; units that finish
  in another order than their requests came; NAKs that arrive after new PSNs
  have been given out;
* **loss and retry**: any packet may be lost, the switch then goes *down* for an
  endpoint and waits for the requester's timer; a retried request restarts a
  unit whose READs and WRITEs may still be moving;
* **limits**: units per endpoint, slots of the two PSN rings, retries, ring
  buffers that hold one value less than their size;
* **sessions**: endpoints connect while a session runs, are told of the others at
  different times, and leave at different times; tables and registers of the
  switch outlive a session;
* **concurrency**: three shared indices and compare-and-swap; completions taken
  by one thread for another.

What makes each part correct: the protocol completes a work request only with
all its items in place (`ServiceImplemented`) and always completes it
(`EventuallyComplete`); the switch retires a request only when it is written
(`RetiredIsDelivered`) and never gives a unit, a slot or a PSN to two owners; a
requester believes no ACK the switch did not mean; the ring buffer is a FIFO
queue (`FifoImplemented`); a completion reaches the thread that posted the READ,
once (`OwnOnce`, `EveryReadReported`); in the P4 switch a response finds the
slot of its READ (`ReadSlotHolds`) and the WRITE made of it its place
(`WriteIsRight`), and a request that completes is written
(`CompletedIsWritten`), in a second session as well as in the first; in a session
what endpoints were told, what their queue pairs are connected to and what the
tables of the switch say fit together as long as anybody works with it
(`ReadsAnswered`, `RequestsAnswered`), a session is a barrier at both ends
(`ServiceImplemented` of `Session`) and comes to its end (`SessionEnds`).
`PROJECT.json` lists the hazards one by
one with the line of code and the property that would notice.

## 2. Modules

```
Packet  <-  Qp, Switch  <-  Shuffle  -- implements --> ShuffleService
Tables  <-  Pipeline  <-  Fabric
Session -- implements --> SessionService
RingBuffer -- implements --> BoundedFifo  (the rings of) PollCq
Lemmas <- ShuffleProofs <- PacedProofs <- DeliveryProofs  (of Shuffle, Qp and Switch)
Lemmas <- FabricProofs, RingBufferProofs, PollCqProofs, SessionProofs (each of its module)
```

**Packet** has the parameters of the simulator (named as its command line names
them), the layout of an endpoint's memory, and packets as records. A descriptor
is a number, `Item(i)` gives its target, length 1 and offset as
`simulator.py:129` does; the memory's cells hold numbers that tell apart every
element of every endpoint, so that a wrong item or a wrong address shows.

**Qp** is class `QP`: `TxOnce` is `tx_once` with its loop over the send queue
(including what the loop does with several work requests), `RequesterRx` and
`ResponderRx` are the two halves of `rx`, `Retry` is `retry`. The main program
posts work requests on the request queue pair of an endpoint only, so requester
state exists once per endpoint and responder state once per queue pair.

**Switch** has a variable per register array and an operator per branch of
`process` and `process_loopback`, guarded by the tests in the order in which the
code makes them. `process` calls `process_loopback` for a request, so
`RequestExpected` and `RequestRetried` contain it, with the value that
`se_state` has at that point.

**Shuffle** is `simulate()`: a tick visits every queue and timer once; here each
visit is an action and they interleave freely, which includes every schedule of
ticks. `tx_wait` and `retry_wait` become two constants:

* `Pipelined = FALSE`: a request packet leaves only when the one before it has
  been dealt with. This is the simulator's default, where request packets leave
  every 100 ticks and the others every 10.
* `RetryWhen`: `"quiet"`, the timer runs out only when all packets of a message
  have left and nothing moves (messages up to `retry_wait / tx_wait` = 10
  packets); `"idle"`, it may also run out between two packets of a message;
  `"any"`, no assumption. The runs use the first two, the theorems hold for all.

**ShuffleService** is what a user may rely on: items appear in memory in any
order, stay there, and a work request is reported complete, in order of posting,
only when all its items are there.

**Tables** is what the driver installs: each match-action table is an operator
from its key to its action data. MAC addresses, QP numbers, ports and mirror
sessions only name an endpoint or one of its queue pairs, and are records and
pairs that do so. Numbers keep what the tables do with them: units, items and
slots are computed from the low bits of a PSN (`UnitIdFromDst`, `ReadRingId`), with
shifts and sizes that are powers of two (`Pow2(n)` is `1 << n`),
`RequestCase` matches the difference of two registers by its bits and in the
order of the priorities, registers wrap around at `RegBits`.

**Pipeline** is one pass. There is one action per `rx_case` of ingress and one
operator per kind of packet in egress, each with all registers that the pass
touches; a register control becomes an assignment, guarded by the entries of its
table of (`acc`, `set`, `state`). Ingress is atomic, egress is atomic, and in
between the packet waits in `tm`, a queue per port, with the bridged metadata.
`full` is a history variable: a replica has met a full read ring. `InitRegisters`
is `init_registers` between two sessions; it leaves rings, units, offsets and
buffers as they are.

**Fabric** closes the loop: a loopback port returns what egress gives it, and the
NICs, which are hardware, are modelled from how `shuffle_endpoint.hpp` sets them
up. `retry_cnt` is 0, so a requester sends each request once and no timer ever
repeats it; a responder executes packets in the order of PSNs and answers a gap
with one NAK; an ACK completes all requests up to its PSN. The path from the
egress of a port to the NIC is part of the egress action, which may lose the
packet; packets from a NIC may be lost on the wire. The requests are those of
`shuffle_endpoint.cpp`, item `i` to place `n_item - 1 - i`, with items spread
over all endpoints. `NewSession` comes when nothing is under way, whether the
requests have completed or not: an endpoint whose request has failed is told so
and leaves (run `session_status`). New queue pairs start from their first PSN, the
registers are set by `InitRegisters`, and memory is new, so that anything written
for an old session would show.

**RingBuffer** has one action per access to a shared atomic, numbered as the
comments of the source number them; `compare_exchange_weak` may fail for no
reason. Accesses are sequentially consistent: all stores to the indices are
locked instructions on x86. `MaxOvertake` bounds how many others may move an
index while a thread sits between its load and its compare-and-swap. A push may
be refused on a ring that has become empty since its load of `tail`: the test
compares the stale value with a newer `head`. The queue it implements leaves a
refusal to the caller; what the caller makes of it is in `PollCq`. A queue is
implemented only for `MaxOvertake < Cap`: with `MaxOvertake = Cap` a thread can
be lapped, its compare-and-swap succeeds on a full ring, and TLC shows values
lost. With the default `q_size` of 64 that takes 64 pushes to one ring during
one call, so the assumption is named and kept.

**PollCq** is `post_read` and `poll_cq`, with the local variables of the loop.
`ibv_poll_cq` takes a batch atomically. `push` takes the steps it takes in
`RingBuffer`, because its result depends on what happens between them: `LoadTail`,
the test against the head (`FindRoom`, `Refuse`), `CasTail`, and `CasWrite`, which
waits for the pushes before it. `pop` is one step, since only its own thread pops a
ring. `tail[u]` counts from the start, `at[t]` is the tail that thread t has loaded;
the head is the number of completions given to the thread, and `LooksFull` compares
head and tail modulo `q_size`, as the code does. Two things are assumed: a
compare-and-swap fails only if the index has moved, as on x86, and a push is not
overtaken by a whole lap of its ring (it cannot be in the instance of the run; see
`RingBuffer` for what happens otherwise). A failed `logassert` only writes
to the log, and so does nothing here. `Window` bounds the READs that callers
keep outstanding on a queue pair. `lossy` is a history variable: a batch had more
than one completion, or a push was refused. These are the two ways in which
`poll_cq` loses completions, and `LostInBatchOrRefused` says that there is no third
one. A push is refused by a full ring, and also by one that is not: if others push
and pop between its load of `tail` and its test, the head may have reached the slot
after the stale tail, and the ring may be empty by then. `RefusedFullOrOvertaken`
says that these are the only reasons.

**Session** has a step per message of the master and of each endpoint process:
`Accept` and `Gather` are the two halves of one turn of `accept()`, between which
it blocks on one connection; `ClearTables`, `InitTables` and `InitRegisters` are
the three calls into the driver; `Scatter`, `Join` and `Close` are one turn of
their loops each; `Console` is the operator's `c` or `q`. An endpoint connects,
answers with its queue pairs, is told of the others, moves the queue pairs to the
other endpoints (`MoveNorQps`) and then those to the switch (`MoveVirQps`), posts
one READ or shuffle request after which it may `Finish`. A process stands for its
memory, a host for its MAC, IP address and port; a queue pair number is the record
of what it names, so that a wrong row, column, host or session shows. The tables
hold the entries that name endpoints, with the keys and data of the driver;
those that compute with PSNs are in `Tables`. `ReadAnswered` and `RequestAnswered`
follow a READ and a shuffle request through queue pairs and tables, and say
whether an answer comes back. They look at one moment, where `Fabric` and
`Shuffle` model the packets; the composition is that of these two: a session
gives `Fabric` the connections and tables it takes for granted.

**SessionService** is what a session promises, without ranks, messages or tables:
processes join until there are `NEp` of them, nobody begins before that, and nobody
joins the next session before all of this one have finished.

## 3. Runs

| run | module | question |
| --- | --- | --- |
| `lossless` | `Shuffle` | Without loss, is the service implemented, are request window and units sound, and does each slot of the rings belong to one READ or WRITE while it is needed? |
| `two_endpoints` | `Shuffle` | Two endpoints that READ from each other and from themselves: is a request retired only when written, whatever order its units and items finish in? |
| `paced_loss` | `Shuffle` | Any two packets lost, timers between packets: does recovery keep PSNs apart, retire and acknowledge soundly, implement the service? |
| `liveness` | `Shuffle` | With two losses and the code's limit of five retries: does every work request complete? |
| `several_wrs` | `Shuffle` | *Violated.* Several work requests in the send queue. |
| `ring` | `RingBuffer` | Is the ring a FIFO queue, are slots owned once, does a push return? |
| `pipeline` | `Fabric` | Two sessions, one loss in each, replicas racing round the loopback ports, a read ring that overflows: does each item get to its place, is a completed request written, does the switch give up only for a reason, do requests complete when nothing is lost? |
| `pipeline_ack` | `Fabric` | *Violated.* Two requests: does an ACK complete the request it is for? |
| `poll` | `PollCq` | Is a thread ever told of a READ that is not its own, or twice? Does a completion get lost in a way other than the two known ones, is a push refused without reason, and does every READ get reported until then? |
| `poll_batch` | `PollCq` | *Violated.* Does every completion arrive that is polled in a batch? |
| `session` | `Session` | In two sessions with other hosts and ranks: do READs and requests of whoever is ready get answered, is a session a barrier at both ends, does it come to its end? |
| `session_status` | `Session` | *Violated.* Does all posted work succeed? |

**Bounds.** Small instances keep every case of the code. Two units suffice for
one unit to finish before another and for a unit to be used again (three request
packets). Three items per packet with `mcast_grp_size` 2 give a packet that is
multicast, mirrored and multicast again; one item over a ring of two slots gives
packets that go round. Two losses are the smallest number that loses both a
packet and the repair of that loss. Two endpoints give items of one unit from
different targets, responses in either order, and READ traffic of two requesters
to one target. `MaxRetry` (5 in the code) ends a behaviour with an exception;
smaller values in the larger runs only shorten behaviours that end so. For the
ring, three slots and four pushes wrap around; `MaxOvertake = Cap - 1` is the
largest value for which the queue is right. For the P4
switch, three items make replicas that are cut up twice, with copies and rests
that overtake each other; two endpoints make items of a unit come from different
sources and two requesters share a source; a read ring of one slot is full as
soon as one READ waits; one loss anywhere but among requests makes a gap, a NAK
and an endpoint that is down, in the first session or the second. Field widths are reduced (`PsnBits` 6, `RegBits` 8
in place of 24 and 32), far above the PSNs that occur. For polling, two threads and two
queues give every case of "polls mine, polls yours", batches of two, rings that
are full with one, and, since a ring of two slots comes round after two pushes, a
push that is refused by an empty ring because of a stale tail. Four processes on three hosts make two sessions of two
endpoints: the fourth process runs on the host of the first, a host may take part
in both sessions, with the same rank or another one, or in one only, and
connections of the next session wait while this one runs. The theorems have no
such bounds.

**Fairness.** `liveness` assumes weak fairness of every queue's and timer's
action: `simulate()` visits each of them in every tick. A timer's action is
weakly fair only while it *may* fire, which `RetryWhen` says. `ring` assumes that
a thread inside `push` goes on, nothing about poppers and nothing about spurious
failures. `pipeline` assumes that a NIC sends
its requests and that each queue of the switch is served; nothing says that a
packet is ever lost. `poll` assumes that connections complete READs, that a thread
inside `poll_cq` goes on, and strong fairness of starting to poll each queue: the
callers poll in loops, and a thread cannot start a poll while it is in another. `session` assumes weak fairness
of the master's and of each endpoint's next step, of completions (a NIC reports an
error if nobody answers) and of finishing, since the example ends when its request
has completed; nobody owes a process, a request or a word at the console.

**What the violated runs show.**

* `several_wrs`: `tx_once` loops over all work requests without stopping after a
  packet and without moving `req_psn` past the request it has just used. With two
  or more work requests it sends data of one under the PSN of another. The
  simulator's own final check fails with `sreq_msg_size = 32`.
* `pipeline_ack`: ingress sets the flag `WRITE_PSN_TO_UNIT_SET`, egress never reads
  it, and `shl_unit_id` is overwritten with a register nothing has set. All ACKs
  carry the PSN of the request in unit 0. With a READ response of the first
  request lost, the ACK of the second one completes the first.
* `poll_batch`: the loop of `poll_cq` overwrites its own bound with the result of
  `push`; of a batch only the first completion is delivered.
* `session_status`: there is no barrier between the last `move_qp_to_rts` of one
  endpoint and the first request of another. An endpoint that is ready posts, its
  source is not, the READ finds no connected queue pair, and the request completes
  with an error, which `poll_shuffle_request_cq` logs and hands over as if it had
  succeeded. An endpoint that finishes early leaves others in the same state.
  `ReadsAnswered` and `RequestsAnswered` are what remains true: work succeeds once
  both sides have moved their queue pairs and are there.

**Known limits of the protocol**, met while bounds were chosen, and outside what
the simulator's defaults reach: with `psn_ring_size` smaller than
`su_p_se * req_mtu` one lost READ fills the ring for good and `EventuallyComplete`
fails; with request packets pipelined one loss violates `ReadPsnNotReused`, and
two losses, or timers that fire while packets move, violate
`RetiredIsDelivered`. For paced requests of one work request `WriteSlotsSuffice` is
proved under any loss (`PacedWriteSlots`); for pipelined ones it is claimed without
loss only.

**Known limits of the P4 switch**, met in the same way, each with other constants
in `pipeline.cfg`:

* `Psn0 = 1`, the default of `config.hpp`: registers start at the endpoints' PSN
  but the virtual queue pairs of the driver are announced with PSN 0; the first
  READ is answered with a NAK (`DownOnlyAfterLoss`). The connect script sets
  `PSN=0`, as the runs do.
* `NItem` above `ITEM_PER_UNIT`: MIDDLE and LAST packets have no RETH, the unit's
  address becomes 0 and its items are written there (`WriteIsRight`).
* `LoseRequests = TRUE` with `NPost = 2`: the request after a lost one is found out
  of order, and goes on as a replica into a unit without an address
  (`WriteIsRight`; one endpoint and one item are enough). That requests are not lost
  is therefore an assumption of the runs and theorems, and nothing in the code
  ensures it: with `retry_cnt` 0 a lost request is not repeated, but the next one is
  sent all the same. With `NPost = 1` nothing follows a lost request, and all
  properties of the run hold.
* More requests than units: `run_out_of_unit` is never detected, since it is
  computed with the same overwritten `shl_unit_id` (`CompletedIsWritten`).

The prototype has none of the four.

## 4. Theorems

**The simulator.** These proofs start from `ParamAssumption` and `ShuffleAssumption`: the parameters
are positive integers (`MaxLoss` may be 0) and the timing constants have one of
their values. Nothing is assumed about losses or time; `Spec` has no fairness.

* `ShuffleProofs!TypeCorrect`: `Spec => []TypeOK`. More than a formality: `TypeOK`
  says that items, units and slots computed from PSNs stay in the ranges of the
  arrays they index, that every packet in a queue is one its receiver can handle,
  that `retry_cnt` never passes the limit. Its first two
  parts prove it for queue pairs and switch, with one lemma per operator of the code;
  `Lemmas` has what they need of `%`, `\div`, sequences and nested functions.
* `ShuffleProofs!WindowHolds`, `AcksSound`, `UnitsReassigned`: the properties
  `WindowBounded`, `AckedIsRetired` and `UnitReassignedAfterRetire` of the runs
  `lossless` and `paced_loss`, under any loss and any timing.

None of the three is inductive. The invariant `WindowInv` adds:

* `UnitsHold`: a unit holds 0 or a PSN of its own residue modulo `su_p_se` that
  has been expected. Needed because the ACK for a retired request is built from
  `su_req_psn` of the unit whose turn it is, the unit of `sreq_unack_psn`: what it
  holds has the residue of `sreq_unack_psn` and, by `WindowBounded`, is less than
  `su_p_se` above it, which leaves only values up to `sreq_unack_psn` itself.
* `AcksSent` and `AcksArrived`: every ACK on its way to a request queue pair names
  a PSN below `sreq_unack_psn`. Register and packets have to be related, since
  the ACK is believed long after it was built.

The step lemmas go through the actions of `Shuffle` one by one; most leave
`requestVars` alone, and the argument is in `RequestExpected` (a new PSN enters
the window), `WriteAck` (the window moves) and `RxAck` (the requester believes).
`UnitsReassigned` follows from `UnitsHold`: a request that is expected and finds
room in the window goes into a unit whose old PSN has the same residue and is
therefore behind the window.

**Paced requests.** One hypothesis more, `~Pipelined`: a request packet leaves
only while nothing is under way for its endpoint. It is how the simulator is run
(`tx_wait` of a request queue pair is 100 ticks, of every other queue pair 10), and
it is needed: pipelined, one loss makes TLC violate `ReadPsnNotReused`. Losses and
timers stay arbitrary: a retry may fire at any time, but what it puts into the send
queue leaves only when the endpoint is idle.

* `PacedProofs!PacedWritePsns`, `PacedReadPsns`, `PacedReadSlots`: `Spec` implies
  `[]WritePsnNotReused`, `[]ReadPsnNotReused` and `[]ReadSlotsSuffice`. The first two
  say that no two WRITEs (READs) under way to a queue pair share a PSN, that none has a
  PSN the queue pair has taken already, and that what it has taken was given out.

All three are about registers that a NAK sets back while older packets are still on
their way, so the invariant `PacedInv` is about every packet in flight:

* `Kinds`: what each queue may hold, by opcode and destination.
* `InOrder(Behind)`: along the way from the switch to a queue pair and back (the
  switch's output, the queue pair's two queues, the switch's input) PSNs increase
  against the direction of travel, so that nothing overtakes. Of two packets one is
  ahead of the other, so that no two have the same PSN (`OrdersDiffer`).
* `OneRequest`: a request that waits at the switch is all there is for its endpoint.
  When a retry brings the endpoint up again (`se_state`), no packet from before is left.
* `Channel(q)`: the queue pair expects at most the next PSN the switch will use
  (`epsn <= NextPsn`); what is on its way there is not below `epsn`, every reply is
  below it, and a NAK names exactly `epsn`, with no packet on its way that could
  still be taken. Either all that is on its way there is below `NextPsn`, or the
  endpoint is down and the queue pair will refuse all of it: this is the state after a
  NAK has set `NextPsn` back.
* `ReadWindow(e, t)`: everything under way between requester and target is at or
  above the tail of their ring, and the ring bounds the PSNs given out from there.

The argument is in three places: a NAK arrives (`NextPsn` becomes `epsn`, which the
NAK carries), a queue pair takes a packet or refuses it (a gap is answered by a NAK once nothing
expected is left on the way), a request arrives (`OneRequest` makes the channels
of its endpoint empty). Lemmas about relations on queues (`InOrderNext` and those
before it) carry `InOrder` through each step for any relation.

**Delivery.** A second hypothesis, `OneWr`: one work request names all items
(`EleNum <= SReqMsgSize`); it may have any number of packets. With several work
requests the code does not keep these properties: run `several_wrs`.

* `DeliveryProofs!PacedRetires`, `PacedWriteSlots`, `PacedCompletes`: `Spec` implies
  `[]RetiredIsDelivered`, `[]WriteSlotsSuffice` and `[]CompletedWrIsCorrect`.
* `DeliveryProofs!PacedImplements`: `Spec => ServiceImplemented`. A WRITE that is
  taken is `Deliver`, or nothing if its item was there before; the ACK that empties
  the send queue is `Complete`; all else stutters.

The switch retires a request when a counter of *sent* WRITEs has reached 0 and an
ACK names the unit; it never looks at which items have come. Why this is enough is a
matter of what the packets under way carry, in `DeliveryInv`:

* `Turn(e, n, U)`: whatever moves for endpoint e is for one request n, and U is the
  set of its items for which no WRITE has been sent; `su_rem` counts U. Each
  loopback, READ and response carries items of U (`Fits`: with the item number, ring
  slot and offset that lead to these items), and each WRITE one of n's items, to its place.
* `InOrder(Apart)`: no two of these packets carry the same item, so that an item is
  never counted twice: replication by multicast and mirror splits what it is given.
* `Sound`: the unit cannot reach 0 after a loss. While the endpoint is down,
  or a NAK is under way for it, some item of U travels with no packet any more (it is
  not `Tracked`), or the endpoint will take none of the WRITEs that are left.
* `Gapless`: as long as it is up and no WRITE of those counted is lost, each item of n
  outside U is in memory or on its way. The WRITE that asks for an ACK is sent with
  U empty and is the last, so when it is taken all the others have been; and then
  the ACK finds the unit (`Names`).
* `RightRequests`, `Sources`, `Bases`, `Queued`: request packets name consecutive
  items, no WRITE reaches the memory that items and descriptors are read from, and the
  work request is in the send queue or acknowledged to its end.

A retry starts the request anew: `OneRequest` says that nothing of its first turn is
left, so `Turn` begins again with all of the request's items in U, and WRITEs of items
that were there before write the same values.

**Sessions.** These proofs start from `SessionAssumption`: there is at least one
endpoint in a session and one host, and any number of processes. `Spec` has no
fairness.

* `SessionProofs!ReadsAnsweredAlways`: `Spec => []ReadsAnswered`. The invariant
  `SessionInv` relates the four places where a session is remembered. `Domains`
  and `MembersKnown`: of each rank given out, the master's address, queue pairs
  and host are those of the process behind that connection. `BacklogWaits`:
  waiting connections are of different processes that nobody has talked to yet.
  `ProcessInv`: in each state a process knows what the master has for its rank
  (`IsGathered`, with the messages on their way; `IsActive`), or it is over. Its
  `net_ep_infos` and `dst_qp_info` are those of the *current* session since the
  master cannot leave `join` before it has finished, which `IsActive` says and the
  step of `Join` needs. `NorConnected` says what queue pairs are connected to;
  the transposition in `scatter()` is undone by that of the two ends.
* `SessionProofs!BarrierImplemented`: `Spec => ServiceImplemented`, by a step
  simulation from the same invariant. `Members` grows in `Gather`, where
  `FiniteSetTheorems` count that ranks given out are as many as processes.
* `SessionProofs!RequestsAnsweredAlways`: `Spec => []RequestsAnswered`.
  `TablesInv` adds to `SessionInv`: once `InitTables` is done the entries are the
  `NewEntries` of the session (`TablesKnown`), and none are left when it starts to
  add them; members run on different hosts (`HostsDiffer`, from
  `OneAtATime`: a host runs one process at a time), so that a MAC address names one
  rank; `req_epsn` counts the requests that have been dealt with
  (`RegistersKnown`, `WorkOf`).

**The ring buffer.** From `RingAssumption` and one hypothesis, `NoLap`: while a
thread sits between the load of an index and its compare-and-swap, that index moves
by less than a lap. It is the least that suffices: with `MaxOvertake = Cap` TLC
violates both properties.

* `RingBufferProofs!SlotsOwned`: `Spec => []SlotsOwnedOnce`. The invariant `RingInv`
  measures everything as a distance from `head`, round the ring. `SeenAt` says that
  `overtaken` is how far an index has gone since a thread has seen it; by `NoLap` an
  index found where it was has not moved, so a successful swap is that of a thread
  whose test for room, or whose value, is still good (`RoomKnown`, `ValueKnown`).
  `SlotsTaken` gives each slot from `write` to `tail` to one push.
* `RingBufferProofs!FifoHolds`: `Spec => FifoImplemented`. The swap of `write` is
  `Put`, the swap of `head` is `Take`, every other step stutters. `ValuesNew` is
  needed since the queue is told from the slots: values that pushes are about to
  write differ from those in the ring.

**Polling.** From `PollAssumption`; any number of threads, endpoints and any sizes.

* `PollCqProofs!OwnAndOnce`: `Spec => []OwnOnce`, and `NoThirdWayToLose`:
  `Spec => []LostInBatchOrRefused`. `PollInv` lists the places a READ can be:
  a send queue, a completion queue, the hand of a polling thread, a ring, the list
  of what a thread was told. `Apart` says that no identifier is at two positions,
  `EachHeld` that all are issued ones and, until `lossy`, that all issued ones are
  there. `HandKept` and `HandEmpty` are about the locals of `poll_cq`: between
  `ibv_poll_cq` and the step of `push` that publishes it, a completion is in a local
  variable only, whatever steps the push has taken.
* `PollCqProofs!RefusedWithReason`: `Spec => RefusedFullOrOvertaken`. The invariant
  `Room` says that a tail is ahead of its head by less than `q_size`, that a tail a
  thread has loaded is not ahead of the one in the ring, and that a thread which has
  found room still has it when it swaps the tail. A test that sees
  a full ring with the tail still where it was has therefore seen the truth.

**The P4 switch.** From `TablesAssumption`, `PipelineAssumption` and
`FabricAssumption`, which say that the constants are numbers and that the indices of
units have room in a register, and one hypothesis, `OnePacket`. Most of its parts are
how the code is run: `Psn0 = 0`, as the connect script sets it and as the virtual queue
pairs have it; a
request is one packet, of fewer than 2^8 items (`unit_remain` has eight bits); an
endpoint has four units or more (the source has sixteen), its requests fit into
them, and all their items into the PSN registers. One is an assumption about the
network which the code needs and does not ensure: no request is lost. Where section 3
lists a limit, TLC
refutes a property without that part. READs, responses, WRITEs and ACKs may be lost in
any number, requests may not; the size of the read ring, endpoints and sessions are arbitrary.

* `FabricProofs!FabricWrites`, `FabricReadSlots`, `FabricDown`: `Spec` implies
  `[]WriteIsRight`, `[]ReadSlotHolds` and `[]DownOnlyAfterLoss`.
* `FabricProofs!FabricCompleted`: `Spec => []CompletedIsWritten` if `NPost <= 1`: with
  two requests and one loss it is violated (run `pipeline_ack`).

None of them can be shown from the registers alone: what an address will be depends
on who else may still write `item_write_offset` or `unit_dst_addr`, and the countdown
of a unit is right only if each element is counted once. `IInv` therefore looks at the
whole fabric through tokens. There is a queue of tokens for each queue of the model
(`Shapes`), and a token says of a packet which channel it is in (requests, READs,
responses, WRITEs, ... of an endpoint), which number it has there, and for which
elements it is. A replica of several items is one token; splitting it splits its set.
Registers are compared with numbers that only grow: requests seen by ingress (`K`),
READs made (`R`), the READ after the last one answered (`U`), WRITEs made (`W`) and
left (`L`), elements in memory (`D`).

* `ReqWin`, `ReadWin`, `WriteWin`: in a channel, numbers rise from one counter to
  the next, and none is missing where nothing can be lost. A READ arrives with the PSN
  its target expects unless something was lost before (`WinGap`), so a NAK needs a
  loss or a full ring. With `Up` and `Clean` (the registers of an endpoint that is up
  are the numbers counted, and it is up while nothing has gone wrong) this is `FabricDown`.
* `Apart`: no element is in two tokens. `Good`: an element under way is not in memory;
  once egress has seen its request the unit's buffer is the request's (`Buffers`); the
  slot of a READ under way names it, and after the READ its offset is in
  `item_write_offset`. A READ takes a slot only if the ring has room (`ReadRoom`);
  a replica that finds the ring full leaves the slot alone and is gone.
* `Counts`: the PSNs given out and the elements for which no READ, or no WRITE, was made
  are together at most all elements, so that no number wraps around.
* `One`: with one request, `unit_remain` is the number of elements whose WRITE has not
  left. The last WRITE to leave asks for the ACK; the NIC takes it only in order, and
  so with all the others taken (`Gap`, `Memory`: as many elements are in memory as
  WRITEs were taken), and what an ACK acknowledges is written.

`FreshTokens` and `FreshRegisters` are the beginning of the first session and of
every later one: with nothing under way the numbers start again, whatever the last
session left in rings, units, offsets and buffers.

**Only model-checked.** Liveness and everything with ENABLED (`EventuallyComplete`,
`PushReturns`, `EveryReadReported`, `FirstIsCompleted`, `SessionEnds`), which the proof system does not handle;
the properties of `Shuffle` in packets when requests are pipelined and nothing is
lost (run `lossless`), except those `ShuffleProofs` has. Of `Fabric` all safety
properties of the run are proved for requests of one packet; what larger ones, lost ones and
other first PSNs do, section 3 says. What recursive
functions (`Scans`, `EndPsn`) compute for every input would need induction over
data, which the provers cannot instantiate; the proofs use only their types.

## 5. What is left out

RDMA lengths and checksums (ICRC included), the sizes of items beyond one cell, READ work
requests (the simulator has none), the wording of logs. In the endpoint library:
`post_many_read`, whose READs are unsignalled and never complete, and which nobody
calls (the `next` of its last work request points past its array, line 402). In a
session: parts of messages (the longest is some 440 bytes, sent in one call),
endpoints that die before they finish, which nothing in the code handles, the
signal handler of the master, which ends the process, connections before the
master listens for the first time, which fail, and two processes of one host in a
session, which the tables, keyed by MAC address, cannot tell apart. In the P4
switch: bypass, which forwards other traffic by destination address, and the
cases for debugging and for a loopback of replicas, which no shuffle packet
takes; the timers of the NICs, which with `retry_cnt` 0 only report an error. Weak
memory: on a machine that reorders loads the relaxed loads (1) and (6) of the
ring buffer would allow more.

Not modelled, because they keep no state a property could be about or nothing uses
them: start-up of the switch daemon, the device and verbs utilities, logging,
command line and configuration, the spinlock, the other P4 programs, scripts.

## 6. Plan

Done: the simulator, the ring buffer, polling, the P4 pipeline with the driver's
tables over several sessions, and the sessions of master, endpoints and switch, all
with their theorems. Left, in this order:

1. `Pipeline` as a component in the place of `Switch`: which of the promises of
   `ShuffleService` the P4 switch keeps for one request per endpoint. `IInv` is
   the invariant that such a refinement needs.
2. Proofs: the slots and PSNs of `Shuffle` for pipelined requests without loss.
