# FloWatcher-DPDK in TLA+

FloWatcher-DPDK (`src/README.md`) monitors traffic per flow at line rate. This
directory holds a TLA+ model of it, the TLC configurations that check the model
on small instances, and TLAPS proofs for instances of any size. Paths below are
relative to the repository; `rtc` is `run_to_completion/main.c`.

## 1. The system

The program comes in three versions, each a single C file with a table chosen at
compile time (`DOUBLE_HASH` by default, `LINKED_LIST`, `HASH_LIST`).

| part | source | state | operations |
|---|---|---|---|
| flow tables | rtc `double_hash`, `linked_list`, `hash_list`; `pthread/main.c` `lcore_main_count_*`; `lthread/main.c` `lthread_tx_per_ring` | `pkt_ctr` (two slots, three counters), `flows` (chains) | claim a slot or entry, hit it, grow a chain, count a rest |
| inter-packet gap | the `IPG` parts of the same functions | `re`/`gCtr`, `global`, `ipg`, `avg` of a slot | sum the counters, measure a gap, update the average |
| run-to-completion threads | rtc | `re[q]`, `mbuf_pool[q]`, a local burst | receive, count, free |
| pthread pipeline | `pthread/main.c` | `gCtr`, one ring per pair of threads, pools, the shared table | receive and enqueue; dequeue, count, free |
| cooperative pipeline | `lthread/main.c` | `re`, rings, `len`, condition variables, `ring_loss` | receive, enqueue, signal; dequeue, wait |
| reports | `timer_cb` and `handler` of each version | `old` and local sums, on the master lcore | sum counters every second; SIGINT: sum, print, exit |
| configuration | `parse_*`, `init_*`, `main`, `pthread_run`, `port_init` | options, `rx_thread`, `tx_thread`, rings, pools, queues | parse, build the tables, set up ports, launch |
| cooperative start-up | `lthread_spawner`, `lthread_rx`, `lthread_tx` | `rx_counter`, conditions, ready queues | create rx lthreads, wait for them, create tx lthreads and readers |
| quantiles | `get_qt`, `insertSort`, `init` | markers of the P-square algorithm | add an observation |
| microbenchmarks | `hardware/main.c`, `toeplitz/main.c` | local counters | receive and free; time a hash function |

They interact through shared memory only, without a lock: the NIC writes to
buffers (mbufs) of a pool and counts `ipackets` and `imissed`; the receiving
thread takes bursts and re-arms descriptors from the pool; the rings are single
producer, single consumer; all counting threads write one table; the master
reads counters and table at any time; lthreads share lcores by yielding and
waiting on condition variables.

What is hard in it, and what each part has to guarantee:

* **Tables.** A flow must get one slot in any order of arrival, keep it, and have
  every packet of it counted there; the counters have a width.
* **Buffers.** Each is returned to its pool exactly once, on the path of a full
  ring as on the normal one; else the NIC runs dry or fills a buffer in use.
* **Sharing.** The table is safe only because RSS, the rings and the threads keep
  the packets of a bucket in one thread.
* **Reports.** Counters are read one by one while they grow, and a signal can
  interrupt the timer callback; the lines must still agree.
* **Progress.** A tx lthread asleep with packets in its ring holds buffers that
  the NIC needs; whether it is woken depends on where the lthreads run.
* **Gaps.** Positions are sums of counters that other threads change; the
  quantiles of the gaps pass through unsigned and `int` variables.
* **Configuration.** What runs should be what the command line asks for, or the
  program should refuse it; the tables are indexed now by thread, now by queue,
  now by port.
* **Start.** The spawner waits for lthreads that may need its own lcore.

`PROJECT.json` lists each of these at its line (`hazards`) with the properties
that would catch it going wrong. A few hazards have none, because the code does go
wrong there: then a property states the extent of it, and the note names it.

## 2. The modules

| module | models | state and actions |
|---|---|---|
| `FlowCount` | the promise of a flow table | packets offered, tracked flows, exact counts, a rest; `Count`, `Overflow` |
| `DoubleHash` | rtc `double_hash`, 388-453 | `hi_f1`, `hi_f2`, `ctr`; one action per outcome of the tests on a packet |
| `Chain` | what `linked_list` and `hash_list` do to a chain | operators: where the walk stops, what it leaves, how a chain grows |
| `LinkedList` | `flow_struct_init`, the `LINKED_LIST` loops and handlers of rtc and pthread | `flows`; `Found`, `Allocate`, `AllocationFails` |
| `HashList` | the `HASH_LIST` loops and handlers of rtc and pthread | `slots`, `flows`; `InSlot`, `InList`, `Allocate`, `AllocationFails` |
| `Tables` | the three tables in lockstep | every packet goes to all three, so that they are compared with the same traffic, with each other and with `FlowCount` |
| `InterPacketGap` | the `IPG` code of all versions, in slots and in list entries | `re`, `global`, a pc per thread, `ipg`; one step per entry that is summed, one per packet |
| `RunToCompletion` | the receive loops and the handler of rtc | buffers by identity, descriptors, bursts; `Arm`, `RxBurst`, `Packet`, `Free`, the handler |
| `CountingQueue` | the promise of the pipeline | a FIFO per queue and a count per flow |
| `PthreadPipeline` | `lcore_main_rx`, `lcore_main_count_double_hash`, `timer_cb`, `handler` | `nic`, `rxbufs`, `ring`, `txbufs`, `gCtr`, the table, the master's pc; one action per step that other threads can see |
| `LthreadPipeline` | `lthread_rx`, `lthread_tx_per_ring` on the lthread scheduler | packets counted by place, `len`, `ready` queues of the lcores, `blocked`, the counter of a flow, read and written in two steps |
| `ThreadTables` | `init_rx_queues`, `init_tx_threads`, `init_rx_rings` of `pthread/main.c` and `lthread/main.c` | functions: the tables that two lists of `--rx` and `--tx` make |
| `Configuration` | the parsers, `init_*` and `main` of all four programs, `pthread_run` | options, tables, ports, pools, queues, what each lcore runs; one action per stage of `main`, per option, port, rx thread and lcore |
| `LthreadStartup` | `lthread_spawner`, `lthread_rx`, `lthread_tx`, and what the reader does between bursts | `ready` and `cur` of each lcore, where each lthread is, `rx_counter`, conditions, bursts |
| `Quantile` | `insertSort`, `init`, `get_qt` | the markers `q`, `n` and `n1`, the last rounded as a float at every step; `Fill`, `Update` |
| the `MC...` modules | | setups: placements, assignments of flows and buffers, command lines |
| `Lemmas` | | sums over sets, induction, modular counters, sequences as queues, the functions of `ThreadTables` |
| the `..._proofs` modules | | the theorems about the module they are named after; `Gaps_proofs` is about `InterPacketGap` and `Quantile` (section 4) |

`CONSTANTS` are the sizes of the source (`NB_MBUF`, `nb_rxd`, `BURST_SIZE`,
`RX_RING_SZ`, `ENTRY_PER_FLOW`, the width of a counter) and the bounds of the
model, marked as such. What a build, a command line or RSS decides once is a
`setup`, chosen in `Init` from the constant `Setups` and never changed, so that
one run covers several versions of the same loop. A hash is the pair of its low half (the bucket) and its
high half; 0 is the free mark, as in the code. A variable marked *history* is no
part of the program: it says what it should have counted.

Each module keeps mutations beside its definitions, under that heading:
definitions changed the way a slip in the code would change them, which
`PROJECT.json` pairs with the properties that notice.

External parts are modelled from how the code uses them:

* the NIC writes a packet to an armed descriptor of the queue that RSS chooses,
  or counts it as missed. RSS maps a bucket to one queue: the redirection table
  is indexed by low bits of the hash, and so are the buckets;
* `rte_eth_rx_burst` returns any number of the packets that are there and
  re-arms descriptors from the pool. `PthreadPipeline` takes the stricter driver,
  which replaces each buffer that it returns; `LthreadPipeline` and
  `RunToCompletion`, whose pool may be as small as the queue (4096 for 4096
  descriptors), the more generous one, which arms a free descriptor when it can;
* burst operations on rings move as much as fits or is there;
* an lcore runs the first lthread of its ready queue until that yields or waits;
  a signal to a condition without a waiter does nothing, and a wait on a NULL
  condition returns at once. An lthread that sets its affinity to another lcore
  goes to the end of that one's ready queue; a sleeping lthread becomes ready on
  its lcore when its timer has expired;
* `rte_eth_rx_queue_setup` fails for a queue that the port was not configured
  with, and does not survive a queue without a pool. Every library call whose
  result the code tests may also fail for reasons of its own
  (`Configuration!LibraryFails`).

## 3. What TLC checks

Each run ends within two minutes. Deadlock is not checked: the traffic may
stop and the process may exit.

| run | shows | bounds |
|---|---|---|
| `tables` | `TablesExact`, `TrackedOrFull`, `BucketTotal`, `ReportsExact`; refinement of `FlowCount` by each table | a bucket with four flows, one more than the largest table has entries at start, and one with a flow named 0, the free mark; counters of 3 values, which wrap; 8 packets in all |
| `pthread_buffers` | `Conservation`, `NoLeak`, `BucketOwned`, `ImplementsQueue`, `EventuallyProcessed` | two pairs of threads, a ring that just holds what the pool has outside the descriptors, 7 packets: more than the buffers of a queue, so that they must come back |
| `pthread_report` | `ReportedTotal`, `ReportedFlows`, `RateNotNegative`; the shared table refines `FlowCount` | two entries of `gCtr`, two timer callbacks, a signal at any time; three flows for two slots |
| `lthread` | `Conservation`, `Accounting`, `SlotExact`, `SleepsOnResidue`, `ServedIfWoken` | two tx lthreads, on lcores of their own (one without a condition variable), together on one, or all on one; rings of two packets that overflow, counters that wrap |
| `startup` | `CondCaptured`, `GapHangs`, `ReportComplete`, `Starts`, `KeepsPolling` | ten pairs of lists for one to three lcores: an lcore each, all on one, several rings or queues for a thread, crossed pairs, no ring, a gap, the master elsewhere; rings of one burst |
| `configuration` | `InEffectIffWellFormed`, `WellFormedRuns`, `QueueOwned` | some 9000 command lines: every pair of lists of up to two tuples over two queues, up to three lcores and two thread-ids, lists with a gap, too many queues or pools, every option with a value in and out of its range, and options given twice; 0 to 2 ports, 1 to 9 lcores; the limits of the source scaled down so that each is met |
| `quantile` | `MarkersOrdered`, `ExtremesExact`, `MarkersOnRank` | both values of P, every sequence of nine gaps out of -1, 0, 2, 7 and 9, where an `int` ends at 7 and -1 becomes 15: four updates after the five that fill the markers. Then gaps of 0 up to the 28th, with floats of five bits after the leading one instead of 23, so that `n1` is visibly off: with exact positions in the bound (`Drift` 0) `MarkersOnRank` fails at the 26th gap. It also fails if a marker cannot move down |
| `ipg` | `AverageTelescopes`, `PositionWithinBurst`, `PositionMonotone` | three flows on one queue, with the burst counted before or after the sum, or on three queues, so that a sum can be overtaken in the middle; slots and the three kinds of list entries; 5 packets |
| `rtc` | `NoAlias`, `CountedOnce`, `ReportConsistent` | `hash_list` on two queues, `linked_list` with two flows on one; 2 buffers for 3 packets of each flow: every buffer is used again; the handler at any time |

The bounds suffice because the threads are symmetric and touch each other only
through one ring, one counter or one bucket; the properties are about pairs of
flows, threads or reads, and each instance has one more than a pair, or than what
fits, of what it is about. A command line goes wrong by one tuple or by a pair of
them that do not fit together, which all lists of two tuples contain; the limits
(queues of a thread, pools, values of a field) have lists of their own. For the
safety properties the proofs remove the bounds.

**Fairness.** `PthreadPipeline!FairSpec`: each rx and tx thread runs an infinite
polling loop on an lcore of its own; so each takes a step again when it can.
Nothing is assumed of the NIC, the timer or SIGINT. `LthreadPipeline!FairSpec`:
each lcore runs its scheduler without pause, so that the lthread at the front of a
ready queue goes on; and the traffic goes on as long as a descriptor can take a
packet, which `ServedIfWoken` is conditional on (the residue of less than a
burst that a sleeping tx lthread leaves in its ring is only signalled when more
packets come). `LthreadStartup!Spec`: again each lcore goes on by itself, and
the timer of the spawner's sleep expires; nothing is assumed of the traffic, so
that what starts also starts without a packet.

### Disagreements of the code with what it says of itself

Each is a run that TLC must find violated; `PROJECT.json` has the quotations.

| run | what happens |
|---|---|
| `lthread_wakeup` | a signal between the look at the ring and the wait is lost; with all buffers in the ring, reception stops for good |
| `ipg_shared` | with two queues the threads reset each other's `global`: positions go back |
| `rtc_double_free` | with `FLOW_LEVEL` each buffer is freed twice, and two packets share it |

Others show in how a property had to be stated; such a property delimits what is
wrong, and catches only what goes beyond.

*Tables.* A flow whose high half is 0 leaves its slot free, and the next flow adds
to its counter (`TablesExact` excepts it; `BucketTotal`, the sum over the bucket,
holds all the same). `ReportsExact` only holds while no counter has
wrapped. In the run-to-completion version counters have 32 bits
(`run_to_completion/main.h:83`, 101, 121, 140) and wrap after minutes at line rate;
from then on the reports of the list builds are short of packets and may miss a flow.
Those of the pthread version have 64 bits (`pthread/init.h:15`, 31, 48, 67) and do not
wrap in practice. The pthread `HASH_LIST` handler adds packets to the number of flows
(`pthread/main.c:1230`): it prints too many by exactly the packets of the flows
without a slot. The default table of the pthread version keeps no
rest (`KeepsRest <- FALSE` in `MCPthreadPipeline`), so that a third flow of a
bucket is in no counter, where `src/README.md:15` speaks of chaining.

*Gaps.* A position is right only up to a burst (`PositionWithinBurst`), so that
two packets of a flow in one burst are -1 apart, while the first packet of a flow
keeps no position at all, and the first gap counts from the start of the program.
In the lists of `hash_list` the position is never updated (rtc 793):
`AverageTelescopes` says what the average is instead. A gap of -1 becomes the
greatest unsigned number in `get_qt`, and one beyond `INT_MAX` is cut off by
`insertSort`; `ExtremesExact` holds for other gaps, while `MarkersOrdered`, on
which the divisions of `get_qt` rest, holds for all. The desired positions are of type
`float` (`run_to_completion/main.h:68`, `lthread/main.c:300`) and lose a rounding with each gap, so that
`MarkersOnRank` has to leave room for it: `Drift`, after k gaps k^2/2^24 positions. That is one
position after 4096 gaps and a 64th of all after 2^18, and it is not only a bound:
with P = 0.99 the middle marker is then a quarter of a percent low. From 2^18
gaps on floats are so far apart that .99 and .995 are added as 1, and the marker creeps
up, to percentile 99.98 at 2^24. By then all sums have stopped growing, and the markers stay
at their places while the gaps go on; the bound, by then as large as the number of gaps, says
nothing any more. With P = 0.5 the third marker is the first to be wrong, once its sum has passed 2^22.

*Cooperative version.* With several rings for a queue, the packets of a flow go
to several tx lthreads, which lose updates of each other unless they share an
lcore (`SlotExact`). A thread-id that `--rx` leaves out while the master is lcore
0 hangs the start for good (`GapHangs`); a reader without a condition, or one
whose ring another lcore keeps filling, never gives its lcore back (`Hogs`), as
the yield at line 1291 is commented out; with more tx than rx threads the total
that is printed misses the last ones (`ReportComplete`).

*Configuration.* `WellFormed` is the rule that the code follows in fact: one
port, queues and rx thread-ids numbered from 0, one queue per rx thread, a tx
thread for each, lcores that are enabled; with pthread exactly one tx thread per
rx thread, and an lcore of its own, not the master, for each. `InEffectIffWellFormed`
shows that any other command line that is not refused runs something else than it
asks for: queues that nobody polls, rings that nobody reads, a thread that is not
started because its lcore has another one, `--nb_rxq` without effect, a burst
size that wraps, a mask of 0 that enables all ports, options of the cooperative
version that are ignored after the first unknown one.

## 4. What is proved

TLAPS proves every safety property of the passing runs, from the assumption of
the module (its `ASSUME`) alone, so for any number of threads, lthreads, queues,
buckets, flows, buffers, any width of a counter and any command line. Each
theorem is `Spec => []P` for the property `P` that a run checks, unless a
hypothesis is named. What the assumptions ask of the constants is what the program
gives: sizes that are not 0, a pool larger than the descriptors of its queue,
finitely many buckets and hashes, RSS a function of the bucket, pools that are
disjoint, lists whose lthreads run on enabled lcores, an `int` narrower than the
parameter of `get_qt`, gaps that are no less than `INT_MIN`, floats whose distances are powers
of two (each divides the greater ones); for the configuration
finitely many lcores, the master one of them, no more ports than the port mask has
bits, options whose arguments have the type that their parser gives them
or do not parse (`Bad`), and limits that are any numbers (the greatest `nb_rx_desc` and the range of the burst size are not 0).

| module | theorems |
|---|---|
| `PthreadPipeline_proofs` | `TypeCorrect`, `BuffersConserved`, `NothingLeaks`, `BucketsOwned`, `PipelineImplementsQueue`, `TotalIsReported`, `RateIsNotNegative`, `FlowsAreReported`, `TableImplementsFlowCount` |
| `Tables_proofs` | `TypesCorrect`, `FlowsTracked`, `FlowsExact`, `NothingLost`, `ReportsAreExact`, `SlotsCountFlows`, `ListsCountFlows`, `HashListsCountFlows` |
| `LthreadPipeline_proofs` | `TypesCorrect`, `BuffersConserved`, `PacketsAccounted`, `NoSignalLost`, `SlotStaysExact` |
| `RunToCompletion_proofs` | `TypesCorrect`, `BuffersDoNotAlias`, `PacketsCountedOnce`, `ReportAddsUp` |
| `Gaps_proofs` | `PositionsGoForward`, `GapsTelescope`, `PositionsWithinBurst`; `MarkersStayOrdered`, `ExtremesAreExact`, `MarkersStayOnRank` |
| `LthreadStartup_proofs` | `ConditionsCaptured`, `ReportIsComplete`, `GapsHang` |
| `Configuration_proofs` | `EffectIffRules`, `RulesRun`, `QueuesOwned` |

Seven theorems have a hypothesis. `RingIsLarge` (`NothingLeaks` and
`PipelineImplementsQueue`): the ring holds what the pool has outside the
descriptors, 5000 against 65535 in the source; nothing else makes the ignored
result of `rte_ring_enqueue_burst` harmless. `FreedOnce` (`BuffersDoNotAlias` and
`PacketsCountedOnce`): the build frees a buffer at one place, which
`rtc_double_free` shows to be needed. `TableImplementsFlowCount` is about
flows none of which is named by the free mark, and `GapsTelescope` about threads
that do not share `global` while another is at work, as `ipg_shared` shows.
`MarkersStayOnRank` is about the two percentiles of the source, as is the property; it
holds for any number of gaps, but what it says fades as `Drift` grows (section 3).

No property is inductive as it stands. Each proof has a strengthening, the step
lemmas go through `Next` action by action, and the theorem follows.

* *Pthread pipeline.* `Inv` is `TypeOK /\ Conservation /\ RingFits`: `TypeOK` bounds
  `pool` by `PoolSize`, and that a freed buffer keeps within the bound follows
  only from the buffers being conserved. `NoLeak` adds that a burst fits: what the
  ring and the burst hold is part of what conservation allows outside the
  descriptors. The refinement of `CountingQueue` maps the four places between
  NIC and table to one sequence; moving a prefix from one part of a concatenation to
  the next is a stutter, adding to the last part is `Receive`, taking from the
  first is `Take`. For the reports, `Readings` says that there are values
  of the counters, as read by the last callback and so far by the current one, each
  no greater than the counter is now and no less than in the callback before:
  the sums of both, over what has been read, are what `old` and `sum` hold.
  `WalkInv` bounds the walk of the handler by the slots in use, of which
  `SlotsInv` says that they are filled in order and named by flows that came. That the
  counters of the ideal table do not wrap takes `AllDone`: the packets of all flows
  are those that the threads are done with.
* *Tables.* `Chains` says that in a clean bucket a chain has one entry for each flow
  that came, exact modulo the width, before the free ones; slots and list of `hash_list` are one such chain, so that both versions share the lemmas
  about a packet. `SlotsInv` says that slots fill in order, and that a flow that
  came is in one or both are taken. Nothing weaker implies the refinements: a flow
  behind a free entry would be given a second one.
* *Cooperative pipeline.* `SchedOK` is what being cooperative means: an
  lthread in the middle of its loop is at the front of its ready queue, and one that
  waits is in none. On it rests `Residue` (less than a burst is unsignalled except
  between an enqueue and its signal; between finding its ring empty and waiting,
  a tx lthread on the lcore of the rx lthread finds it still empty) and `SlotInv`
  (what a tx lthread has read of a counter it shares is what the counter is).
* *Run to completion.* `Inv` keeps the buffers and the flows of a queue its own;
  `BuffersDoNotAlias` counts the places of a buffer, which are one; `PacketsCountedOnce`
  adds that the flow in a filled buffer is that of the packet; `Totals` relates
  the table, `re` and what was received by what is in bursts and descriptors.
* *Gaps.* `PosInv` is about a sum while it is taken: no position that a thread has
  given exceeds what its sum will be at least. `AvgInv` is the telescoped sum, by
  kind of entry. `SerialInv` says by how much the sum can be off when counting
  and summing are swapped.
* *Start.* `StartInv` relates where each lthread is to `rx_counter`, to the
  conditions made and captured, and the bursts received to those in rings, counted
  and lost. `GapsHang` needs `Placed`: an lthread is on one lcore, once, where it
  belongs, and the rx lthread of a gap never leaves it. It is on the master, so the
  spawner cannot be, when the counter would let it go on. TLC checked `Placed` on
  `startup` first.
* *Quantiles.* `MarkersInv`: the heights are the gaps until there are five, then the
  markers are in order. `insertSort` sorts even what its `int` cuts off, because an
  entry only gets less, and is the identity from then on. A marker moves only
  where there is a free position, and on the parabola or on the line it stays between its
  neighbours: the quotient of the line is no further from 0 than its dividend.
  Without roundings an inner marker could be so far from its desired position and no
  further. The bound is not inductive for one marker
  alone: one that cannot move is next to a neighbour that is near its own desired
  position, and in the first updates all are nearer. For P = 0.99 the third marker is
  what keeps the others from being pushed back: it is less than a position behind.
  The roundings make `n1` differ from the rank. `Close` bounds the difference: a number
  below 2k is rounded by at most k/2^23 (`Nearest`, by the division lemmas), which sums
  up to k^2/2^24 positions; whole positions are exact up to 2^24, so that
  the comparisons of `get_qt` see the right `n`. The bounds above then hold with that
  slack, the same for all markers, which only grows (`SlackGrows`). Beyond 2^24 gaps
  the slack exceeds every position there is (`BeyondFloats`).
* *Configuration.* `Inv` has a part for each stage of `main`, which holds from that
  stage on. `ParsedTo` says that the options before the current one have taken
  effect unless given again since; `Threads` and `Nic` that the tables, rings, ports,
  pools and queues are the functions of the options that `ThreadTables` states and that the
  stages so far have refused what they refuse. When the threads run,
  `RulesRun` needs only that each refusal breaks a rule. `EffectIffRules` goes
  both ways by way of `Good`, the rules on the lists and the lcores: from them it
  follows that the queues of the tables are all those of the one port, each
  once (a list of as many entries as values hits each value, by counting), and that the
  launch starts every thread; conversely, where each queue of a port is polled
  once, each ring read once and each option in effect, the lists obey the rules.
  The version without options takes queues and lcores in order, which `QueuesTaken` says.

Sums are `SumFunctionOnSet` of the community modules. The library has no theorem
about it and its induction theorems cannot be used, so `Lemmas` derives both, from
the least element of a set of numbers: what a sum is, for a finite set, and how it
changes with a summand. In the same way `ThreadTables!Indices` is a recursive function
whose value `Lemmas` proves for every list, for the start-up and the configuration.

Only model-checked:

* all liveness: `EventuallyProcessed`, `ServedIfWoken`, `Starts`, `KeepsPolling`. The
  prover has no rule for fairness;
* the runs that find a violation.

The type invariants of `RunToCompletion` and `LthreadPipeline` are proved and in no
run; that of `InterPacketGap` documents the state.

## 5. What is not modelled

* The hash functions (vendored, and their microbenchmark `toeplitz`), the traffic
  and plot scripts and the deadline scheduling wrappers: no concurrent or lasting
  state, or not the program's own (see `components`). Of `hardware` the start is
  in `Configuration`; its loop only counts and frees.
* The pthread `HASH_LIST` build with several tx threads: its buckets come from
  `rte_softrss_be` and not from the hash of the NIC, so that the threads may share
  one (`pthread/main.c:746`). `HashList` is about one thread.
* tx threads whose lcore is outside the mask of a cooperative start, and lcore ids
  beyond `RTE_MAX_LCORE`: `lthread_set_affinity` and the arrays of DPDK decide what
  happens.
* The standard deviation, the output to a file, the ncurses display, the table walk of
  the cooperative handler (that of the run-to-completion handler, on the same table).
* Memory outside an object (`gCtr` is allocated with no entry, `pthread/main.c:1336`);
  a pool beyond the end of `pktmbuf_pool` is a choice between going on and a fault.
* The rounding of the heights, which are doubles (with a float in the parabola):
  `Quantile` rounds them down to a fixed unit. Only their order and the outer ones,
  which are whole, are in the properties. P/2, P and (P+1)/2 are doubles in the code and exact in
  the model; the roundings to float that follow are modelled. The positions `int n[5]`
  overflow after 2^31 gaps of a flow, which is not modelled.
* `flow_struct_init` failing half-way (rtc 472-476; line 490 tests the wrong
  pointer): `LinkedList` starts from chains that exist.
* Several rx lthreads that add to the shared `ring_loss`: `LthreadPipeline` has one.
* In `InterPacketGap` a flow whose high half is 0 keeps its slot like any other. In
  the code it claims it again with each packet, which `DoubleHash` models.

Some steps of the model are several of the code, since no property depends on what
another thread sees between them:

* `PthreadPipeline!Process` claims a slot and counts (`pthread/main.c:1134-1181`). Two
  threads in the same bucket could both claim it. `BucketOwned` shows that there
  are no two; `ImplementsFlowCount` alone would not show that race;
* `PthreadPipeline!Dequeue` takes a burst and adds it to `gCtr` (1078, 1082); the master
  sees only `gCtr`, and no other thread takes from the ring;
* `PthreadPipeline!FlowsRead` reads both counters of a bucket (1264-1265), where a packet may be
  counted between the two: the count of flows may be one higher, still not more
  than there are by then;
* `LthreadPipeline!RxSignal` signals, adds to `ring_loss` and frees the rest
  (`lthread/main.c:1091-1107`): what the signal wakes runs later or elsewhere and uses neither.

## 6. Plan

Done, in this order: the tables and `FlowCount`; `PthreadPipeline` with
`CountingQueue` and its proofs; `LthreadPipeline`; `InterPacketGap`;
`RunToCompletion`; `Quantile`; `ThreadTables` and `Configuration`; `LthreadStartup`;
the split increments of `LthreadPipeline` and the list entries of `InterPacketGap`.

The proofs of all safety properties of the passing runs, with the lemmas on sums, lists
and tables that they need, last those of the configuration and of the ranks of the
quantiles.

What is left: the standard deviation, and the pthread `HASH_LIST` build with several tx
threads (section 5).
