--------------------------- MODULE Configuration ----------------------------
(***************************************************************************)
(* From the command line to the running threads.                           *)
(*                                                                         *)
(* pthread and lthread: parse_args and the parsers it calls,               *)
(* check_lcore_params, the tables of threads, the ports, their queues and  *)
(* pools, and the launch (pthread_run).  run_to_completion and hardware    *)
(* take no options of their own: port_init and the launch loop.  Where     *)
(* lthread has launched its schedulers, LthreadStartup takes over.         *)
(*                                                                         *)
(* An option is a record of its name and its argument; an argument that    *)
(* does not parse is Bad.  A port mask is the set of its bits.             *)
(***************************************************************************)
EXTENDS ThreadTables, FiniteSets

CONSTANTS Setups,       \* [version, lcores, master, nports, argv]
          Bad,          \* an argument that does not parse
          MaskBits,     \* 32: bits of enabled_port_mask
          BurstMod,     \* 2^16: values of burst_size
          MaxRxq,       \* MAX_RX_QUEUE_PER_PORT
          MaxDesc,      \* MAX_RX_DESC
          FieldMax,     \* 255: the greatest number in a tuple
          MaxParams,    \* MAX_LCORE_PARAMS
          MaxQueues,    \* MAX_RX_QUEUE_PER_LCORE
          NSockets,     \* NB_SOCKETS: entries of pktmbuf_pool
          RxRings       \* version -> RX_RINGS, where there are no options

(* What an option has for an argument; the others have none that matters.  *)
OptionType(o) ==
  /\ o.name = "p" => o.arg = Bad \/ o.arg \subseteq Nat
  /\ o.name \in {"nb_rxq", "nb_rx_desc", "burst_size"} => o.arg \in Nat \cup {Bad}
  /\ o.name = "rx" => o.arg = Bad \/ o.arg \in Seq(Params)
  /\ o.name = "tx" => o.arg = Bad \/ o.arg \in Seq(TxParams)

ASSUME ConfigurationAssumption ==
  /\ \A s \in Setups :
       /\ s.version \in {"pthread", "lthread"} \cup DOMAIN RxRings
       /\ s.lcores \subseteq Nat /\ IsFiniteSet(s.lcores) /\ s.master \in s.lcores
       /\ s.nports \in 0 .. MaskBits
       /\ s.argv \in Seq(Range(s.argv))
       /\ \A i \in DOMAIN s.argv : OptionType(s.argv[i])
  /\ Bad \notin Nat
  /\ MaskBits \in Nat /\ BurstMod \in Nat \ {0} /\ MaxDesc \in Nat \ {0}
  /\ {MaxRxq, FieldMax, MaxParams, MaxQueues, NSockets} \subseteq Nat
  /\ DOMAIN RxRings \cap {"pthread", "lthread"} = {}
  /\ \A v \in DOMAIN RxRings : RxRings[v] \in Nat \ {0}

VARIABLES setup,
          pos,          \* the next option
          opts,         \* what the options set
          rx_thread,    \* n_rx_thread entries of [lcore, queues]
          tx_thread,    \* n_tx_thread entries of [lcore, thread]
          rings,        \* rx thread -> its rings
          next,         \* loop counter: port, thread or queue
          pools,        \* queues that have an mbuf pool
          nq,           \* port -> queues it is configured with
          up,           \* <<port, queue>> that are set up
          runs,         \* lcore -> what it runs
          pc,
          failed        \* a library call has failed (history)

given == <<setup, pos, opts>>
tables == <<rx_thread, tx_thread, rings>>
nic == <<next, pools, nq, up>>
vars == <<given, tables, nic, runs, pc, failed>>

Ports == 0 .. setup.nports - 1
Slaves == setup.lcores \ {setup.master}
HasOptions == setup.version \in {"pthread", "lthread"}
NRx == Cardinality(DOMAIN rx_thread)

-----------------------------------------------------------------------------
(* The options.                                                            *)

Rx(p, q, l, t) == [port |-> p, queue |-> q, lcore |-> l, thread |-> t]
Tx(l, t) == [lcore |-> l, thread |-> t]

DefaultsPthread ==
  [mask |-> {3}, promiscuous |-> TRUE, nb_rxq |-> 2, nb_rx_desc |-> MaxDesc,
   burst |-> BurstMod \div 2, write |-> FALSE, numa |-> TRUE,
   rx |-> <<Rx(3, 0, 2, 0), Rx(3, 1, 4, 1)>>, tx |-> <<Tx(6, 0), Tx(8, 1)>>]

DefaultsLthread ==
  [mask |-> {}, promiscuous |-> FALSE, nb_rxq |-> 0, nb_rx_desc |-> MaxDesc,
   burst |-> BurstMod \div 2, write |-> FALSE, numa |-> TRUE,
   rx |-> <<Rx(0, 0, 2, 0), Rx(0, 1, 2, 1), Rx(0, 2, 2, 2), Rx(1, 0, 2, 3),
            Rx(1, 1, 2, 4), Rx(1, 2, 2, 5), Rx(2, 0, 2, 6), Rx(3, 0, 3, 7),
            Rx(3, 1, 3, 8)>>,
   tx |-> <<Tx(4, 0), Tx(5, 1), Tx(6, 2)>>]

Known ==
  {"p", "P", "rx", "tx", "write-file"} \cup
    IF setup.version = "pthread" THEN {"nb_rxq", "nb_rx_desc", "burst_size"}
                                 ELSE {"no-numa", "enable-jumbo"}

(* Neither a bad mask nor 0 makes the mask 0: -1 stands for all the ports. *)
parse_portmask(a) ==
  IF a = Bad \/ a = {} THEN 0 .. MaskBits - 1 ELSE a \cap (0 .. MaskBits - 1)

(* parse_rx_queue_nb and parse_rx_desc_nb: old stays if a is no number.    *)
Clamped(a, limit, old) ==
  IF a = Bad \/ a = 0 THEN old ELSE Min({a, limit})

(* There is no limit for the burst, only that of its type.                 *)
parse_rx_burst_size(a, old) ==
  IF a = Bad \/ a = 0 THEN old ELSE a % BurstMod

(* parse_rx_config and parse_tx_config return 0.                           *)
ParsesRx(a) ==
  /\ a # Bad /\ Len(a) <= MaxParams
  /\ \A i \in DOMAIN a : Max({a[i].port, a[i].queue, a[i].lcore,
                              a[i].thread}) <= FieldMax

ParsesTx(a) ==
  /\ a # Bad /\ Len(a) <= MaxParams
  /\ \A i \in DOMAIN a : Max({a[i].lcore, a[i].thread}) <= FieldMax

(* What an option that is accepted sets.                                   *)
Apply(o) ==
  CASE o.name = "p" -> [opts EXCEPT !.mask = parse_portmask(o.arg)]
    [] o.name = "P" -> [opts EXCEPT !.promiscuous = TRUE]
    [] o.name = "nb_rxq" -> [opts EXCEPT !.nb_rxq = Clamped(o.arg, MaxRxq, @)]
    [] o.name = "nb_rx_desc" ->
         [opts EXCEPT !.nb_rx_desc = Clamped(o.arg, MaxDesc, @)]
    [] o.name = "burst_size" ->
         [opts EXCEPT !.burst = parse_rx_burst_size(o.arg, @)]
    [] o.name = "rx" -> [opts EXCEPT !.rx = o.arg]
    [] o.name = "tx" -> [opts EXCEPT !.tx = o.arg]
    [] o.name = "write-file" -> [opts EXCEPT !.write = TRUE]
    [] o.name = "no-numa" -> [opts EXCEPT !.numa = FALSE]
    [] OTHER -> opts

(* parse_args returns -1: both versions for a list that does not parse,    *)
(* pthread also for an option that it does not know and a mask without     *)
(* any of its bits.  For these two, lthread returns EXIT_FAILURE, which is *)
(* 1 and no failure to main.                                               *)
NotUsable(o) ==
  \/ o.name \notin Known
  \/ o.name = "p" /\ parse_portmask(o.arg) = {}

Refused(o) ==
  \/ o.name = "rx" /\ ~ParsesRx(o.arg)
  \/ o.name = "tx" /\ ~ParsesTx(o.arg)
  \/ setup.version = "pthread" /\ NotUsable(o)

-----------------------------------------------------------------------------
Init ==
  /\ setup \in Setups
  /\ pos = 1
  /\ opts = IF setup.version = "lthread" THEN DefaultsLthread
                                         ELSE DefaultsPthread
  /\ rx_thread = <<>> /\ tx_thread = <<>> /\ rings = <<>>
  /\ next = 0 /\ pools = {} /\ nq = [p \in Ports |-> 0] /\ up = {}
  /\ runs = [l \in Slaves |-> <<"wait">>]
  /\ pc = "eal" /\ failed = FALSE

(* rte_eal_init and, without options, the mbuf pools.                      *)
EalInit ==
  /\ pc = "eal"
  /\ pc' = IF HasOptions THEN "parse" ELSE "port_init"
  /\ pools' = IF HasOptions THEN {} ELSE 0 .. RxRings[setup.version] - 1
  /\ UNCHANGED <<given, tables, next, nq, up, runs, failed>>

(* A library call that may fail does, and the program exits.  In lthread,  *)
(* init_mem1 returns no value, and what main takes for it may be negative. *)
LibraryFails ==
  /\ pc \in {"eal", "rings", "ports", "queues", "start", "port_init"}
  /\ pc' = "exit" /\ failed' = TRUE
  /\ UNCHANGED <<given, tables, nic, runs>>

AfterOptions == IF setup.version = "pthread" THEN "rx_queues" ELSE "check"

parse_args ==
  /\ pc = "parse"
  /\ IF pos > Len(setup.argv)
       THEN pc' = AfterOptions /\ UNCHANGED <<pos, opts>>
     ELSE LET o == setup.argv[pos] IN
       \/ Refused(o) /\ pc' = "exit" /\ UNCHANGED <<pos, opts>>
       \/ /\ NotUsable(o) /\ ~Refused(o)
          /\ pc' = AfterOptions
          /\ opts' = IF o.name = "p" THEN [opts EXCEPT !.mask = {}] ELSE opts
          /\ UNCHANGED pos
       \/ /\ ~NotUsable(o) /\ ~Refused(o)
          /\ opts' = Apply(o)
          /\ pos' = pos + 1
          /\ UNCHANGED pc
  /\ UNCHANGED <<setup, tables, nic, runs, failed>>

(* lthread only.                                                           *)
check_lcore_params ==
  /\ pc = "check"
  /\ pc' = IF \A i \in DOMAIN opts.rx : /\ opts.rx[i].queue < MaxRxq
                                        /\ opts.rx[i].lcore \in setup.lcores
             THEN "rx_queues" ELSE "exit"
  /\ UNCHANGED <<given, tables, nic, runs, failed>>

init_rx_queues ==
  /\ pc = "rx_queues"
  /\ IF TooManyQueues(opts.rx, MaxQueues)
       THEN pc' = "exit" /\ UNCHANGED rx_thread
       ELSE pc' = "tx_threads" /\ rx_thread' = RxThreads(opts.rx)
  /\ UNCHANGED <<given, tx_thread, rings, nic, runs, failed>>

init_tx_threads ==
  /\ pc = "tx_threads"
  /\ tx_thread' = TxThreads(opts.tx)
  /\ pc' = "rings"
  /\ UNCHANGED <<given, rx_thread, rings, nic, runs, failed>>

init_rx_rings ==
  /\ pc = "rings"
  /\ IF RingRefused(tx_thread, Len(opts.tx))
       THEN pc' = "exit" /\ UNCHANGED rings
       ELSE /\ pc' = "ports"
            /\ rings' = [t \in DOMAIN rx_thread |-> RingsOf(opts.tx, t)]
  /\ UNCHANGED <<given, rx_thread, tx_thread, nic, runs, failed>>

-----------------------------------------------------------------------------
(* The ports.                                                              *)

(* The pools of a second port have the names of those of the first.        *)
NamesTaken == NRx > 0 /\ pools # {}

(* Pools beyond the end of pktmbuf_pool: the program may go on or not.     *)
MayOverrun == NRx > NSockets

(* Mutation: pthread takes the number of queues that --nb_rxq asks for.    *)
QueuesAsked(port) == opts.nb_rxq

(* get_port_n_rx_queues, and what pthread has in its place.                *)
QueuesFor(port) ==
  IF setup.version = "pthread" THEN NRx
  ELSE Max({0} \cup {opts.rx[i].queue + 1 :
                       i \in {j \in DOMAIN opts.rx : opts.rx[j].port = port}})

(* An enabled port is configured and gets its pools; pthread sets its      *)
(* queues up and starts it at once.                                        *)
init_port ==
  /\ pc = "ports" /\ next < setup.nports
  /\ IF next \notin opts.mask
       THEN next' = next + 1 /\ UNCHANGED <<pools, nq, up, pc>>
     ELSE IF NamesTaken
       THEN pc' = "exit" /\ UNCHANGED <<next, pools, nq, up>>
     ELSE
       /\ next' = next + 1
       /\ pools' = 0 .. NRx - 1
       /\ nq' = [nq EXCEPT ![next] = QueuesFor(next)]
       /\ up' = IF setup.version = "pthread"
                  THEN up \cup ({next} \X (0 .. NRx - 1)) ELSE up
       /\ pc' \in {"ports"} \cup (IF MayOverrun THEN {"fault"} ELSE {})
  /\ UNCHANGED <<given, tables, runs, failed>>

PortsReady ==
  /\ pc = "ports" /\ next = setup.nports
  /\ next' = 0
  /\ pc' = IF setup.version = "pthread" THEN "launch" ELSE "queues"
  /\ UNCHANGED <<given, tables, pools, nq, up, runs, failed>>

(* Mutation: the last queue is taken for one too many.                     *)
NotBelowLast(q) == q[1] \notin Ports \/ q[2] >= nq[q[1]] - 1

(* rte_eth_rx_queue_setup returns an error for a queue that the port does  *)
(* not have; without a pool it does not return.                            *)
NotConfigured(q) == q[1] \notin Ports \/ q[2] >= nq[q[1]]

NoPool(q) == q[2] \notin pools

(* lthread: the queues of the next rx thread, in order.                    *)
setup_queues ==
  /\ pc = "queues" /\ next < NRx
  /\ LET qs == rx_thread[next].queues
         wrong == {i \in DOMAIN qs : NotConfigured(qs[i]) \/ NoPool(qs[i])}
     IN  IF rx_thread[next].lcore \notin setup.lcores
           THEN pc' = "exit" /\ UNCHANGED <<next, up>>
         ELSE IF wrong = {}
           THEN /\ next' = next + 1
                /\ up' = up \cup {qs[i] : i \in DOMAIN qs}
                /\ UNCHANGED pc
         ELSE /\ pc' = IF NotConfigured(qs[Min(wrong)]) THEN "exit" ELSE "fault"
              /\ UNCHANGED <<next, up>>
  /\ UNCHANGED <<given, tables, pools, nq, runs, failed>>

QueuesReady ==
  /\ pc = "queues" /\ next = NRx
  /\ pc' = "start"
  /\ UNCHANGED <<given, tables, nic, runs, failed>>

(* lthread: the enabled ports start.  With a queue that was not set up the *)
(* driver may not survive it.                                              *)
start_ports ==
  /\ pc = "start"
  /\ pc' \in {"launch"} \cup
       (IF \E p \in Ports : \E q \in 0 .. nq[p] - 1 : <<p, q>> \notin up
          THEN {"fault"} ELSE {})
  /\ UNCHANGED <<given, tables, nic, runs, failed>>

(* run_to_completion and hardware: port 0 with RX_RINGS queues.            *)
port_init ==
  /\ pc = "port_init"
  /\ IF 0 \notin Ports THEN pc' = "exit" /\ UNCHANGED <<nq, up>>
     ELSE /\ nq' = [nq EXCEPT ![0] = RxRings[setup.version]]
          /\ up' = {0} \X pools
          /\ pc' = "launch"
  /\ UNCHANGED <<given, tables, next, pools, runs, failed>>

-----------------------------------------------------------------------------
(* The launch.                                                             *)

(* The function of a slave lcore: pthread_run looks for an rx thread, then *)
(* for a tx thread of the lcore, and runs the first one.                   *)
pthread_run(l) ==
  LET rx == {i \in DOMAIN rx_thread : rx_thread[i].lcore = l}
      tx == {i \in DOMAIN tx_thread : tx_thread[i].lcore = l}
  IN  IF rx # {} THEN <<"rx", Min(rx)>>
      ELSE IF tx # {} THEN <<"tx", Min(tx)>>
      ELSE <<"idle">>

(* pthread, lthread: all lcores at once.  lthread: a scheduler on each.    *)
launch_all ==
  /\ pc = "launch" /\ HasOptions
  /\ pc' = "running"
  /\ UNCHANGED <<given, tables, nic, runs, failed>>

StartLcore(l) ==
  /\ pc = "running" /\ HasOptions /\ runs[l] = <<"wait">>
  /\ runs' = [runs EXCEPT ![l] = IF setup.version = "pthread"
                                   THEN pthread_run(l) ELSE <<"sched">>]
  /\ UNCHANGED <<given, tables, nic, pc, failed>>

(* Mutation: the queue number does not advance.                            *)
launch_same ==
  /\ pc = "launch" /\ ~HasOptions
  /\ LET free == {l \in Slaves : runs[l] = <<"wait">>} IN
     IF free = {} THEN pc' = "running" /\ UNCHANGED runs
     ELSE /\ runs' = [runs EXCEPT ![Min(free)] = <<"rx", next>>]
          /\ pc' = IF next = RxRings[setup.version] - 1 THEN "running"
                                                        ELSE "launch"
  /\ UNCHANGED <<given, tables, nic, failed>>

(* Otherwise one after the other, each with the next queue, until there is *)
(* no queue or no lcore left.                                              *)
launch_next ==
  /\ pc = "launch" /\ ~HasOptions
  /\ LET free == {l \in Slaves : runs[l] = <<"wait">>} IN
     IF free = {} THEN pc' = "running" /\ UNCHANGED <<next, runs>>
     ELSE /\ runs' = [runs EXCEPT ![Min(free)] = <<"rx", next>>]
          /\ next' = next + 1
          /\ pc' = IF next = RxRings[setup.version] - 1 THEN "running"
                                                        ELSE "launch"
  /\ UNCHANGED <<given, tables, pools, nq, up, failed>>

Next ==
  \/ EalInit \/ LibraryFails \/ parse_args \/ check_lcore_params
  \/ init_rx_queues \/ init_tx_threads \/ init_rx_rings
  \/ init_port \/ PortsReady \/ setup_queues \/ QueuesReady \/ start_ports
  \/ port_init \/ launch_all \/ launch_next
  \/ \E l \in Slaves : StartLcore(l)

Spec == Init /\ [][Next]_vars
-----------------------------------------------------------------------------
(* What the command line asks for.                                         *)

Defaults == IF setup.version = "lthread" THEN DefaultsLthread
                                         ELSE DefaultsPthread

(* The last argument given to an option, or the default d.                 *)
Asked(name, d) ==
  LET at == {i \in DOMAIN setup.argv : setup.argv[i].name = name}
  IN  IF at = {} THEN d ELSE setup.argv[Max(at)].arg

AskedRx == Range(Asked("rx", Defaults.rx))
AskedTx == Asked("tx", Defaults.tx)
AskedPorts == Asked("p", Defaults.mask) \cap Ports

Usable(o) == ~NotUsable(o) /\ ~Refused(o)

(* Of an option that is repeated the last one counts.                      *)
Final(i) == \A j \in DOMAIN setup.argv :
              j > i => setup.argv[j].name # setup.argv[i].name

(* A value in the range of the option.                                     *)
InRange(o) ==
  /\ o.name = "p" => o.arg \notin {Bad, {}}
  /\ o.name = "nb_rxq" => o.arg = Cardinality(AskedRx)
  /\ o.name = "nb_rx_desc" => o.arg \in 1 .. MaxDesc
  /\ o.name = "burst_size" => o.arg \in 1 .. BurstMod - 1

(* One port; the queues and the rx threads are numbered from 0, and each   *)
(* thread has one queue and a tx thread.                                   *)
Numbered ==
  LET n == Cardinality(AskedRx) IN
  /\ n > 0
  /\ \E p \in Ports : AskedPorts = {p} /\ \A r \in AskedRx : r.port = p
  /\ {r.queue : r \in AskedRx} = 0 .. n - 1
  /\ {r.thread : r \in AskedRx} = 0 .. n - 1
  /\ {t.thread : t \in Range(AskedTx)} = 0 .. n - 1

(* Of a list of queues and of the queues of a port.                        *)
WithinLimits ==
  /\ ~TooManyQueues(Asked("rx", Defaults.rx), MaxQueues)
  /\ setup.version = "lthread" => Cardinality(AskedRx) <= MaxRxq

AskedLcores == {t.lcore : t \in AskedRx \cup Range(AskedTx)}

(* A command line that follows the rules: with pthread, pairs of an rx and *)
(* a tx thread with an lcore each, none of them the master; without        *)
(* options, a slave lcore for each queue.                                  *)
WellFormed ==
  IF ~HasOptions
    THEN 0 \in Ports /\ Cardinality(Slaves) >= RxRings[setup.version]
    ELSE /\ \A i \in DOMAIN setup.argv : Usable(setup.argv[i])
         /\ \A i \in DOMAIN setup.argv : Final(i) => InRange(setup.argv[i])
         /\ Numbered /\ WithinLimits
         /\ AskedLcores \subseteq setup.lcores
         /\ setup.version = "pthread" =>
              /\ setup.master \notin AskedLcores
              /\ Len(AskedTx) = Cardinality(AskedRx)
              /\ Cardinality(AskedLcores) = 2 * Len(AskedTx)

-----------------------------------------------------------------------------
(* What is running.                                                        *)

Ready == pc = "running" /\ (HasOptions => \A l \in Slaves : runs[l] # <<"wait">>)

(* lcore_main_rx polls the first queue of its list only; an empty list is  *)
(* all zero.                                                               *)
FirstQueue(t) == IF rx_thread[t].queues = <<>> THEN <<0, 0>>
                                               ELSE Head(rx_thread[t].queues)

Polled(l) == IF setup.version = "pthread" THEN FirstQueue(runs[l][2])
                                          ELSE <<0, runs[l][2]>>

Pollers(q) == {l \in Slaves : runs[l][1] = "rx" /\ Polled(l) = q}

Configured == UNION {{p} \X (0 .. nq[p] - 1) : p \in Ports}

(* An option has had the effect it asks for.                               *)
TookEffect(o) ==
  CASE o.name = "p" -> o.arg # Bad /\ opts.mask \cap Ports = o.arg \cap Ports
    [] o.name = "nb_rxq" -> o.arg = Cardinality(Configured)
    [] o.name = "nb_rx_desc" -> o.arg = opts.nb_rx_desc
    [] o.name = "burst_size" -> o.arg = opts.burst /\ opts.burst > 0
    [] OTHER -> TRUE

(* pthread: every thread asked for runs on its lcore with its own queue or *)
(* a ring that an rx thread fills, and every queue is polled by one lcore, *)
(* which runs a thread asked for and has a ring to fill.                   *)
PairsRun ==
  /\ \A i \in DOMAIN opts.rx : LET r == opts.rx[i] IN
       /\ r.lcore \in Slaves /\ runs[r.lcore] = <<"rx", r.thread>>
       /\ FirstQueue(r.thread) = <<r.port, r.queue>>
  /\ \A i \in DOMAIN tx_thread : LET t == tx_thread[i] IN
       /\ t.lcore \in Slaves /\ runs[t.lcore] = <<"tx", i>>
       /\ t.thread < NRx /\ Head(rings[t.thread]) = i
  /\ \A q \in Configured :
       \E i \in DOMAIN opts.rx : /\ Pollers(q) = {opts.rx[i].lcore}
                                 /\ rings[opts.rx[i].thread] # <<>>

(* lthread: the same of the tables, which LthreadStartup starts from.      *)
TablesConsistent ==
  /\ \A i \in DOMAIN opts.rx :
       rx_thread[opts.rx[i].thread].lcore = opts.rx[i].lcore
  /\ \A t \in DOMAIN rx_thread : rx_thread[t].queues # <<>> /\ rings[t] # <<>>
  /\ \A i \in DOMAIN tx_thread :
       tx_thread[i].thread < NRx /\ tx_thread[i].lcore \in setup.lcores
  /\ \A q \in Configured : Cardinality({t \in DOMAIN rx_thread :
       \E i \in DOMAIN rx_thread[t].queues : rx_thread[t].queues[i] = q}) = 1

InEffect ==
  IF ~HasOptions THEN \A q \in Configured : Cardinality(Pollers(q)) = 1
  ELSE /\ pos > Len(setup.argv)
       /\ \A i \in DOMAIN setup.argv : Final(i) => TookEffect(setup.argv[i])
       /\ Configured # {}
       /\ IF setup.version = "pthread" THEN PairsRun ELSE TablesConsistent

(* Once the threads run, the command line is in effect exactly if it       *)
(* follows the rules: then every queue that RSS fills has one thread that  *)
(* polls it and its packets are counted; otherwise the program may well    *)
(* run, but with queues nobody polls, rings nobody reads, lcores that run  *)
(* another thread than asked or values cut off.                            *)
InEffectIffWellFormed == Ready => (InEffect <=> WellFormed)

(* Unless a library call fails, a command line that follows the rules is   *)
(* not refused and does not crash the program, except for more rx threads  *)
(* than pktmbuf_pool has entries.                                          *)
WellFormedRuns ==
  pc \in {"exit", "fault"} /\ ~failed =>
    ~WellFormed \/ (pc = "fault" /\ NRx > NSockets)

(* Two lcores poll one queue (which rte_eth_rx_burst does not allow) only  *)
(* if two tuples name it or a thread-id is left out while lcore 0, its     *)
(* default, is a slave.                                                    *)
QueueOwned ==
  \A l, m \in Slaves :
    l # m /\ runs[l][1] = "rx" /\ runs[m][1] = "rx" /\ Polled(l) = Polled(m) =>
      /\ setup.version = "pthread"
      /\ \/ \E i, j \in DOMAIN opts.rx :
              /\ i # j
              /\ opts.rx[i].port = opts.rx[j].port
              /\ opts.rx[i].queue = opts.rx[j].queue
         \/ 0 \in Slaves /\ \E t \in DOMAIN rx_thread : rx_thread[t].queues = <<>>
=============================================================================
