------------------------ MODULE Configuration_proofs ------------------------
(***************************************************************************)
(* Proofs about Configuration, for any command lines, machines and limits: *)
(* an invariant for each stage of main, which says what the stages so far  *)
(* have made of the command line.                                          *)
(***************************************************************************)
EXTENDS Configuration, Lemmas

N == Len(setup.argv)

OptsType ==
  [mask : SUBSET Nat, promiscuous : BOOLEAN, nb_rxq : Nat,
   nb_rx_desc : 1 .. MaxDesc, burst : 0 .. BurstMod - 1, write : BOOLEAN,
   numa : BOOLEAN, rx : Seq(Params), tx : Seq(TxParams)]

(* An option has set what it sets, and nothing else.                       *)
EffectOf(o) ==
  /\ o.name = "p" => opts.mask = parse_portmask(o.arg)
  /\ o.name = "rx" => o.arg # Bad /\ opts.rx = o.arg
  /\ o.name = "tx" => o.arg # Bad /\ opts.tx = o.arg
  /\ o.name = "nb_rx_desc" =>
       (o.arg = opts.nb_rx_desc <=> o.arg \in 1 .. MaxDesc)
  /\ o.name = "burst_size" =>
       (o.arg = opts.burst /\ opts.burst > 0 <=> o.arg \in 1 .. BurstMod - 1)

LastBefore(i, k) ==
  \A j \in 1 .. k - 1 : j > i => setup.argv[j].name # setup.argv[i].name

Missing(name, k) == \A i \in 1 .. k - 1 : setup.argv[i].name # name

(* The options before the kth are parsed.                                  *)
ParsedTo(k) ==
  /\ \A i \in 1 .. k - 1 : Usable(setup.argv[i])
  /\ \A i \in 1 .. k - 1 : LastBefore(i, k) => EffectOf(setup.argv[i])
  /\ Missing("p", k) => opts.mask = Defaults.mask
  /\ Missing("rx", k) => opts.rx = Defaults.rx
  /\ Missing("tx", k) => opts.tx = Defaults.tx

(* All are, or the parser has stopped at one that is of no use.            *)
ParsingEnded ==
  \/ pos = N + 1 /\ ParsedTo(pos)
  \/ pos \in 1 .. N /\ ~Usable(setup.argv[pos])

-----------------------------------------------------------------------------
(* The stages of main, and what holds from each on.                        *)
FromPorts == {"ports", "queues", "start", "launch", "running"}
FromRings == {"rings"} \cup FromPorts
FromTx == {"tx_threads"} \cup FromRings
FromRx == {"rx_queues"} \cup FromTx
FromCheck == {"check"} \cup FromRx
BeforePorts == {"eal", "parse", "check", "rx_queues", "tx_threads", "rings"}
AfterPorts == {"queues", "start", "launch", "running"}
AfterQueues == {"start", "launch", "running"}

Stages ==
  IF HasOptions
    THEN (BeforePorts \cup FromPorts \cup {"exit", "fault"}) \
           (IF setup.version = "pthread" THEN {"check", "queues", "start"} ELSE {})
    ELSE {"eal", "port_init", "launch", "running", "exit"}

Base ==
  /\ setup \in Setups
  /\ opts \in OptsType
  /\ pos \in 1 .. N + 1
  /\ next \in Nat
  /\ pc \in Stages
  /\ failed \in BOOLEAN
  /\ DOMAIN runs = Slaves

Options ==
  /\ pc \in {"eal", "parse"} => ParsedTo(pos)
  /\ pc \in FromCheck => ParsingEnded

ListChecked == \A i \in DOMAIN opts.rx : /\ opts.rx[i].queue < MaxRxq
                                         /\ opts.rx[i].lcore \in setup.lcores

Threads ==
  /\ pc \in FromRx /\ setup.version = "lthread" => ListChecked
  /\ pc \in FromTx => /\ rx_thread = RxThreads(opts.rx)
                      /\ ~TooManyQueues(opts.rx, MaxQueues)
  /\ pc \in FromRings => tx_thread = TxThreads(opts.tx)
  /\ pc \in FromPorts =>
       /\ rings = [t \in DOMAIN rx_thread |-> RingsOf(opts.tx, t)]
       /\ ~RingRefused(tx_thread, Len(opts.tx))

(* The enabled ports below k are configured.                               *)
EnabledBelow(k) == {p \in opts.mask \cap Ports : p < k}

ConfiguredTo(k) ==
  /\ nq = [p \in Ports |-> IF p \in EnabledBelow(k) THEN QueuesFor(p) ELSE 0]
  /\ pools = IF EnabledBelow(k) = {} THEN {} ELSE 0 .. NRx - 1
  /\ NRx > 0 => \A p, r \in EnabledBelow(k) : p = r

(* The queues of thread t are set up.                                      *)
SetUp(t) ==
  /\ rx_thread[t].lcore \in setup.lcores
  /\ \A i \in DOMAIN rx_thread[t].queues :
       LET q == rx_thread[t].queues[i]
       IN  ~NotConfigured(q) /\ ~NoPool(q) /\ q \in up

Nic ==
  /\ pc \in BeforePorts => next = 0 /\ ConfiguredTo(0)
  /\ pc = "ports" => next \in 0 .. setup.nports /\ ConfiguredTo(next)
  /\ pc \in AfterPorts => ConfiguredTo(setup.nports)
  /\ pc = "queues" => next \in 0 .. NRx /\ \A t \in 0 .. next - 1 : SetUp(t)
  /\ pc \in AfterQueues /\ setup.version = "lthread" =>
       \A t \in 0 .. NRx - 1 : SetUp(t)

Started(l) ==
  IF setup.version = "pthread" THEN pthread_run(l) ELSE <<"sched">>

Running ==
  /\ pc # "running" => \A l \in Slaves : runs[l] = <<"wait">>
  /\ \A l \in Slaves : runs[l] \in {<<"wait">>, Started(l)}

WithOptions == HasOptions => Options /\ Threads /\ Nic /\ Running

(* Without options: the lcores launched poll the queues below next.        *)
Launched == {l \in Slaves : runs[l] # <<"wait">>}

QueuesTaken ==
  /\ Cardinality(Launched) = next
  /\ \A l \in Launched : \E k \in 0 .. next - 1 : runs[l] = <<"rx", k>>
  /\ \A k \in 0 .. next - 1 : \E l \in Launched : runs[l] = <<"rx", k>>
  /\ \A l, m \in Launched : runs[l] = runs[m] => l = m

WithoutOptions ==
  ~HasOptions =>
    /\ QueuesTaken
    /\ pc \in {"eal", "port_init"} => next = 0 /\ nq = [p \in Ports |-> 0]
    /\ pc = "launch" => next < RxRings[setup.version]
    /\ pc = "running" => \/ next = RxRings[setup.version]
                         \/ next < RxRings[setup.version] /\ Launched = Slaves
    /\ pc \in {"launch", "running"} =>
         /\ 0 \in Ports
         /\ nq = [p \in Ports |-> IF p = 0 THEN RxRings[setup.version] ELSE 0]

Inv == Base /\ WithOptions /\ WithoutOptions /\ WellFormedRuns
-----------------------------------------------------------------------------
(* Types.                                                                  *)

(* A tuple of two, three and nine entries is a sequence.                   *)
LEMMA TupleSeqs ==
  ASSUME NEW S, NEW a \in S, NEW b \in S, NEW c \in S, NEW d \in S, NEW e \in S,
         NEW f \in S, NEW g \in S, NEW h \in S, NEW i \in S
  PROVE  /\ <<a, b>> \in Seq(S) /\ <<a, b, c>> \in Seq(S)
         /\ <<a, b, c, d, e, f, g, h, i>> \in Seq(S)
OBVIOUS

(* What the constants are for a setup.                                     *)
LEMMA SetupTypes ==
  ASSUME setup \in Setups
  PROVE  /\ N \in Nat /\ DOMAIN setup.argv = 1 .. N
         /\ \A i \in 1 .. N : OptionType(setup.argv[i])
         /\ Slaves \subseteq Nat /\ IsFiniteSet(Slaves)
         /\ setup.nports \in Nat /\ Ports \subseteq 0 .. MaskBits - 1
         /\ setup.version \in {"pthread", "lthread"} \/ RxRings[setup.version] \in Nat \ {0}
         /\ setup.master \in setup.lcores /\ setup.lcores \subseteq Nat
<1>1. /\ setup.version \in {"pthread", "lthread"} \cup DOMAIN RxRings
      /\ setup.lcores \subseteq Nat /\ IsFiniteSet(setup.lcores)
      /\ setup.master \in setup.lcores
      /\ setup.nports \in 0 .. MaskBits /\ MaskBits \in Nat
      /\ setup.argv \in Seq(Range(setup.argv))
      /\ \A i \in DOMAIN setup.argv : OptionType(setup.argv[i])
      /\ \A v \in DOMAIN RxRings : RxRings[v] \in Nat \ {0}
  BY ConfigurationAssumption
<1>2. N \in Nat /\ DOMAIN setup.argv = 1 .. N
  BY <1>1, LenProperties DEF N
<1>3. Slaves \subseteq Nat /\ IsFiniteSet(Slaves)
  BY <1>1, FS_Subset DEF Slaves
<1>4. setup.nports \in Nat /\ Ports \subseteq 0 .. MaskBits - 1
  BY <1>1 DEF Ports
<1> QED
  BY <1>1, <1>2, <1>3, <1>4

(* The defaults.                                                           *)
LEMMA DefaultsType == Defaults \in OptsType
<1>1. MaxDesc \in Nat \ {0} /\ BurstMod \in Nat \ {0}
  BY ConfigurationAssumption
<1>2. MaxDesc \in 1 .. MaxDesc
  BY <1>1
<1>3. BurstMod \div 2 \in 0 .. BurstMod - 1
  BY <1>1
<1>4. DefaultsPthread \in OptsType
  <2>1. /\ Rx(3, 0, 2, 0) \in Params /\ Rx(3, 1, 4, 1) \in Params
        /\ Tx(6, 0) \in TxParams /\ Tx(8, 1) \in TxParams
    BY DEF Rx, Tx, Params, TxParams
  <2>2. /\ <<Rx(3, 0, 2, 0), Rx(3, 1, 4, 1)>> \in Seq(Params)
        /\ <<Tx(6, 0), Tx(8, 1)>> \in Seq(TxParams)
    BY <2>1, TupleSeqs
  <2> QED
    BY <1>2, <1>3, <2>2 DEF DefaultsPthread, OptsType
<1>5. DefaultsLthread \in OptsType
  <2>1. /\ Rx(0, 0, 2, 0) \in Params /\ Rx(0, 1, 2, 1) \in Params
        /\ Rx(0, 2, 2, 2) \in Params /\ Rx(1, 0, 2, 3) \in Params
        /\ Rx(1, 1, 2, 4) \in Params /\ Rx(1, 2, 2, 5) \in Params
        /\ Rx(2, 0, 2, 6) \in Params /\ Rx(3, 0, 3, 7) \in Params
        /\ Rx(3, 1, 3, 8) \in Params
        /\ Tx(4, 0) \in TxParams /\ Tx(5, 1) \in TxParams /\ Tx(6, 2) \in TxParams
    BY DEF Rx, Tx, Params, TxParams
  <2>2. /\ DefaultsLthread.rx \in Seq(Params)
        /\ DefaultsLthread.tx \in Seq(TxParams)
    BY <2>1, TupleSeqs DEF DefaultsLthread
  <2> QED
    BY <1>2, <1>3, <2>2 DEF DefaultsLthread, OptsType
<1> QED
  BY <1>4, <1>5 DEF Defaults

-----------------------------------------------------------------------------
(* The options.                                                            *)

(* An argument within its limit is taken as it is, another one is not.     *)
LEMMA ClampedIs ==
  ASSUME NEW a \in Nat \cup {Bad}, NEW limit \in Nat \ {0}, NEW old \in 1 .. limit
  PROVE  /\ Clamped(a, limit, old) \in 1 .. limit
         /\ a = Clamped(a, limit, old) <=> a \in 1 .. limit
<1>0. Bad \notin Nat
  BY ConfigurationAssumption
<1>1. CASE a = Bad \/ a = 0
  BY <1>0, <1>1 DEF Clamped
<1>2. CASE a # Bad /\ a # 0
  <2>1. a \in Nat \ {0}
    BY <1>2
  <2>2. \E x \in {a, limit} : \A y \in {a, limit} : x <= y
    BY <2>1
  <2>3. /\ Min({a, limit}) \in {a, limit}
        /\ \A y \in {a, limit} : Min({a, limit}) <= y
    BY <2>2 DEF Min
  <2>4. Clamped(a, limit, old) = Min({a, limit})
    BY <1>2 DEF Clamped
  <2> QED
    BY <2>1, <2>3, <2>4
<1> QED
  BY <1>1, <1>2

(* The same for the burst, of which only the width is limited.             *)
LEMMA BurstIs ==
  ASSUME NEW a \in Nat \cup {Bad}, NEW old \in 0 .. BurstMod - 1
  PROVE  LET b == parse_rx_burst_size(a, old) IN
         /\ b \in 0 .. BurstMod - 1
         /\ a = b /\ b > 0 <=> a \in 1 .. BurstMod - 1
<1>0. Bad \notin Nat /\ BurstMod \in Nat \ {0}
  BY ConfigurationAssumption
<1>1. CASE a = Bad \/ a = 0
  BY <1>0, <1>1 DEF parse_rx_burst_size
<1>2. CASE a # Bad /\ a # 0
  <2>1. a \in Nat \ {0}
    BY <1>2
  <2>2. parse_rx_burst_size(a, old) = a % BurstMod
    BY <1>2 DEF parse_rx_burst_size
  <2>3. a % BurstMod \in 0 .. BurstMod - 1
    BY <1>0, <2>1
  <2>4. a \in 1 .. BurstMod - 1 => a % BurstMod = a
    BY <1>0, <2>1
  <2> QED
    BY <1>0, <2>1, <2>2, <2>3, <2>4
<1> QED
  BY <1>1, <1>2

(* What is clamped to a limit that may be 0 is a number at least.          *)
LEMMA ClampedNat ==
  ASSUME NEW a \in Nat \cup {Bad}, NEW limit \in Nat, NEW old \in Nat
  PROVE  Clamped(a, limit, old) \in Nat
<1>1. a # Bad => \E x \in {a, limit} : \A y \in {a, limit} : x <= y
  OBVIOUS
<1>2. a # Bad => Min({a, limit}) \in {a, limit}
  BY <1>1 DEF Min
<1> QED
  BY <1>2 DEF Clamped

(* A mask has bits of the integer.                                         *)
LEMMA MaskType == \A a : parse_portmask(a) \subseteq Nat
<1>1. MaskBits \in Nat
  BY ConfigurationAssumption
<1> QED
  BY <1>1 DEF parse_portmask

(* An option that is accepted has its effect, and no other one's.          *)
LEMMA ApplyIs ==
  ASSUME opts \in OptsType, NEW o, OptionType(o), Usable(o), opts' = Apply(o)
  PROVE  /\ opts' \in OptsType
         /\ EffectOf(o)'
         /\ o.name # "p" => opts'.mask = opts.mask
         /\ o.name # "rx" => opts'.rx = opts.rx
         /\ o.name # "tx" => opts'.tx = opts.tx
         /\ o.name # "nb_rx_desc" => opts'.nb_rx_desc = opts.nb_rx_desc
         /\ o.name # "burst_size" => opts'.burst = opts.burst
<1>0. Bad \notin Nat /\ BurstMod \in Nat \ {0} /\ MaxDesc \in Nat \ {0} /\ MaxRxq \in Nat
  BY ConfigurationAssumption
<1>1. CASE o.name = "p"
  <2>1. opts' = [opts EXCEPT !.mask = parse_portmask(o.arg)]
    BY <1>1 DEF Apply
  <2>2. parse_portmask(o.arg) \in SUBSET Nat
    BY MaskType
  <2> QED
    BY <1>1, <2>1, <2>2 DEF OptsType, EffectOf
<1>2. CASE o.name = "P"
  BY <1>2 DEF Apply, OptsType, EffectOf
<1>3. CASE o.name = "nb_rxq"
  <2>1. opts' = [opts EXCEPT !.nb_rxq = Clamped(o.arg, MaxRxq, opts.nb_rxq)]
    BY <1>3 DEF Apply
  <2>2. Clamped(o.arg, MaxRxq, opts.nb_rxq) \in Nat
    BY <1>0, <1>3, ClampedNat DEF OptsType, OptionType
  <2> QED
    BY <1>3, <2>1, <2>2 DEF OptsType, EffectOf
<1>4. CASE o.name = "nb_rx_desc"
  <2>1. PICK c : c = Clamped(o.arg, MaxDesc, opts.nb_rx_desc)
    OBVIOUS
  <2>2. opts' = [opts EXCEPT !.nb_rx_desc = c]
    BY <1>4, <2>1 DEF Apply
  <2>3. o.arg \in Nat \cup {Bad} /\ opts.nb_rx_desc \in 1 .. MaxDesc
    BY <1>4 DEF OptionType, OptsType
  <2>4. c \in 1 .. MaxDesc /\ (o.arg = c <=> o.arg \in 1 .. MaxDesc)
    BY <1>0, <2>1, <2>3, ClampedIs
  <2> QED
    BY <1>4, <2>2, <2>4 DEF OptsType, EffectOf
<1>5. CASE o.name = "burst_size"
  <2>1. PICK b : b = parse_rx_burst_size(o.arg, opts.burst)
    OBVIOUS
  <2>2. opts' = [opts EXCEPT !.burst = b]
    BY <1>5, <2>1 DEF Apply
  <2>3. o.arg \in Nat \cup {Bad} /\ opts.burst \in 0 .. BurstMod - 1
    BY <1>5 DEF OptionType, OptsType
  <2>4. b \in 0 .. BurstMod - 1 /\ (o.arg = b /\ b > 0 <=> o.arg \in 1 .. BurstMod - 1)
    BY <2>1, <2>3, BurstIs
  <2> QED
    BY <1>5, <2>2, <2>4 DEF OptsType, EffectOf
<1>6. CASE o.name = "rx"
  <2>1. o.arg # Bad /\ o.arg \in Seq(Params)
    BY <1>6 DEF Usable, Refused, ParsesRx, OptionType
  <2> QED
    BY <1>6, <2>1 DEF Apply, OptsType, EffectOf
<1>7. CASE o.name = "tx"
  <2>1. o.arg # Bad /\ o.arg \in Seq(TxParams)
    BY <1>7 DEF Usable, Refused, ParsesTx, OptionType
  <2> QED
    BY <1>7, <2>1 DEF Apply, OptsType, EffectOf
<1>8. CASE o.name = "write-file"
  BY <1>8 DEF Apply, OptsType, EffectOf
<1>9. CASE o.name = "no-numa"
  BY <1>9 DEF Apply, OptsType, EffectOf
<1>10. CASE o.name \notin {"p", "P", "nb_rxq", "nb_rx_desc", "burst_size", "rx", "tx",
                           "write-file", "no-numa"}
  <2>1. opts' = opts
    BY <1>10 DEF Apply
  <2> QED
    BY <1>10, <2>1 DEF EffectOf
<1> QED
  BY <1>1, <1>2, <1>3, <1>4, <1>5, <1>6, <1>7, <1>8, <1>9, <1>10

(* Whether an option is of use depends on the version only.                *)
LEMMA UsableSame ==
  ASSUME setup' = setup, NEW o
  PROVE  Usable(o)' <=> Usable(o)
BY DEF Usable, NotUsable, Refused, Known

(* One more option is parsed.                                              *)
LEMMA ParseOne ==
  ASSUME Base, ParsedTo(pos), pos \in 1 .. N, Usable(setup.argv[pos]),
         opts' = Apply(setup.argv[pos]), pos' = pos + 1, setup' = setup
  PROVE  opts' \in OptsType /\ ParsedTo(pos)'
<1>1. PICK a, k, n : a = setup.argv /\ k = pos /\ n = N
  OBVIOUS
<1>2. /\ n \in Nat /\ k \in 1 .. n /\ setup'.argv = a /\ pos' = k + 1
      /\ OptionType(a[k]) /\ Usable(a[k]) /\ opts \in OptsType
  BY <1>1, SetupTypes DEF Base
<1>3. /\ opts' \in OptsType /\ EffectOf(a[k])'
      /\ a[k].name # "p" => opts'.mask = opts.mask
      /\ a[k].name # "rx" => opts'.rx = opts.rx
      /\ a[k].name # "tx" => opts'.tx = opts.tx
      /\ a[k].name # "nb_rx_desc" => opts'.nb_rx_desc = opts.nb_rx_desc
      /\ a[k].name # "burst_size" => opts'.burst = opts.burst
  <2>1. PICK o : o = a[k]
    OBVIOUS
  <2>2. OptionType(o) /\ Usable(o) /\ opts' = Apply(o)
    BY <1>1, <1>2, <2>1
  <2>3. /\ opts' \in OptsType /\ EffectOf(o)'
        /\ o.name # "p" => opts'.mask = opts.mask
        /\ o.name # "rx" => opts'.rx = opts.rx
        /\ o.name # "tx" => opts'.tx = opts.tx
        /\ o.name # "nb_rx_desc" => opts'.nb_rx_desc = opts.nb_rx_desc
        /\ o.name # "burst_size" => opts'.burst = opts.burst
    BY <1>2, <2>2, ApplyIs
  <2> QED
    BY <2>1, <2>3
<1>4. /\ \A i \in 1 .. k - 1 : Usable(a[i])
      /\ \A i \in 1 .. k - 1 :
           (\A j \in 1 .. k - 1 : j > i => a[j].name # a[i].name) => EffectOf(a[i])
      /\ (\A i \in 1 .. k - 1 : a[i].name # "p") => opts.mask = Defaults.mask
      /\ (\A i \in 1 .. k - 1 : a[i].name # "rx") => opts.rx = Defaults.rx
      /\ (\A i \in 1 .. k - 1 : a[i].name # "tx") => opts.tx = Defaults.tx
  BY <1>1 DEF ParsedTo, LastBefore, Missing
<1>5. ASSUME NEW i \in 1 .. k PROVE Usable(a[i])'
  <2>1. Usable(a[i])
    BY <1>2, <1>4
  <2> QED
    BY <2>1, UsableSame
<1>6. ASSUME NEW i \in 1 .. k, \A j \in 1 .. k : j > i => a[j].name # a[i].name
      PROVE  EffectOf(a[i])'
  <2>1. CASE i = k
    BY <1>3, <2>1
  <2>2. CASE i # k
    <3>1. i \in 1 .. k - 1 /\ k > i /\ k \in 1 .. k
      BY <1>2, <2>2
    <3>2. a[k].name # a[i].name
      BY <1>6, <3>1
    <3>3. \A j \in 1 .. k - 1 : j > i => a[j].name # a[i].name
      BY <1>2, <1>6
    <3>4. EffectOf(a[i])
      BY <1>4, <3>1, <3>3
    <3> QED
      BY <1>3, <3>2, <3>4 DEF EffectOf
  <2> QED
    BY <2>1, <2>2
<1>7. ASSUME NEW name \in {"p", "rx", "tx"}, \A i \in 1 .. k : a[i].name # name
      PROVE  /\ name = "p" => opts'.mask = Defaults'.mask
             /\ name = "rx" => opts'.rx = Defaults'.rx
             /\ name = "tx" => opts'.tx = Defaults'.tx
  <2>1. k \in 1 .. k /\ \A i \in 1 .. k - 1 : i \in 1 .. k
    BY <1>2
  <2>2. Defaults' = Defaults
    BY DEF Defaults, DefaultsLthread, DefaultsPthread
  <2> QED
    BY <1>3, <1>4, <1>7, <2>1, <2>2
<1>8. (k + 1) - 1 = k
  BY <1>2
<1> QED
  BY <1>2, <1>3, <1>5, <1>6, <1>7, <1>8 DEF ParsedTo, LastBefore, Missing

-----------------------------------------------------------------------------
(* What the command line asks for is what the options are when all of them *)
(* are parsed.                                                             *)

(* Asked takes the last of the options with a name.                        *)
LEMMA AskedIs ==
  ASSUME setup \in Setups, NEW name
  PROVE  /\ Missing(name, N + 1) => \A d : Asked(name, d) = d
         /\ ~Missing(name, N + 1) =>
              \E i \in 1 .. N : /\ setup.argv[i].name = name
                                /\ LastBefore(i, N + 1) /\ Final(i)
                                /\ \A d : Asked(name, d) = setup.argv[i].arg
<1> DEFINE at == {i \in DOMAIN setup.argv : setup.argv[i].name = name}
<1>1. N \in Nat /\ DOMAIN setup.argv = 1 .. N /\ (N + 1) - 1 = N
  BY SetupTypes
<1>2. at \subseteq 1 .. N /\ IsFiniteSet(at) /\ at \in SUBSET Int
  <2>1. IsFiniteSet(1 .. N)
    BY <1>1, FS_Interval
  <2> QED
    BY <1>1, <2>1, FS_Subset
<1>3. Missing(name, N + 1) <=> at = {}
  BY <1>1 DEF Missing
<1>4. \A d : Asked(name, d) = IF at = {} THEN d ELSE setup.argv[Max(at)].arg
  BY DEF Asked
<1>5. ASSUME at # {} PROVE Max(at) \in at /\ \A j \in at : Max(at) >= j
  <2> HIDE DEF at
  <2>1. \E x \in at : \A y \in at : x >= y
    BY <1>2, <1>5, GreatestNumber
  <2> QED
    BY <2>1 DEF Max
<1>6. ASSUME at # {}
      PROVE  \E i \in 1 .. N : /\ setup.argv[i].name = name
                               /\ LastBefore(i, N + 1) /\ Final(i)
                               /\ \A d : Asked(name, d) = setup.argv[i].arg
  <2>1. PICK i \in 1 .. N : i = Max(at)
    BY <1>2, <1>5, <1>6
  <2>2. setup.argv[i].name = name /\ \A j \in at : i >= j
    BY <1>5, <1>6, <2>1
  <2>3. \A j \in 1 .. N : j > i => setup.argv[j].name # name
    BY <1>1, <2>2
  <2>4. LastBefore(i, N + 1) /\ Final(i)
    BY <1>1, <2>2, <2>3 DEF LastBefore, Final
  <2> QED
    BY <1>4, <1>6, <2>1, <2>2, <2>4
<1> QED
  BY <1>3, <1>4, <1>6

(* The lists asked for are those of the options.                           *)
LEMMA AskedLists ==
  ASSUME setup \in Setups, ParsedTo(N + 1)
  PROVE  /\ Asked("rx", Defaults.rx) = opts.rx
         /\ Asked("tx", Defaults.tx) = opts.tx
<1>1. N \in Nat /\ (N + 1) - 1 = N
  BY SetupTypes
<1>2. Asked("rx", Defaults.rx) = opts.rx
  <2>1. CASE Missing("rx", N + 1)
    BY <2>1, AskedIs DEF ParsedTo
  <2>2. CASE ~Missing("rx", N + 1)
    <3>1. PICK i \in 1 .. N : /\ setup.argv[i].name = "rx" /\ LastBefore(i, N + 1)
                              /\ \A d : Asked("rx", d) = setup.argv[i].arg
      BY <2>2, AskedIs
    <3>2. EffectOf(setup.argv[i])
      BY <1>1, <3>1 DEF ParsedTo
    <3> QED
      BY <3>1, <3>2 DEF EffectOf
  <2> QED
    BY <2>1, <2>2
<1>3. Asked("tx", Defaults.tx) = opts.tx
  <2>1. CASE Missing("tx", N + 1)
    BY <2>1, AskedIs DEF ParsedTo
  <2>2. CASE ~Missing("tx", N + 1)
    <3>1. PICK i \in 1 .. N : /\ setup.argv[i].name = "tx" /\ LastBefore(i, N + 1)
                              /\ \A d : Asked("tx", d) = setup.argv[i].arg
      BY <2>2, AskedIs
    <3>2. EffectOf(setup.argv[i])
      BY <1>1, <3>1 DEF ParsedTo
    <3> QED
      BY <3>1, <3>2 DEF EffectOf
  <2> QED
    BY <2>1, <2>2
<1> QED
  BY <1>2, <1>3

(* A mask that is given and not empty enables the ports that it names.     *)
LEMMA AskedMask ==
  ASSUME setup \in Setups, ParsedTo(N + 1),
         \A i \in 1 .. N : Final(i) /\ setup.argv[i].name = "p" =>
                             setup.argv[i].arg \notin {Bad, {}}
  PROVE  AskedPorts = opts.mask \cap Ports
<1>1. N \in Nat /\ (N + 1) - 1 = N /\ Ports \subseteq 0 .. MaskBits - 1
  BY SetupTypes
<1>2. CASE Missing("p", N + 1)
  <2>1. opts.mask = Defaults.mask
    BY <1>2 DEF ParsedTo
  <2>2. Asked("p", Defaults.mask) = Defaults.mask
    BY <1>2, AskedIs
  <2> QED
    BY <2>1, <2>2 DEF AskedPorts
<1>3. CASE ~Missing("p", N + 1)
  <2>1. PICK i \in 1 .. N : /\ setup.argv[i].name = "p" /\ LastBefore(i, N + 1) /\ Final(i)
                            /\ \A d : Asked("p", d) = setup.argv[i].arg
    BY <1>3, AskedIs
  <2>2. EffectOf(setup.argv[i])
    BY <1>1, <2>1 DEF ParsedTo
  <2>3. PICK a : a = setup.argv[i].arg
    OBVIOUS
  <2>4. opts.mask = a \cap (0 .. MaskBits - 1)
    BY <2>1, <2>2, <2>3 DEF EffectOf, parse_portmask
  <2>5. AskedPorts = a \cap Ports
    BY <2>1, <2>3 DEF AskedPorts
  <2> QED
    BY <1>1, <2>4, <2>5
<1> QED
  BY <1>2, <1>3

(* The rules of WellFormed for the options.                                *)
InRangeAll(n) ==
  \A i \in 1 .. N : Final(i) =>
    LET o == setup.argv[i] IN
    /\ o.name = "p" => o.arg \notin {Bad, {}}
    /\ o.name = "nb_rxq" => o.arg = n
    /\ o.name = "nb_rx_desc" => o.arg \in 1 .. MaxDesc
    /\ o.name = "burst_size" => o.arg \in 1 .. BurstMod - 1

RulesOf(rx, tx, ports) ==
  LET n == Cardinality(Range(rx))
      lcores == {t.lcore : t \in Range(rx) \cup Range(tx)} IN
  /\ n > 0
  /\ \E p \in Ports : ports = {p} /\ \A r \in Range(rx) : r.port = p
  /\ {r.queue : r \in Range(rx)} = 0 .. n - 1
  /\ {r.thread : r \in Range(rx)} = 0 .. n - 1
  /\ {t.thread : t \in Range(tx)} = 0 .. n - 1
  /\ ~TooManyQueues(rx, MaxQueues)
  /\ setup.version = "lthread" => n <= MaxRxq
  /\ lcores \subseteq setup.lcores
  /\ setup.version = "pthread" => /\ setup.master \notin lcores
                                  /\ Len(tx) = n
                                  /\ Cardinality(lcores) = 2 * Len(tx)

(* WellFormed, of what the options are.                                    *)
LEMMA WellFormedRules ==
  ASSUME setup \in Setups, HasOptions, ParsingEnded
  PROVE  WellFormed <=> /\ pos = N + 1 /\ ParsedTo(N + 1)
                        /\ InRangeAll(Cardinality(Range(opts.rx)))
                        /\ RulesOf(opts.rx, opts.tx, opts.mask \cap Ports)
<1>1. N \in Nat /\ DOMAIN setup.argv = 1 .. N /\ (N + 1) - 1 = N
  BY SetupTypes
<1>2. CASE pos \in 1 .. N /\ ~Usable(setup.argv[pos])
  <2>1. ~WellFormed
    BY <1>1, <1>2 DEF WellFormed
  <2> QED
    BY <1>1, <1>2, <2>1
<1>3. CASE pos = N + 1 /\ ParsedTo(pos)
  <2>1. ParsedTo(N + 1) /\ \A i \in DOMAIN setup.argv : Usable(setup.argv[i])
    BY <1>1, <1>3 DEF ParsedTo
  <2>2. /\ AskedRx = Range(opts.rx) /\ AskedTx = opts.tx
        /\ Asked("rx", Defaults.rx) = opts.rx
    BY <2>1, AskedLists DEF AskedRx, AskedTx
  <2>3. (\A i \in DOMAIN setup.argv : Final(i) => InRange(setup.argv[i]))
          <=> InRangeAll(Cardinality(Range(opts.rx)))
    BY <1>1, <2>2 DEF InRange, InRangeAll
  <2>4. InRangeAll(Cardinality(Range(opts.rx))) => AskedPorts = opts.mask \cap Ports
    BY <2>1, AskedMask DEF InRangeAll
  <2>5. PICK rx, tx, ports : rx = opts.rx /\ tx = opts.tx /\ ports = opts.mask \cap Ports
    OBVIOUS
  <2>6. AskedPorts = ports =>
          (RulesOf(rx, tx, ports) <=>
             /\ Numbered /\ WithinLimits /\ AskedLcores \subseteq setup.lcores
             /\ setup.version = "pthread" =>
                  /\ setup.master \notin AskedLcores
                  /\ Len(AskedTx) = Cardinality(AskedRx)
                  /\ Cardinality(AskedLcores) = 2 * Len(AskedTx))
    BY <2>2, <2>5, Zenon DEF RulesOf, Numbered, WithinLimits, AskedLcores
  <2> QED
    BY <1>3, <2>1, <2>3, <2>4, <2>5, <2>6 DEF WellFormed
<1> QED
  BY <1>2, <1>3 DEF ParsingEnded

-----------------------------------------------------------------------------
(* The rules, element by element.                                          *)

(* An image is as large as its domain exactly if the map is injective.     *)
LEMMA ImageCard ==
  ASSUME NEW D, IsFiniteSet(D), NEW f, f = [x \in D |-> f[x]]
  PROVE  /\ IsFiniteSet(Image(f, D))
         /\ Cardinality(Image(f, D)) \in Nat /\ Cardinality(D) \in Nat
         /\ Cardinality(Image(f, D)) <= Cardinality(D)
         /\ Cardinality(Image(f, D)) = Cardinality(D)
              <=> \A a, b \in D : f[a] = f[b] => a = b
<1> DEFINE T == Image(f, D)
<1>1. f \in Surjection(D, T)
  BY DEF Image, Surjection
<1>2. /\ IsFiniteSet(T) /\ Cardinality(T) <= Cardinality(D)
      /\ Cardinality(T) = Cardinality(D) <=> f \in Injection(D, T)
  BY <1>1, FS_Surjection
<1>3. f \in Injection(D, T) <=> \A a, b \in D : f[a] = f[b] => a = b
  <2>1. f \in [D -> T] /\ DOMAIN f = D
    BY <1>1 DEF Surjection
  <2> QED
    BY <2>1 DEF Injection, IsInjective
<1>4. Cardinality(T) \in Nat /\ Cardinality(D) \in Nat
  BY <1>2, FS_CardinalityType
<1> QED
  BY <1>2, <1>3, <1>4

(* With pthread: one tuple for each lcore, and none for the master.        *)
PairedLcores(rx, tx) ==
  /\ \A i \in DOMAIN rx : rx[i].lcore # setup.master
  /\ \A j \in DOMAIN tx : tx[j].lcore # setup.master
  /\ \A i \in DOMAIN rx, j \in DOMAIN tx : rx[i].lcore # tx[j].lcore
  /\ \A i, j \in DOMAIN rx : rx[i].lcore = rx[j].lcore => rx[i] = rx[j]
  /\ \A i, j \in DOMAIN tx : tx[i].lcore = tx[j].lcore => i = j
  /\ \A i, j \in DOMAIN tx : tx[i].thread = tx[j].thread => i = j

(* n queues of port p with an rx thread each.                              *)
Matched(rx, n, p) ==
  /\ \A i \in DOMAIN rx : /\ rx[i].port = p /\ rx[i].queue \in 0 .. n - 1
                          /\ rx[i].thread \in 0 .. n - 1
                          /\ rx[i].lcore \in setup.lcores
  /\ \A i, j \in DOMAIN rx : rx[i].queue = rx[j].queue => rx[i] = rx[j]
  /\ \A i, j \in DOMAIN rx : rx[i].thread = rx[j].thread => rx[i] = rx[j]
  /\ \A k \in 0 .. n - 1 : \E i \in DOMAIN rx : rx[i].queue = k
  /\ \A k \in 0 .. n - 1 : \E i \in DOMAIN rx : rx[i].thread = k

(* And with tx threads.                                                    *)
Served(tx, n) ==
  /\ \A j \in DOMAIN tx : tx[j].thread \in 0 .. n - 1 /\ tx[j].lcore \in setup.lcores
  /\ \A k \in 0 .. n - 1 : \E j \in DOMAIN tx : tx[j].thread = k

(* The rules on the lists and the ports, for n queues of the only port p.  *)
Good(rx, tx, ports, n, p) ==
  /\ n \in Nat \ {0} /\ p \in Ports /\ ports = {p}
  /\ Matched(rx, n, p) /\ Served(tx, n)
  /\ ~TooManyQueues(rx, MaxQueues)
  /\ setup.version = "lthread" => n <= MaxRxq
  /\ setup.version = "pthread" => PairedLcores(rx, tx)

(* The tuples are as many as the queues.                                   *)
LEMMA MatchedSize ==
  ASSUME NEW rx \in Seq(Params), NEW n \in Nat, NEW p, Matched(rx, n, p)
  PROVE  IsFiniteSet(Range(rx)) /\ Cardinality(Range(rx)) = n
<1>1. DOMAIN rx = 1 .. Len(rx) /\ Len(rx) \in Nat
  BY LenProperties
<1> DEFINE S == Range(rx)
           f == [r \in S |-> r.queue]
<1>2. IsFiniteSet(S)
  <2>1. IsFiniteSet(DOMAIN rx)
    BY <1>1, FS_Interval
  <2>2. IsFiniteSet(Image(rx, DOMAIN rx))
    BY <2>1, ImageFinite
  <2> QED
    BY <2>2 DEF Image, Range
<1>3. Image(f, S) = 0 .. n - 1
  <2>1. \A r \in S : \E i \in DOMAIN rx : r = rx[i]
    BY DEF Range
  <2>2. \A i \in DOMAIN rx : rx[i] \in S
    BY DEF Range
  <2>3. \A r \in S : r.queue \in 0 .. n - 1
    BY <2>1 DEF Matched
  <2>4. \A k \in 0 .. n - 1 : \E r \in S : r.queue = k
    BY <2>2 DEF Matched
  <2> QED
    BY <2>3, <2>4 DEF Image
<1>4. \A a, b \in S : f[a] = f[b] => a = b
  BY DEF Matched, Range
<1>5. f = [r \in S |-> f[r]]
  OBVIOUS
<1> HIDE DEF f, S
<1>6. Cardinality(0 .. n - 1) = Cardinality(S)
  BY <1>2, <1>3, <1>4, <1>5, ImageCard
<1>7. Cardinality(0 .. n - 1) = n
  BY FS_Interval
<1> QED
  BY <1>2, <1>6, <1>7 DEF S

(* The two lists of lcores of the threads, and all of them.                *)
LEMMA LcoreSets ==
  ASSUME NEW rx \in Seq(Params), NEW tx \in Seq(TxParams)
  PROVE  LET S == Range(rx)
             A == Image([r \in S |-> r.lcore], S)
             B == Image([j \in DOMAIN tx |-> tx[j].lcore], DOMAIN tx) IN
         /\ {t.lcore : t \in Range(rx) \cup Range(tx)} = A \cup B
         /\ IsFiniteSet(S) /\ IsFiniteSet(DOMAIN tx)
         /\ Cardinality(DOMAIN tx) = Len(tx) /\ Len(tx) \in Nat
<1> DEFINE S == Range(rx)
<1>1. /\ DOMAIN rx = 1 .. Len(rx) /\ Len(rx) \in Nat
      /\ DOMAIN tx = 1 .. Len(tx) /\ Len(tx) \in Nat
  BY LenProperties
<1>2. IsFiniteSet(S)
  <2>1. IsFiniteSet(DOMAIN rx)
    BY <1>1, FS_Interval
  <2>2. IsFiniteSet(Image(rx, DOMAIN rx))
    BY <2>1, ImageFinite
  <2> QED
    BY <2>2 DEF Image, Range
<1>3. IsFiniteSet(DOMAIN tx) /\ Cardinality(DOMAIN tx) = Len(tx)
  <2>1. PICK m \in Nat : m = Len(tx)
    BY <1>1
  <2>2. IsFiniteSet(1 .. m) /\ Cardinality(1 .. m) = m
    BY FS_Interval
  <2> QED
    BY <1>1, <2>1, <2>2
<1>4. {t.lcore : t \in Range(rx) \cup Range(tx)}
        = Image([r \in S |-> r.lcore], S)
            \cup Image([j \in DOMAIN tx |-> tx[j].lcore], DOMAIN tx)
  BY DEF Image, Range
<1> QED
  BY <1>1, <1>2, <1>3, <1>4

(* Twice as many lcores as there are pairs: no two threads share one.      *)
LEMMA DistinctLcores ==
  ASSUME NEW rx \in Seq(Params), NEW tx \in Seq(TxParams), NEW n \in Nat,
         Cardinality(Range(rx)) = n, Len(tx) = n
  PROVE  Cardinality({t.lcore : t \in Range(rx) \cup Range(tx)}) = 2 * Len(tx)
           <=> /\ \A i \in DOMAIN rx, j \in DOMAIN tx : rx[i].lcore # tx[j].lcore
               /\ \A i, j \in DOMAIN rx : rx[i].lcore = rx[j].lcore => rx[i] = rx[j]
               /\ \A i, j \in DOMAIN tx : tx[i].lcore = tx[j].lcore => i = j
<1> DEFINE S == Range(rx)
           D == DOMAIN tx
           f == [r \in S |-> r.lcore]
           g == [j \in D |-> tx[j].lcore]
           A == Image(f, S)
           B == Image(g, D)
<1>1. /\ {t.lcore : t \in Range(rx) \cup Range(tx)} = A \cup B
      /\ IsFiniteSet(S) /\ IsFiniteSet(D) /\ Cardinality(D) = n
  BY LcoreSets
<1>2. f = [r \in S |-> f[r]] /\ g = [j \in D |-> g[j]]
  OBVIOUS
<1>3. /\ (\A i, j \in DOMAIN rx : rx[i].lcore = rx[j].lcore => rx[i] = rx[j])
           <=> \A a, b \in S : f[a] = f[b] => a = b
      /\ (\A i, j \in DOMAIN tx : tx[i].lcore = tx[j].lcore => i = j)
           <=> \A a, b \in D : g[a] = g[b] => a = b
      /\ (\A i \in DOMAIN rx, j \in DOMAIN tx : rx[i].lcore # tx[j].lcore)
           <=> A \cap B = {}
  <2>1. \A x : x \in A <=> \E i \in DOMAIN rx : x = rx[i].lcore
    BY DEF Image, Range
  <2>2. \A x : x \in B <=> \E j \in DOMAIN tx : x = tx[j].lcore
    BY DEF Image
  <2>3. (\A i \in DOMAIN rx, j \in DOMAIN tx : rx[i].lcore # tx[j].lcore) <=> A \cap B = {}
    <3> HIDE DEF A, B
    <3>1. ASSUME A \cap B = {}, NEW i \in DOMAIN rx, NEW j \in DOMAIN tx
          PROVE  rx[i].lcore # tx[j].lcore
      <4>1. rx[i].lcore \in A /\ tx[j].lcore \in B
        BY <2>1, <2>2
      <4> QED
        BY <3>1, <4>1
    <3>2. ASSUME \A i \in DOMAIN rx, j \in DOMAIN tx : rx[i].lcore # tx[j].lcore
          PROVE  A \cap B = {}
      <4>1. ASSUME NEW x \in A \cap B PROVE FALSE
        <5>1. PICK i \in DOMAIN rx : x = rx[i].lcore
          BY <2>1
        <5>2. PICK j \in DOMAIN tx : x = tx[j].lcore
          BY <2>2
        <5> QED
          BY <3>2, <5>1, <5>2
      <4> QED
        BY <4>1
    <3> QED
      BY <3>1, <3>2
  <2>4. (\A i, j \in DOMAIN rx : rx[i].lcore = rx[j].lcore => rx[i] = rx[j])
           <=> \A a, b \in S : f[a] = f[b] => a = b
    <3>1. \A a : a \in S <=> \E i \in DOMAIN rx : a = rx[i]
      BY DEF Range
    <3>2. \A a \in S : f[a] = a.lcore
      OBVIOUS
    <3>3. \A i \in DOMAIN rx : rx[i] \in S
      BY <3>1
    <3> HIDE DEF S, f
    <3>4. ASSUME \A a, b \in S : f[a] = f[b] => a = b,
                 NEW i \in DOMAIN rx, NEW j \in DOMAIN rx, rx[i].lcore = rx[j].lcore
          PROVE  rx[i] = rx[j]
      BY <3>2, <3>3, <3>4
    <3>5. ASSUME \A i, j \in DOMAIN rx : rx[i].lcore = rx[j].lcore => rx[i] = rx[j],
                 NEW a \in S, NEW b \in S, f[a] = f[b]
          PROVE  a = b
      <4>1. PICK i \in DOMAIN rx : a = rx[i]
        BY <3>1
      <4>2. PICK j \in DOMAIN rx : b = rx[j]
        BY <3>1
      <4>3. rx[i].lcore = rx[j].lcore
        BY <3>2, <3>5, <4>1, <4>2
      <4> QED
        BY <3>5, <4>1, <4>2, <4>3
    <3> QED
      BY <3>4, <3>5
  <2> QED
    BY <2>3, <2>4
<1> HIDE DEF S, D, f, g
<1>4. /\ IsFiniteSet(A) /\ Cardinality(A) \in Nat /\ Cardinality(A) <= n
      /\ Cardinality(A) = n <=> \A a, b \in S : f[a] = f[b] => a = b
  <2>1. Cardinality(S) = n
    BY DEF S
  <2>2. f = [r \in S |-> f[r]]
    BY <1>2
  <2>3. /\ IsFiniteSet(Image(f, S))
        /\ Cardinality(Image(f, S)) \in Nat /\ Cardinality(S) \in Nat
        /\ Cardinality(Image(f, S)) <= Cardinality(S)
        /\ Cardinality(Image(f, S)) = Cardinality(S)
              <=> \A a, b \in S : f[a] = f[b] => a = b
    BY <1>1, <2>2, ImageCard
  <2> QED
    BY <2>1, <2>3
<1>5. /\ IsFiniteSet(B) /\ Cardinality(B) \in Nat /\ Cardinality(B) <= n
      /\ Cardinality(B) = n <=> \A a, b \in D : g[a] = g[b] => a = b
  BY <1>1, <1>2, ImageCard
<1> HIDE DEF A, B
<1>6. /\ Cardinality(A \cup B) = Cardinality(A) + Cardinality(B) - Cardinality(A \cap B)
      /\ Cardinality(A \cap B) \in Nat
      /\ Cardinality(A \cap B) = 0 <=> A \cap B = {}
  <2>1. IsFiniteSet(A \cap B)
    BY <1>4, FS_Subset
  <2> QED
    BY <1>4, <1>5, <2>1, FS_Union, FS_CardinalityType, FS_EmptySet
<1>7. Cardinality(A \cup B) = 2 * n
        <=> A \cap B = {} /\ Cardinality(A) = n /\ Cardinality(B) = n
  BY <1>4, <1>5, <1>6
<1> QED
  BY <1>1, <1>3, <1>4, <1>5, <1>7

(* As many tx threads as queues, and one for each: they are different.     *)
LEMMA DistinctThreads ==
  ASSUME NEW tx \in Seq(TxParams), NEW n \in Nat, {t.thread : t \in Range(tx)} = 0 .. n - 1
  PROVE  /\ n <= Len(tx)
         /\ Len(tx) = n <=> \A i, j \in DOMAIN tx : tx[i].thread = tx[j].thread => i = j
<1> DEFINE D == DOMAIN tx
           g == [j \in D |-> tx[j].thread]
<1>1. D = 1 .. Len(tx) /\ Len(tx) \in Nat
  BY LenProperties
<1>2. IsFiniteSet(D) /\ Cardinality(D) = Len(tx)
  <2>1. PICK l \in Nat : l = Len(tx) /\ D = 1 .. l
    BY <1>1
  <2>2. IsFiniteSet(1 .. l) /\ Cardinality(1 .. l) = l
    BY FS_Interval
  <2> QED
    BY <2>1, <2>2
<1>3. g = [j \in D |-> g[j]]
  OBVIOUS
<1>4. Image(g, D) = 0 .. n - 1
  BY DEF Image, Range
<1>5. Cardinality(0 .. n - 1) = n
  BY FS_Interval
<1>6. (\A i, j \in D : g[i] = g[j] => i = j)
        <=> \A i, j \in D : tx[i].thread = tx[j].thread => i = j
  OBVIOUS
<1> HIDE DEF D, g
<1>7. /\ Cardinality(Image(g, D)) <= Cardinality(D)
      /\ Cardinality(Image(g, D)) = Cardinality(D) <=> \A i, j \in D : g[i] = g[j] => i = j
  BY <1>2, <1>3, ImageCard
<1> QED
  BY <1>1, <1>2, <1>4, <1>5, <1>6, <1>7 DEF D

(* The rules say that n queues of one port are matched, for some n.        *)
LEMMA RulesGood ==
  ASSUME setup \in Setups, NEW rx \in Seq(Params), NEW tx \in Seq(TxParams), NEW ports,
         RulesOf(rx, tx, ports)
  PROVE  \E p : Good(rx, tx, ports, Cardinality(Range(rx)), p)
<1> DEFINE S == Range(rx)
           lcores == {t.lcore : t \in Range(rx) \cup Range(tx)}
<1>1. IsFiniteSet(S)
  BY LcoreSets
<1>2. PICK n \in Nat : n = Cardinality(S)
  BY <1>1, FS_CardinalityType
<1>3. PICK p \in Ports : ports = {p} /\ \A r \in S : r.port = p
  BY DEF RulesOf
<1>4. /\ n > 0
      /\ {r.queue : r \in S} = 0 .. n - 1
      /\ {r.thread : r \in S} = 0 .. n - 1
      /\ {t.thread : t \in Range(tx)} = 0 .. n - 1
      /\ ~TooManyQueues(rx, MaxQueues)
      /\ setup.version = "lthread" => n <= MaxRxq
      /\ lcores \subseteq setup.lcores
      /\ setup.version = "pthread" => /\ setup.master \notin lcores
                                      /\ Len(tx) = n
                                      /\ Cardinality(lcores) = 2 * Len(tx)
  BY <1>2 DEF RulesOf
<1>5. /\ \A i \in DOMAIN rx : rx[i] \in S /\ rx[i].lcore \in lcores
      /\ \A j \in DOMAIN tx : tx[j] \in Range(tx) /\ tx[j].lcore \in lcores
      /\ \A r \in S : \E i \in DOMAIN rx : r = rx[i]
      /\ \A t \in Range(tx) : \E j \in DOMAIN tx : t = tx[j]
  BY DEF Range
<1> HIDE DEF S, lcores
<1>6. Cardinality(0 .. n - 1) = n
  BY FS_Interval
<1>7. \A a, b \in S : a.queue = b.queue => a = b
  <2> DEFINE f == [r \in S |-> r.queue]
  <2>1. f = [r \in S |-> f[r]] /\ Image(f, S) = 0 .. n - 1
    BY <1>4 DEF Image
  <2>2. \A a, b \in S : f[a] = f[b] => a = b
    <3> HIDE DEF f
    <3> QED
      BY <1>1, <1>2, <1>6, <2>1, ImageCard
  <2> QED
    BY <2>2
<1>8. \A a, b \in S : a.thread = b.thread => a = b
  <2> DEFINE f == [r \in S |-> r.thread]
  <2>1. f = [r \in S |-> f[r]] /\ Image(f, S) = 0 .. n - 1
    BY <1>4 DEF Image
  <2>2. \A a, b \in S : f[a] = f[b] => a = b
    <3> HIDE DEF f
    <3> QED
      BY <1>1, <1>2, <1>6, <2>1, ImageCard
  <2> QED
    BY <2>2
<1>9. Matched(rx, n, p)
  <2>1. \A r \in S : r.queue \in 0 .. n - 1 /\ r.thread \in 0 .. n - 1
    BY <1>4
  <2>2. \A k \in 0 .. n - 1 : (\E r \in S : r.queue = k) /\ (\E r \in S : r.thread = k)
    BY <1>4
  <2>3. ASSUME NEW i \in DOMAIN rx
        PROVE  /\ rx[i].port = p /\ rx[i].queue \in 0 .. n - 1
               /\ rx[i].thread \in 0 .. n - 1 /\ rx[i].lcore \in setup.lcores
    BY <1>3, <1>4, <1>5, <2>1
  <2>4. ASSUME NEW i \in DOMAIN rx, NEW j \in DOMAIN rx
        PROVE  /\ rx[i].queue = rx[j].queue => rx[i] = rx[j]
               /\ rx[i].thread = rx[j].thread => rx[i] = rx[j]
    BY <1>5, <1>7, <1>8
  <2>5. ASSUME NEW k \in 0 .. n - 1
        PROVE  (\E i \in DOMAIN rx : rx[i].queue = k) /\ (\E i \in DOMAIN rx : rx[i].thread = k)
    <3>1. PICK r \in S, w \in S : r.queue = k /\ w.thread = k
      BY <2>2
    <3>2. PICK i \in DOMAIN rx, j \in DOMAIN rx : r = rx[i] /\ w = rx[j]
      BY <1>5
    <3> QED
      BY <3>1, <3>2
  <2> QED
    BY <2>3, <2>4, <2>5 DEF Matched
<1>10. Served(tx, n)
  <2>1. \A t \in Range(tx) : t.thread \in 0 .. n - 1
    BY <1>4
  <2>2. \A k \in 0 .. n - 1 : \E t \in Range(tx) : t.thread = k
    BY <1>4
  <2>3. ASSUME NEW j \in DOMAIN tx
        PROVE  tx[j].thread \in 0 .. n - 1 /\ tx[j].lcore \in setup.lcores
    BY <1>4, <1>5, <2>1
  <2>4. ASSUME NEW k \in 0 .. n - 1 PROVE \E j \in DOMAIN tx : tx[j].thread = k
    <3>1. PICK t \in Range(tx) : t.thread = k
      BY <2>2
    <3> QED
      BY <1>5, <3>1
  <2> QED
    BY <2>3, <2>4 DEF Served
<1>11. ASSUME setup.version = "pthread" PROVE PairedLcores(rx, tx)
  <2>1. /\ setup.master \notin lcores /\ Len(tx) = n
        /\ Cardinality(lcores) = 2 * Len(tx)
    BY <1>4, <1>11
  <2>2. /\ \A i \in DOMAIN rx, j \in DOMAIN tx : rx[i].lcore # tx[j].lcore
        /\ \A i, j \in DOMAIN rx : rx[i].lcore = rx[j].lcore => rx[i] = rx[j]
        /\ \A i, j \in DOMAIN tx : tx[i].lcore = tx[j].lcore => i = j
    <3>1. Cardinality(Range(rx)) = n
      BY <1>2 DEF S
    <3>2. Cardinality({t.lcore : t \in Range(rx) \cup Range(tx)}) = 2 * Len(tx)
      BY <2>1 DEF lcores
    <3> QED
      BY <2>1, <3>1, <3>2, DistinctLcores
  <2>3. \A i, j \in DOMAIN tx : tx[i].thread = tx[j].thread => i = j
    BY <1>4, <2>1, DistinctThreads
  <2> QED
    BY <1>5, <2>1, <2>2, <2>3 DEF PairedLcores
<1> QED
  BY <1>2, <1>3, <1>4, <1>9, <1>10, <1>11 DEF Good, S

(* And a list that is matched follows the rules.                           *)
LEMMA GoodRules ==
  ASSUME setup \in Setups, NEW rx \in Seq(Params), NEW tx \in Seq(TxParams), NEW ports,
         NEW n, NEW p, Good(rx, tx, ports, n, p)
  PROVE  RulesOf(rx, tx, ports) /\ n = Cardinality(Range(rx))
<1> DEFINE S == Range(rx)
           lcores == {t.lcore : t \in Range(rx) \cup Range(tx)}
<1>1. /\ n \in Nat /\ n > 0 /\ p \in Ports /\ ports = {p}
      /\ Matched(rx, n, p) /\ Served(tx, n)
      /\ ~TooManyQueues(rx, MaxQueues)
      /\ setup.version = "lthread" => n <= MaxRxq
      /\ setup.version = "pthread" => PairedLcores(rx, tx)
  BY DEF Good
<1>2. Cardinality(S) = n
  BY <1>1, MatchedSize
<1>3. /\ \A r : r \in S <=> \E i \in DOMAIN rx : r = rx[i]
      /\ \A t : t \in Range(tx) <=> \E j \in DOMAIN tx : t = tx[j]
      /\ \A x \in lcores : \/ \E i \in DOMAIN rx : x = rx[i].lcore
                           \/ \E j \in DOMAIN tx : x = tx[j].lcore
  BY DEF Range
<1> HIDE DEF S, lcores
<1>4. \A r \in S : r.port = p /\ r.queue \in 0 .. n - 1 /\ r.thread \in 0 .. n - 1
  <2>1. \A i \in DOMAIN rx : /\ rx[i].port = p /\ rx[i].queue \in 0 .. n - 1
                             /\ rx[i].thread \in 0 .. n - 1
    BY <1>1 DEF Matched
  <2> QED
    BY <1>3, <2>1
<1>5. /\ \A k \in 0 .. n - 1 : \E r \in S : r.queue = k
      /\ \A k \in 0 .. n - 1 : \E r \in S : r.thread = k
  BY <1>1, <1>3 DEF Matched
<1>6. {r.queue : r \in S} = 0 .. n - 1 /\ {r.thread : r \in S} = 0 .. n - 1
  BY <1>4, <1>5
<1>7. {t.thread : t \in Range(tx)} = 0 .. n - 1
  <2>1. \A t \in Range(tx) : t.thread \in 0 .. n - 1
    BY <1>1, <1>3 DEF Served
  <2>2. \A k \in 0 .. n - 1 : \E t \in Range(tx) : t.thread = k
    BY <1>1, <1>3 DEF Served
  <2> QED
    BY <2>1, <2>2
<1>8. lcores \subseteq setup.lcores
  <2>1. SUFFICES ASSUME NEW x \in lcores PROVE x \in setup.lcores
    OBVIOUS
  <2>2. CASE \E i \in DOMAIN rx : x = rx[i].lcore
    BY <1>1, <2>2 DEF Matched
  <2>3. CASE \E j \in DOMAIN tx : x = tx[j].lcore
    BY <1>1, <2>3 DEF Served
  <2> QED
    BY <1>3, <2>2, <2>3
<1>9. ASSUME setup.version = "pthread"
      PROVE  setup.master \notin lcores /\ Len(tx) = n /\ Cardinality(lcores) = 2 * Len(tx)
  <2>1. PairedLcores(rx, tx)
    BY <1>1, <1>9
  <2>2. setup.master \notin lcores
    BY <1>3, <2>1 DEF PairedLcores
  <2>3. Len(tx) = n
    <3>1. \A i, j \in DOMAIN tx : tx[i].thread = tx[j].thread => i = j
      BY <2>1 DEF PairedLcores
    <3> QED
      BY <1>1, <1>7, <3>1, DistinctThreads
  <2>4. Cardinality({t.lcore : t \in Range(rx) \cup Range(tx)}) = 2 * Len(tx)
    <3>1. Cardinality(Range(rx)) = n
      BY <1>2 DEF S
    <3>2. /\ \A i \in DOMAIN rx, j \in DOMAIN tx : rx[i].lcore # tx[j].lcore
          /\ \A i, j \in DOMAIN rx : rx[i].lcore = rx[j].lcore => rx[i] = rx[j]
          /\ \A i, j \in DOMAIN tx : tx[i].lcore = tx[j].lcore => i = j
      BY <2>1 DEF PairedLcores
    <3> QED
      BY <1>1, <2>3, <3>1, <3>2, DistinctLcores
  <2> QED
    BY <2>2, <2>3, <2>4 DEF lcores
<1>10. \E q \in Ports : ports = {q} /\ \A r \in S : r.port = q
  BY <1>1, <1>4
<1>11. RulesOf(rx, tx, ports)
  <2>1. PICK ls : ls = lcores
    OBVIOUS
  <2>2. /\ n > 0 /\ n = Cardinality(Range(rx))
        /\ \E q \in Ports : ports = {q} /\ \A r \in Range(rx) : r.port = q
        /\ {r.queue : r \in Range(rx)} = 0 .. n - 1
        /\ {r.thread : r \in Range(rx)} = 0 .. n - 1
        /\ ls \subseteq setup.lcores
        /\ setup.version = "pthread" =>
             setup.master \notin ls /\ Len(tx) = n /\ Cardinality(ls) = 2 * Len(tx)
    BY <1>1, <1>2, <1>6, <1>8, <1>9, <1>10, <2>1 DEF S
  <2>3. ls = {t.lcore : t \in Range(rx) \cup Range(tx)}
    BY <2>1 DEF lcores
  <2> QED
    BY <1>1, <1>7, <2>2, <2>3, Zenon DEF RulesOf
<1> QED
  BY <1>2, <1>11 DEF S

-----------------------------------------------------------------------------
(* The tables.                                                             *)

(* The table of rx threads.                                                *)
LEMMA RxTable ==
  ASSUME opts \in OptsType, rx_thread = RxThreads(opts.rx)
  PROVE  /\ NRx \in Nat /\ NRx = NThreads(opts.rx) /\ DOMAIN rx_thread = 0 .. NRx - 1
         /\ \A t \in 0 .. NRx - 1 : IsThread(rx_thread[t], opts.rx, t)
         /\ \A i \in DOMAIN opts.rx : opts.rx[i].thread \in 0 .. NRx - 1
         /\ NRx # 0 => \E i \in DOMAIN opts.rx : opts.rx[i].thread = NRx - 1
<1>1. PICK rx \in Seq(Params) : rx = opts.rx
  BY DEF OptsType
<1>2. PICK n \in Nat : n = NThreads(rx)
  BY NThreadsType
<1>3. rx_thread = [t \in 0 .. n - 1 |-> RxThread(rx, t)]
  BY <1>1, <1>2 DEF RxThreads
<1>4. NRx = n /\ DOMAIN rx_thread = 0 .. n - 1
  <2>1. Cardinality(0 .. n - 1) = n
    BY FS_Interval
  <2> QED
    BY <1>3, <2>1 DEF NRx
<1>5. ASSUME NEW t \in 0 .. n - 1 PROVE IsThread(rx_thread[t], opts.rx, t)
  <2>1. IsThread(RxThread(rx, t), rx, t)
    BY RxThreadIs
  <2>2. rx_thread[t] = RxThread(rx, t)
    BY <1>3
  <2> QED
    BY <1>1, <2>1, <2>2
<1>6. /\ \A i \in DOMAIN rx : rx[i].thread \in 0 .. n - 1
      /\ n # 0 => \E i \in DOMAIN rx : rx[i].thread = n - 1
  BY <1>2, NThreadsType
<1> QED
  BY <1>1, <1>2, <1>4, <1>5, <1>6

(* The table of tx threads.                                                *)
LEMMA TxTable ==
  ASSUME opts \in OptsType, tx_thread = TxThreads(opts.tx)
  PROVE  /\ Len(opts.tx) \in Nat /\ DOMAIN opts.tx = 1 .. Len(opts.tx)
         /\ DOMAIN tx_thread = 0 .. Len(opts.tx) - 1
         /\ \A i \in 0 .. Len(opts.tx) - 1 : tx_thread[i] = opts.tx[i + 1] /\ tx_thread[i] \in TxParams
         /\ \A j \in DOMAIN opts.tx : /\ j - 1 \in 0 .. Len(opts.tx) - 1
                                      /\ tx_thread[j - 1] = opts.tx[j]
<1>1. PICK tx \in Seq(TxParams) : tx = opts.tx
  BY DEF OptsType
<1>2. PICK n \in Nat : n = Len(tx)
  BY LenProperties
<1>3. DOMAIN tx = 1 .. n /\ \A j \in 1 .. n : tx[j] \in TxParams
  BY <1>2, LenProperties, ElementOfSeq
<1>4. tx_thread = [i \in 0 .. n - 1 |-> tx[i + 1]]
  BY <1>1, <1>2 DEF TxThreads
<1>5. ASSUME NEW i \in 0 .. n - 1 PROVE tx_thread[i] = tx[i + 1] /\ tx_thread[i] \in TxParams
  <2>1. i + 1 \in 1 .. n
    OBVIOUS
  <2> QED
    BY <1>3, <1>4, <2>1
<1>6. ASSUME NEW j \in 1 .. n PROVE j - 1 \in 0 .. n - 1 /\ tx_thread[j - 1] = tx[j]
  <2>1. j - 1 \in 0 .. n - 1 /\ (j - 1) + 1 = j
    OBVIOUS
  <2> QED
    BY <1>5, <2>1
<1>7. DOMAIN tx_thread = 0 .. n - 1
  BY <1>4
<1> QED
  BY <1>1, <1>2, <1>3, <1>5, <1>6, <1>7

(* The rings of an rx thread.                                              *)
LEMMA RingTable ==
  ASSUME opts \in OptsType, rx_thread = RxThreads(opts.rx), tx_thread = TxThreads(opts.tx),
         rings = [t \in DOMAIN rx_thread |-> RingsOf(opts.tx, t)]
  PROVE  \A t \in 0 .. NRx - 1 :
           /\ rings[t] \in Seq(DOMAIN tx_thread)
           /\ \A k \in DOMAIN rings[t] : tx_thread[rings[t][k]].thread = t
           /\ \A i \in DOMAIN tx_thread : tx_thread[i].thread = t =>
                \E k \in DOMAIN rings[t] : rings[t][k] = i
<1>1. PICK tx \in Seq(TxParams) : tx = opts.tx
  BY DEF OptsType
<1>2. PICK n \in Nat : n = Len(tx)
  BY LenProperties
<1>3. /\ DOMAIN tx_thread = 0 .. n - 1
      /\ \A i \in 0 .. n - 1 : tx_thread[i] = tx[i + 1]
  BY <1>1, <1>2, TxTable
<1>4. DOMAIN rx_thread = 0 .. NRx - 1
  BY RxTable
<1> SUFFICES ASSUME NEW t \in 0 .. NRx - 1
             PROVE  /\ rings[t] \in Seq(DOMAIN tx_thread)
                    /\ \A k \in DOMAIN rings[t] : tx_thread[rings[t][k]].thread = t
                    /\ \A i \in DOMAIN tx_thread : tx_thread[i].thread = t =>
                         \E k \in DOMAIN rings[t] : rings[t][k] = i
  OBVIOUS
<1>5. PICK r : r = RingsOf(tx, t)
  OBVIOUS
<1>6. /\ r \in Seq(0 .. n - 1)
      /\ \A k \in DOMAIN r : r[k] + 1 \in 1 .. n /\ tx[r[k] + 1].thread = t
      /\ \A i \in 1 .. n : tx[i].thread = t => \E k \in DOMAIN r : r[k] = i - 1
  BY <1>2, <1>5, RingsOfIs
<1>7. rings[t] = r
  BY <1>1, <1>4, <1>5
<1>8. ASSUME NEW k \in DOMAIN r PROVE tx_thread[r[k]].thread = t
  <2>1. r[k] \in 0 .. n - 1
    BY <1>6, ElementOfSeq, LenProperties
  <2> QED
    BY <1>3, <1>6, <2>1
<1>9. ASSUME NEW i \in 0 .. n - 1, tx_thread[i].thread = t
      PROVE  \E k \in DOMAIN r : r[k] = i
  <2>1. i + 1 \in 1 .. n /\ (i + 1) - 1 = i
    OBVIOUS
  <2>2. tx[i + 1].thread = t
    BY <1>3, <1>9
  <2> QED
    BY <1>6, <2>1, <2>2
<1> QED
  BY <1>3, <1>6, <1>7, <1>8, <1>9

-----------------------------------------------------------------------------
(* What does not change with what.                                         *)

(* The setup is given.                                                     *)
LEMMA SetupSame ==
  ASSUME setup' = setup
  PROVE  /\ N' = N /\ Ports' = Ports /\ Slaves' = Slaves /\ Stages' = Stages
         /\ Known' = Known /\ AfterOptions' = AfterOptions
         /\ Defaults'.mask = Defaults.mask /\ Defaults'.rx = Defaults.rx
         /\ Defaults'.tx = Defaults.tx
         /\ HasOptions' <=> HasOptions
BY DEF N, Ports, Slaves, Stages, Known, AfterOptions, Defaults, DefaultsLthread,
       DefaultsPthread, HasOptions, BeforePorts, FromPorts

(* So is whether the command line follows the rules.                       *)
LEMMA WellFormedSame ==
  ASSUME setup' = setup
  PROVE  WellFormed' <=> WellFormed
<1>1. \A name, d : Asked(name, d)' = Asked(name, d)
  BY DEF Asked
<1>2. AskedRx' = AskedRx /\ AskedTx' = AskedTx /\ AskedPorts' = AskedPorts
  BY <1>1, SetupSame DEF AskedRx, AskedTx, AskedPorts
<1>3. /\ \A o : Usable(o)' <=> Usable(o)
      /\ \A i : Final(i)' <=> Final(i)
      /\ \A o : InRange(o)' <=> InRange(o)
  BY <1>2, UsableSame DEF Final, InRange
<1>4. Numbered' <=> Numbered
  BY <1>2, SetupSame DEF Numbered
<1>5. WithinLimits' <=> WithinLimits
  BY <1>1, <1>2, SetupSame DEF WithinLimits
<1>6. AskedLcores' = AskedLcores
  BY <1>2 DEF AskedLcores
<1> QED
  BY <1>2, <1>3, <1>4, <1>5, <1>6, SetupSame DEF WellFormed

(* With the options, what has been parsed stays.                           *)
LEMMA GivenSame ==
  ASSUME UNCHANGED given
  PROVE  /\ ParsedTo(pos)' <=> ParsedTo(pos)
         /\ ParsingEnded' <=> ParsingEnded
         /\ ListChecked' <=> ListChecked
<1>1. setup' = setup /\ pos' = pos /\ opts' = opts
  BY DEF given
<1>2. \A o : (Usable(o)' <=> Usable(o)) /\ (EffectOf(o)' <=> EffectOf(o))
  BY <1>1, UsableSame DEF EffectOf
<1>3. \A i, k : LastBefore(i, k)' <=> LastBefore(i, k)
  BY <1>1 DEF LastBefore
<1>4. \A n, k : Missing(n, k)' <=> Missing(n, k)
  BY <1>1 DEF Missing
<1>5. ParsedTo(pos)' <=> ParsedTo(pos)
  BY <1>1, <1>2, <1>3, <1>4, SetupSame DEF ParsedTo
<1>6. ParsingEnded' <=> ParsingEnded
  BY <1>1, <1>2, <1>5, SetupSame DEF ParsingEnded
<1> QED
  BY <1>1, <1>5, <1>6 DEF ListChecked

(* With the options and the tables, the number of queues stays.            *)
LEMMA TablesSame ==
  ASSUME UNCHANGED <<given, rx_thread>>
  PROVE  /\ NRx' = NRx
         /\ \A p : QueuesFor(p)' = QueuesFor(p)
         /\ \A k : EnabledBelow(k)' = EnabledBelow(k)
<1>1. setup' = setup /\ pos' = pos /\ opts' = opts /\ rx_thread' = rx_thread
  BY DEF given
<1>2. NRx' = NRx
  BY <1>1 DEF NRx
<1>3. \A p : QueuesFor(p)' = QueuesFor(p)
  BY <1>1, <1>2 DEF QueuesFor
<1>4. \A k : EnabledBelow(k)' = EnabledBelow(k)
  BY <1>1, SetupSame DEF EnabledBelow
<1> QED
  BY <1>2, <1>3, <1>4

(* The state of the ports.                                                 *)
LEMMA ConfiguredSame ==
  ASSUME UNCHANGED <<given, rx_thread, nq, pools>>
  PROVE  \A k : ConfiguredTo(k)' <=> ConfiguredTo(k)
<1>1. /\ NRx' = NRx /\ Ports' = Ports
      /\ \A p : QueuesFor(p)' = QueuesFor(p)
      /\ \A k : EnabledBelow(k)' = EnabledBelow(k)
  BY TablesSame, SetupSame DEF given
<1> QED
  BY <1>1 DEF ConfiguredTo

(* And of the queues of a thread.                                          *)
LEMMA SetUpSame ==
  ASSUME UNCHANGED <<given, rx_thread, nq, pools>>, up \subseteq up'
  PROVE  \A t : SetUp(t) => SetUp(t)'
<1>1. Ports' = Ports /\ setup' = setup
  BY SetupSame DEF given
<1> QED
  BY <1>1 DEF SetUp, NotConfigured, NoPool

(* What a lcore starts.                                                    *)
LEMMA StartedSame ==
  ASSUME UNCHANGED <<setup, rx_thread, tx_thread>>
  PROVE  \A l : Started(l)' = Started(l)
BY DEF Started, pthread_run

-----------------------------------------------------------------------------
(* The invariant holds at the beginning.                                   *)
LEMMA InitInv == Init => Inv
<1> SUFFICES ASSUME Init PROVE Inv
  OBVIOUS
<1>1. /\ setup \in Setups /\ pos = 1 /\ opts = Defaults
      /\ rx_thread = <<>> /\ tx_thread = <<>> /\ rings = <<>>
      /\ next = 0 /\ pools = {} /\ nq = [p \in Ports |-> 0] /\ up = {}
      /\ runs = [l \in Slaves |-> <<"wait">>]
      /\ pc = "eal" /\ failed = FALSE
  BY DEF Init, Defaults
<1>2. N \in Nat /\ setup.nports \in Nat
  BY <1>1, SetupTypes
<1>3. Base
  <2>1. pc \in Stages
    BY <1>1 DEF Stages, BeforePorts
  <2>2. pos \in 1 .. N + 1 /\ next \in Nat /\ failed \in BOOLEAN
    <3>1. \A n \in Nat : 1 \in 1 .. n + 1
      OBVIOUS
    <3> QED
      BY <1>1, <1>2, <3>1
  <2>3. opts \in OptsType
    BY <1>1, DefaultsType
  <2>4. DOMAIN runs = Slaves
    BY <1>1
  <2> QED
    BY <1>1, <2>1, <2>2, <2>3, <2>4 DEF Base
<1>4. ParsedTo(pos)
  <2>1. 1 .. pos - 1 = {}
    BY <1>1
  <2> QED
    BY <1>1, <2>1 DEF ParsedTo
<1>5. ConfiguredTo(0)
  <2>1. EnabledBelow(0) = {}
    BY <1>2 DEF EnabledBelow, Ports
  <2> QED
    BY <1>1, <2>1 DEF ConfiguredTo
<1>6. WithOptions
  <2>1. Options
    BY <1>1, <1>4 DEF Options, FromCheck, FromRx, FromTx, FromRings, FromPorts
  <2>2. Threads
    BY <1>1 DEF Threads, FromRx, FromTx, FromRings, FromPorts
  <2>3. Nic
    BY <1>1, <1>5 DEF Nic, BeforePorts, AfterPorts, AfterQueues
  <2>4. Running
    BY <1>1 DEF Running
  <2> QED
    BY <2>1, <2>2, <2>3, <2>4 DEF WithOptions
<1>7. WithoutOptions
  <2>1. Launched = {}
    BY <1>1 DEF Launched
  <2>2. Cardinality(Launched) = 0 /\ 0 .. next - 1 = {}
    BY <1>1, <2>1, FS_EmptySet
  <2>3. QueuesTaken
    BY <1>1, <2>1, <2>2 DEF QueuesTaken
  <2> QED
    BY <1>1, <2>3 DEF WithoutOptions
<1>8. WellFormedRuns
  BY <1>1 DEF WellFormedRuns
<1> QED
  BY <1>3, <1>6, <1>7, <1>8 DEF Inv

-----------------------------------------------------------------------------
(* The parts of the invariant that a step does not disturb.                *)

(* The types.                                                              *)
LEMMA BaseKept ==
  ASSUME Base, UNCHANGED given, next' \in Nat, pc' \in Stages, failed' \in BOOLEAN,
         DOMAIN runs' = Slaves
  PROVE  Base'
<1>1. setup' = setup /\ pos' = pos /\ opts' = opts
  BY DEF given
<1>2. N' = N /\ Slaves' = Slaves /\ Stages' = Stages
  BY <1>1, SetupSame
<1>3. OptsType' = OptsType
  BY DEF OptsType, Params, TxParams
<1> QED
  BY <1>1, <1>2, <1>3 DEF Base

(* What a program with options says of one without, and the other way.     *)
LEMMA OtherKept ==
  ASSUME setup' = setup
  PROVE  /\ HasOptions => WithoutOptions'
         /\ ~HasOptions => WithOptions'
BY SetupSame DEF WithoutOptions, WithOptions

(* What the options have set.                                              *)
LEMMA OptionsKept ==
  ASSUME Options, UNCHANGED given,
         pc' \in {"eal", "parse"} => pc \in {"eal", "parse"},
         pc' \in FromCheck => pc \in FromCheck
  PROVE  Options'
BY GivenSame DEF Options, FromCheck, FromRx, FromTx, FromRings, FromPorts

(* The tables.                                                             *)
LEMMA ThreadsKept ==
  ASSUME Threads, UNCHANGED <<given, tables>>,
         pc' \in FromRx => pc \in FromRx, pc' \in FromTx => pc \in FromTx,
         pc' \in FromRings => pc \in FromRings, pc' \in FromPorts => pc \in FromPorts
  PROVE  Threads'
<1>1. /\ setup' = setup /\ pos' = pos /\ opts' = opts /\ UNCHANGED given
      /\ rx_thread' = rx_thread /\ tx_thread' = tx_thread /\ rings' = rings
  BY DEF given, tables
<1>2. ListChecked' <=> ListChecked
  BY <1>1, GivenSame
<1> QED
  BY <1>1, <1>2 DEF Threads, FromRx, FromTx, FromRings, FromPorts

(* What the lcores run, before they do.                                    *)
LEMMA RunningKept ==
  ASSUME Running, pc # "running", UNCHANGED <<setup, runs>>
  PROVE  Running'
<1>1. setup' = setup /\ runs' = runs /\ Slaves' = Slaves
  BY SetupSame
<1> QED
  BY <1>1 DEF Running

(* A program that stops has only its types left.                           *)
LEMMA StopKept ==
  ASSUME Inv, HasOptions, UNCHANGED <<given, next, runs>>, failed' \in BOOLEAN,
         pc # "running", pc' \in {"exit", "fault"}, WellFormedRuns'
  PROVE  Inv'
<1>1. setup' = setup /\ UNCHANGED given
  BY DEF given
<1>2. Base'
  <2>1. pc' \in Stages
    BY DEF Stages, BeforePorts, FromPorts, Inv, Base
  <2> QED
    BY <1>1, <2>1, BaseKept DEF Inv, Base
<1>3. Options' /\ Threads' /\ Nic'
  BY DEF Options, Threads, Nic, FromCheck, FromRx, FromTx, FromRings, FromPorts,
         BeforePorts, AfterPorts, AfterQueues
<1>4. Running'
  BY <1>1, RunningKept DEF Inv, WithOptions
<1> QED
  BY <1>1, <1>2, <1>3, <1>4, OtherKept DEF Inv, WithOptions

-----------------------------------------------------------------------------
(* What a list that is matched makes of the tables.                        *)

(* The rx thread of a tuple has the queue of the tuple and no other.       *)
Takes(i, p) ==
  LET t == opts.rx[i].thread IN
  /\ rx_thread[t].lcore = opts.rx[i].lcore
  /\ rx_thread[t].queues # <<>>
  /\ \A k \in DOMAIN rx_thread[t].queues :
       rx_thread[t].queues[k] = <<p, opts.rx[i].queue>>

(* There are n rx threads, and each has its queue.                         *)
LEMMA GoodTables ==
  ASSUME opts \in OptsType, rx_thread = RxThreads(opts.rx),
         NEW n \in Nat \ {0}, NEW p, Matched(opts.rx, n, p)
  PROVE  /\ NRx = n
         /\ \A i \in DOMAIN opts.rx : Takes(i, p)
<1>1. /\ NRx \in Nat /\ DOMAIN rx_thread = 0 .. NRx - 1
      /\ \A t \in 0 .. NRx - 1 : IsThread(rx_thread[t], opts.rx, t)
      /\ \A i \in DOMAIN opts.rx : opts.rx[i].thread \in 0 .. NRx - 1
      /\ NRx # 0 => \E i \in DOMAIN opts.rx : opts.rx[i].thread = NRx - 1
  BY RxTable
<1>2. NRx = n
  <2>1. PICK m \in Nat : m = NRx
    BY <1>1
  <2>2. m >= n
    <3>1. n - 1 \in 0 .. n - 1
      OBVIOUS
    <3>2. PICK i \in DOMAIN opts.rx : opts.rx[i].thread = n - 1
      BY <3>1 DEF Matched
    <3>3. n - 1 \in 0 .. m - 1
      BY <1>1, <2>1, <3>2
    <3> QED
      BY <3>3
  <2>3. m <= n
    <3>1. CASE m = 0
      BY <3>1
    <3>2. CASE m # 0
      <4>1. PICK i \in DOMAIN opts.rx : opts.rx[i].thread = m - 1
        BY <1>1, <2>1, <3>2
      <4>2. m - 1 \in 0 .. n - 1
        BY <4>1 DEF Matched
      <4> QED
        BY <4>2
    <3> QED
      BY <3>1, <3>2
  <2> QED
    BY <2>1, <2>2, <2>3
<1>3. ASSUME NEW i \in DOMAIN opts.rx PROVE Takes(i, p)
  <2>1. PICK t \in 0 .. n - 1 : t = opts.rx[i].thread
    BY <1>1, <1>2
  <2>2. PICK c : c = rx_thread[t]
    OBVIOUS
  <2>3. IsThread(c, opts.rx, t)
    BY <1>1, <1>2, <2>2
  <2>4. \A j \in DOMAIN opts.rx : opts.rx[j].thread = t => opts.rx[j] = opts.rx[i]
    BY <2>1 DEF Matched
  <2>5. PICK k \in DOMAIN c.queues : c.queues[k] = <<opts.rx[i].port, opts.rx[i].queue>>
    BY <2>1, <2>3 DEF IsThread
  <2>6. c.queues # <<>>
    BY <2>5
  <2>7. c.lcore = opts.rx[i].lcore
    BY <2>3, <2>4, <2>6 DEF IsThread
  <2>8. ASSUME NEW l \in DOMAIN c.queues PROVE c.queues[l] = <<p, opts.rx[i].queue>>
    <3>1. PICK j \in DOMAIN opts.rx :
            opts.rx[j].thread = t /\ c.queues[l] = <<opts.rx[j].port, opts.rx[j].queue>>
      BY <2>3 DEF IsThread
    <3>2. opts.rx[j] = opts.rx[i] /\ opts.rx[i].port = p
      BY <2>4, <3>1 DEF Matched
    <3> QED
      BY <3>1, <3>2
  <2> QED
    BY <2>1, <2>2, <2>6, <2>7, <2>8 DEF Takes
<1> QED
  BY <1>2, <1>3

(* The port has n queues.                                                  *)
LEMMA GoodQueues ==
  ASSUME opts \in OptsType, HasOptions, rx_thread = RxThreads(opts.rx),
         NEW n \in Nat \ {0}, NEW p, Matched(opts.rx, n, p)
  PROVE  QueuesFor(p) = n
<1>1. CASE setup.version = "pthread"
  BY <1>1, GoodTables DEF QueuesFor
<1>2. CASE setup.version = "lthread"
  <2> DEFINE I == {j \in DOMAIN opts.rx : opts.rx[j].port = p}
             S == {0} \cup {opts.rx[i].queue + 1 : i \in I}
  <2>1. QueuesFor(p) = Max(S)
    BY <1>2 DEF QueuesFor
  <2>2. n \in S
    <3>1. n - 1 \in 0 .. n - 1 /\ (n - 1) + 1 = n
      OBVIOUS
    <3>2. PICK i \in DOMAIN opts.rx : opts.rx[i].queue = n - 1
      BY <3>1 DEF Matched
    <3>3. i \in I
      BY DEF Matched
    <3> QED
      BY <3>1, <3>2, <3>3
  <2>3. \A y \in S : y \in Nat /\ y <= n
    <3>1. ASSUME NEW i \in I PROVE opts.rx[i].queue + 1 \in Nat /\ opts.rx[i].queue + 1 <= n
      <4>1. PICK k \in 0 .. n - 1 : k = opts.rx[i].queue
        BY DEF Matched
      <4> QED
        BY <4>1
    <3> QED
      BY <3>1
  <2> HIDE DEF S
  <2>4. \E x \in S : \A y \in S : x >= y
    BY <2>2, <2>3
  <2>5. Max(S) \in S /\ \A y \in S : Max(S) >= y
    BY <2>4 DEF Max
  <2>6. PICK m \in Nat : m = Max(S) /\ m <= n /\ m >= n
    BY <2>2, <2>3, <2>5
  <2>7. m = n
    BY <2>6
  <2> QED
    BY <2>1, <2>6, <2>7
<1> QED
  BY <1>1, <1>2 DEF HasOptions

(* There are at least as many tx threads as rx threads.                    *)
LEMMA ServedSize ==
  ASSUME NEW tx \in Seq(TxParams), NEW n \in Nat, Served(tx, n)
  PROVE  n <= Len(tx)
<1>1. \A t : t \in Range(tx) <=> \E j \in DOMAIN tx : t = tx[j]
  BY DEF Range
<1>2. {t.thread : t \in Range(tx)} = 0 .. n - 1
  <2>1. \A t \in Range(tx) : t.thread \in 0 .. n - 1
    BY <1>1 DEF Served
  <2>2. \A k \in 0 .. n - 1 : \E t \in Range(tx) : t.thread = k
    BY <1>1 DEF Served
  <2> QED
    BY <2>1, <2>2
<1> QED
  BY <1>2, DistinctThreads

(* From the check of the options on, the rules are those of Good.          *)
LEMMA WellFormedGood ==
  ASSUME Inv, HasOptions, pc \in FromCheck
  PROVE  WellFormed <=> /\ pos = N + 1 /\ ParsedTo(N + 1)
                        /\ \E n, p : /\ Good(opts.rx, opts.tx, opts.mask \cap Ports, n, p)
                                     /\ InRangeAll(n)
<1>1. setup \in Setups /\ opts \in OptsType /\ ParsingEnded
  BY DEF Inv, Base, WithOptions, Options
<1>2. WellFormed <=> /\ pos = N + 1 /\ ParsedTo(N + 1)
                     /\ InRangeAll(Cardinality(Range(opts.rx)))
                     /\ RulesOf(opts.rx, opts.tx, opts.mask \cap Ports)
  BY <1>1, WellFormedRules
<1>3. PICK rx \in Seq(Params), tx \in Seq(TxParams), ports \in SUBSET Ports :
        rx = opts.rx /\ tx = opts.tx /\ ports = opts.mask \cap Ports
  BY <1>1 DEF OptsType
<1>4. RulesOf(rx, tx, ports) => \E p : Good(rx, tx, ports, Cardinality(Range(rx)), p)
  BY <1>1, RulesGood
<1>5. \A n, p : Good(rx, tx, ports, n, p) =>
                  RulesOf(rx, tx, ports) /\ n = Cardinality(Range(rx))
  BY <1>1, GoodRules
<1> QED
  BY <1>2, <1>3, <1>4, <1>5

-----------------------------------------------------------------------------
(* The steps of a program with options.                                    *)

(* No port is below port 0.                                                *)
LEMMA NonePorts ==
  ASSUME setup \in Setups
  PROVE  /\ EnabledBelow(0) = {}
         /\ ConfiguredTo(0) <=> nq = [p \in Ports |-> 0] /\ pools = {}
<1>1. setup.nports \in Nat
  BY SetupTypes
<1>2. EnabledBelow(0) = {}
  BY <1>1 DEF EnabledBelow, Ports
<1> QED
  BY <1>2 DEF ConfiguredTo

(* The same after a step that leaves the ports alone.                      *)
LEMMA NonePortsSame ==
  ASSUME setup \in Setups, UNCHANGED <<setup, nq, pools>>, ConfiguredTo(0)
  PROVE  ConfiguredTo(0)'
<1>1. setup.nports \in Nat /\ Ports' = Ports
  BY SetupTypes, SetupSame
<1>2. EnabledBelow(0)' = {}
  BY <1>1 DEF EnabledBelow, Ports
<1>3. nq = [p \in Ports |-> 0] /\ pools = {}
  BY NonePorts
<1> QED
  BY <1>1, <1>2, <1>3 DEF ConfiguredTo

(* With options the program starts at the first one.                       *)
LEMMA EalInitKeeps == Inv /\ EalInit /\ HasOptions => Inv'
<1> SUFFICES ASSUME Inv, EalInit, HasOptions PROVE Inv'
  OBVIOUS
<1>1. /\ pc = "eal" /\ pc' = "parse" /\ pools' = {}
      /\ UNCHANGED <<given, tables>> /\ setup' = setup
      /\ next' = next /\ nq' = nq /\ up' = up /\ runs' = runs /\ failed' = failed
  BY DEF EalInit, given
<1>2. /\ Base /\ setup \in Setups /\ Options /\ Threads /\ Nic /\ Running
  BY DEF Inv, Base, WithOptions
<1>3. Base'
  <2>1. pc' \in Stages
    BY <1>1 DEF Stages, BeforePorts
  <2> QED
    BY <1>1, <1>2, <2>1, BaseKept DEF Base
<1>4. Options' /\ Threads' /\ Running'
  <2>1. Options'
    BY <1>1, <1>2, OptionsKept DEF FromCheck, FromRx, FromTx, FromRings, FromPorts
  <2>2. Threads'
    BY <1>1, <1>2 DEF Threads, FromRx, FromTx, FromRings, FromPorts
  <2>3. Running'
    BY <1>1, <1>2, RunningKept
  <2> QED
    BY <2>1, <2>2, <2>3
<1>5. Nic'
  <2>1. next = 0 /\ ConfiguredTo(0)
    BY <1>1, <1>2 DEF Nic, BeforePorts
  <2>2. pools' = pools
    BY <1>1, <1>2, <2>1, NonePorts
  <2>3. ConfiguredTo(0)'
    BY <1>1, <1>2, <2>1, <2>2, NonePortsSame
  <2> QED
    BY <1>1, <2>1, <2>3 DEF Nic, BeforePorts, AfterPorts, AfterQueues
<1>6. WellFormedRuns'
  BY <1>1 DEF WellFormedRuns
<1> QED
  BY <1>1, <1>3, <1>4, <1>5, <1>6, OtherKept DEF Inv, WithOptions

(* A failure of the library is not held against the command line.          *)
LEMMA LibraryFailsKeeps == Inv /\ LibraryFails => Inv'
<1> SUFFICES ASSUME Inv, LibraryFails PROVE Inv'
  OBVIOUS
<1>1. /\ pc # "running" /\ pc' = "exit" /\ failed' = TRUE
      /\ UNCHANGED given /\ setup' = setup /\ next' = next /\ runs' = runs
  BY DEF LibraryFails, given, nic
<1>2. WellFormedRuns'
  BY <1>1 DEF WellFormedRuns
<1>3. CASE HasOptions
  BY <1>1, <1>2, <1>3, StopKept
<1>4. CASE ~HasOptions
  <2>1. Base'
    <3>1. pc' \in Stages
      BY <1>1, <1>4 DEF Stages
    <3> QED
      BY <1>1, <3>1, BaseKept DEF Inv, Base
  <2>2. QueuesTaken'
    <3>1. QueuesTaken /\ Launched' = Launched
      BY <1>1, <1>4, SetupSame DEF Inv, WithoutOptions, Launched
    <3> QED
      BY <1>1, <3>1 DEF QueuesTaken
  <2>3. WithoutOptions'
    BY <1>1, <2>2 DEF WithoutOptions
  <2> QED
    BY <1>1, <1>2, <1>4, <2>1, <2>3, OtherKept DEF Inv
<1> QED
  BY <1>3, <1>4

(* The stages that only a program with options has.                        *)
LEMMA StageHas ==
  ASSUME Base
  PROVE  /\ pc \in {"parse", "check", "rx_queues", "tx_threads", "rings", "ports",
                    "queues", "start", "fault"} => HasOptions
         /\ pc \in {"check", "queues", "start"} => setup.version = "lthread"
         /\ pc = "port_init" => ~HasOptions
BY DEF Base, Stages, HasOptions, BeforePorts, FromPorts

(* The stage after the options.                                            *)
LEMMA AfterOptionsKeeps ==
  ASSUME Inv, pc = "parse", pc' = AfterOptions, ParsingEnded', Base',
         UNCHANGED <<setup, tables, nic, runs, failed>>
  PROVE  Inv'
<1>1. /\ HasOptions /\ setup \in Setups /\ Nic /\ Running
      /\ setup' = setup /\ next' = next /\ nq' = nq /\ pools' = pools /\ runs' = runs
  BY StageHas DEF Inv, Base, WithOptions, nic
<1>2. \/ setup.version = "lthread" /\ pc' = "check"
      \/ setup.version = "pthread" /\ pc' = "rx_queues"
  BY <1>1 DEF AfterOptions, HasOptions
<1>3. Options'
  BY <1>2 DEF Options, FromCheck, FromRx, FromTx, FromRings, FromPorts
<1>4. Threads'
  BY <1>1, <1>2 DEF Threads, FromRx, FromTx, FromRings, FromPorts
<1>5. Nic'
  <2>1. next = 0 /\ ConfiguredTo(0)
    BY <1>1 DEF Nic, BeforePorts
  <2>2. ConfiguredTo(0)'
    BY <1>1, <2>1, NonePortsSame
  <2> QED
    BY <1>1, <1>2, <2>1, <2>2 DEF Nic, BeforePorts, AfterPorts, AfterQueues
<1>6. Running'
  BY <1>1, RunningKept
<1>7. WellFormedRuns'
  BY <1>2 DEF WellFormedRuns
<1> QED
  BY <1>1, <1>3, <1>4, <1>5, <1>6, <1>7, OtherKept DEF Inv, WithOptions

(* parse_args: at the end, at an option that is not accepted or not of     *)
(* use, or at one that is.                                                 *)
LEMMA parse_argsKeeps == Inv /\ parse_args => Inv'
<1> SUFFICES ASSUME Inv, parse_args PROVE Inv'
  OBVIOUS
<1>1. /\ pc = "parse" /\ UNCHANGED <<setup, tables, nic, runs, failed>>
      /\ setup' = setup /\ next' = next /\ nq' = nq /\ pools' = pools
      /\ runs' = runs /\ failed' = failed
      /\ rx_thread' = rx_thread /\ tx_thread' = tx_thread /\ rings' = rings
  BY DEF parse_args, tables, nic
<1>2. /\ Base /\ setup \in Setups /\ opts \in OptsType /\ HasOptions
      /\ ParsedTo(pos) /\ Nic /\ Running
  BY <1>1, StageHas DEF Inv, Base, WithOptions, Options
<1>3. PICK n \in Nat : n = N
  BY <1>2, SetupTypes
<1>4. pos \in 1 .. n + 1 /\ DOMAIN runs = Slaves /\ failed \in BOOLEAN /\ next \in Nat
  BY <1>2, <1>3 DEF Base
<1>5. n = Len(setup.argv)
  BY <1>3 DEF N
<1>6. /\ AfterOptions \in {"check", "rx_queues"}
      /\ setup.version = "pthread" => AfterOptions = "rx_queues"
      /\ {AfterOptions, "parse", "exit"} \subseteq Stages
      /\ Stages' = Stages /\ N' = N /\ Slaves' = Slaves
  BY <1>1, <1>2, SetupSame DEF AfterOptions, Stages, HasOptions, BeforePorts, FromPorts
<1>7. CASE pos > n
  <2>1. pc' = AfterOptions /\ UNCHANGED given
    BY <1>1, <1>5, <1>7 DEF parse_args, given
  <2>2. pos = n + 1
    BY <1>4, <1>7
  <2>3. ParsingEnded'
    BY <1>2, <1>3, <2>1, <2>2, GivenSame DEF ParsingEnded
  <2>4. Base'
    BY <1>1, <1>2, <1>4, <1>6, <2>1, BaseKept
  <2> QED
    BY <1>1, <2>1, <2>3, <2>4, AfterOptionsKeeps
<1>8. CASE ~(pos > n)
  <2>1. PICK k \in 1 .. n : k = pos
    BY <1>4, <1>8
  <2>2. PICK o : o = setup.argv[pos]
    OBVIOUS
  <2>3. \/ Refused(o) /\ pc' = "exit" /\ UNCHANGED <<pos, opts>>
        \/ /\ NotUsable(o) /\ ~Refused(o) /\ pc' = AfterOptions /\ UNCHANGED pos
           /\ opts' = IF o.name = "p" THEN [opts EXCEPT !.mask = {}] ELSE opts
        \/ /\ ~NotUsable(o) /\ ~Refused(o)
           /\ opts' = Apply(o) /\ pos' = pos + 1 /\ UNCHANGED pc
    BY <1>5, <1>8, <2>2 DEF parse_args
  <2>4. CASE Refused(o) /\ pc' = "exit" /\ UNCHANGED <<pos, opts>>
    <3>1. UNCHANGED given
      BY <1>1, <2>4 DEF given
    <3>2. DOMAIN setup.argv = 1 .. n
      BY <1>2, <1>3, SetupTypes
    <3>3. ~Usable(setup.argv[k])
      BY <2>1, <2>2, <2>4 DEF Usable
    <3>4. ~WellFormed
      BY <1>2, <2>1, <3>2, <3>3 DEF WellFormed
    <3>5. WellFormedRuns'
      BY <1>1, <3>4, WellFormedSame DEF WellFormedRuns
    <3> QED
      BY <1>1, <1>2, <1>4, <2>4, <3>1, <3>5, StopKept
  <2>5. CASE /\ NotUsable(o) /\ ~Refused(o) /\ pc' = AfterOptions /\ UNCHANGED pos
             /\ opts' = IF o.name = "p" THEN [opts EXCEPT !.mask = {}] ELSE opts
    <3>1. opts' \in OptsType
      BY <1>2, <2>5 DEF OptsType
    <3>2. Base'
      BY <1>1, <1>2, <1>3, <1>4, <1>6, <2>5, <3>1 DEF Base, OptsType
    <3>3. ~Usable(o)'
      BY <1>1, <2>5, UsableSame DEF Usable
    <3>4. ParsingEnded'
      BY <1>1, <1>3, <1>6, <2>1, <2>2, <2>5, <3>3 DEF ParsingEnded
    <3> QED
      BY <1>1, <2>5, <3>2, <3>4, AfterOptionsKeeps
  <2>6. CASE /\ ~NotUsable(o) /\ ~Refused(o)
             /\ opts' = Apply(o) /\ pos' = pos + 1 /\ UNCHANGED pc
    <3>1. Usable(setup.argv[pos]) /\ opts' = Apply(setup.argv[pos])
      BY <2>2, <2>6 DEF Usable
    <3>2. opts' \in OptsType /\ ParsedTo(pos)'
      BY <1>1, <1>2, <1>3, <2>1, <2>6, <3>1, ParseOne
    <3>3. pos' \in 1 .. n + 1
      BY <2>1, <2>6
    <3>4. Base'
      BY <1>1, <1>2, <1>3, <1>4, <1>6, <2>6, <3>2, <3>3 DEF Base, OptsType
    <3>5. pc' = "parse"
      BY <1>1, <2>6
    <3>6. Options'
      BY <3>2, <3>5 DEF Options, FromCheck, FromRx, FromTx, FromRings, FromPorts
    <3>7. Threads'
      BY <3>5 DEF Threads, FromRx, FromTx, FromRings, FromPorts
    <3>8. Nic'
      <4>1. next = 0 /\ ConfiguredTo(0)
        BY <1>1, <1>2 DEF Nic, BeforePorts
      <4>2. ConfiguredTo(0)'
        BY <1>1, <1>2, <4>1, NonePortsSame
      <4> QED
        BY <1>1, <3>5, <4>1, <4>2 DEF Nic, BeforePorts, AfterPorts, AfterQueues
    <3>9. Running' /\ WellFormedRuns'
      BY <1>1, <1>2, <3>5, RunningKept DEF WellFormedRuns
    <3> QED
      BY <1>1, <1>2, <3>4, <3>6, <3>7, <3>8, <3>9, OtherKept DEF Inv, WithOptions
  <2> QED
    BY <2>3, <2>4, <2>5, <2>6
<1> QED
  BY <1>7, <1>8

(* A program that stops though no library call failed has been given a     *)
(* command line that does not follow the rules.                            *)
LEMMA StopIll ==
  ASSUME Inv, HasOptions, UNCHANGED <<given, next, runs, failed>>,
         pc # "running", pc' \in {"exit", "fault"}, ~WellFormed
  PROVE  Inv'
<1>1. setup' = setup /\ failed' \in BOOLEAN
  BY DEF given, Inv, Base
<1>2. WellFormedRuns'
  BY <1>1, WellFormedSame DEF WellFormedRuns
<1> QED
  BY <1>1, <1>2, StopKept

(* A list that follows the rules, before the rx threads are known.         *)
LEMMA GoodList ==
  ASSUME Inv, HasOptions, pc \in FromCheck, WellFormed
  PROVE  \E n \in Nat \ {0}, p \in Ports :
           /\ Good(opts.rx, opts.tx, opts.mask \cap Ports, n, p)
           /\ Matched(opts.rx, n, p) /\ Served(opts.tx, n)
<1>1. PICK n, p : Good(opts.rx, opts.tx, opts.mask \cap Ports, n, p)
  BY WellFormedGood
<1> QED
  BY <1>1 DEF Good

(* The types after a step of the tables or the ports.                      *)
LEMMA StepBase ==
  ASSUME Base, UNCHANGED <<given, runs, failed>>, next' \in Nat, pc' \in Stages
  PROVE  Base'
<1>1. failed' \in BOOLEAN /\ DOMAIN runs' = Slaves
  BY DEF Base
<1> QED
  BY <1>1, BaseKept

(* lthread checks the queues and lcores.                                   *)
LEMMA check_lcore_paramsKeeps == Inv /\ check_lcore_params => Inv'
<1> SUFFICES ASSUME Inv, check_lcore_params PROVE Inv'
  OBVIOUS
<1>1. /\ pc = "check" /\ pc' = IF ListChecked THEN "rx_queues" ELSE "exit"
      /\ UNCHANGED <<given, tables, nic, runs, failed>> /\ UNCHANGED given /\ setup' = setup
      /\ next' = next /\ nq' = nq /\ pools' = pools /\ runs' = runs /\ failed' = failed
  BY DEF check_lcore_params, ListChecked, given, nic
<1>2. /\ Base /\ setup \in Setups /\ HasOptions /\ setup.version = "lthread"
      /\ Options /\ Threads /\ Nic /\ Running /\ pc \in FromCheck
  BY <1>1, StageHas DEF Inv, Base, WithOptions, FromCheck
<1>3. CASE ListChecked
  <2>1. pc' = "rx_queues"
    BY <1>1, <1>3
  <2>2. Base'
    <3>1. pc' \in Stages /\ next' \in Nat
      BY <1>1, <1>2, <2>1 DEF Stages, BeforePorts, Base
    <3> QED
      BY <1>1, <1>2, <3>1, StepBase
  <2>3. Options'
    BY <1>1, <1>2, <2>1, OptionsKept DEF FromCheck, FromRx
  <2>4. Threads'
    BY <1>1, <1>3, <2>1, GivenSame DEF Threads, FromRx, FromTx, FromRings, FromPorts
  <2>5. Nic'
    <3>1. next = 0 /\ ConfiguredTo(0)
      BY <1>1, <1>2 DEF Nic, BeforePorts
    <3>2. ConfiguredTo(0)'
      BY <1>1, <1>2, <3>1, NonePortsSame
    <3> QED
      BY <1>1, <2>1, <3>1, <3>2 DEF Nic, BeforePorts, AfterPorts, AfterQueues
  <2>6. Running' /\ WellFormedRuns'
    BY <1>1, <1>2, <2>1, RunningKept DEF WellFormedRuns
  <2> QED
    BY <1>1, <1>2, <2>2, <2>3, <2>4, <2>5, <2>6, OtherKept DEF Inv, WithOptions
<1>4. CASE ~ListChecked
  <2>1. ~WellFormed
    <3>1. SUFFICES ASSUME WellFormed PROVE FALSE
      OBVIOUS
    <3>2. PICK n \in Nat, p \in Ports :
            /\ Good(opts.rx, opts.tx, opts.mask \cap Ports, n, p)
            /\ Matched(opts.rx, n, p)
      BY <1>2, <3>1, GoodList
    <3>3. n <= MaxRxq /\ MaxRxq \in Nat
      BY <1>2, <3>2, ConfigurationAssumption DEF Good
    <3>4. ASSUME NEW i \in DOMAIN opts.rx
          PROVE  opts.rx[i].queue < MaxRxq /\ opts.rx[i].lcore \in setup.lcores
      <4>1. opts.rx[i].queue \in 0 .. n - 1 /\ opts.rx[i].lcore \in setup.lcores
        BY <3>2 DEF Matched
      <4> QED
        BY <3>3, <4>1
    <3> QED
      BY <1>4, <3>4 DEF ListChecked
  <2>2. pc' = "exit"
    BY <1>1, <1>4
  <2> QED
    BY <1>1, <1>2, <2>1, <2>2, StopIll
<1> QED
  BY <1>3, <1>4

(* The table of rx threads is made.                                        *)
LEMMA init_rx_queuesKeeps == Inv /\ init_rx_queues => Inv'
<1> SUFFICES ASSUME Inv, init_rx_queues PROVE Inv'
  OBVIOUS
<1>1. /\ pc = "rx_queues"
      /\ \/ TooManyQueues(opts.rx, MaxQueues) /\ pc' = "exit"
         \/ /\ ~TooManyQueues(opts.rx, MaxQueues) /\ pc' = "tx_threads"
            /\ rx_thread' = RxThreads(opts.rx)
      /\ UNCHANGED <<given, tx_thread, rings, nic, runs, failed>>
      /\ UNCHANGED given /\ setup' = setup /\ opts' = opts
      /\ next' = next /\ nq' = nq /\ pools' = pools /\ runs' = runs /\ failed' = failed
  BY DEF init_rx_queues, given, nic
<1>2. /\ Base /\ setup \in Setups /\ HasOptions
      /\ Options /\ Threads /\ Nic /\ Running /\ pc \in FromCheck
  BY <1>1, StageHas DEF Inv, Base, WithOptions, FromCheck, FromRx
<1>3. CASE /\ ~TooManyQueues(opts.rx, MaxQueues) /\ pc' = "tx_threads"
           /\ rx_thread' = RxThreads(opts.rx)
  <2>1. Base'
    <3>1. pc' \in Stages /\ next' \in Nat
      BY <1>1, <1>2, <1>3 DEF Stages, BeforePorts, Base
    <3> QED
      BY <1>1, <1>2, <3>1, StepBase
  <2>2. Options'
    BY <1>1, <1>2, <1>3, OptionsKept DEF FromCheck, FromRx, FromTx
  <2>3. Threads'
    <3>1. setup.version = "lthread" => ListChecked'
      BY <1>1, <1>2, GivenSame DEF Threads, FromRx
    <3> QED
      BY <1>1, <1>3, <3>1 DEF Threads, FromRx, FromTx, FromRings, FromPorts
  <2>4. Nic'
    <3>1. next = 0 /\ ConfiguredTo(0)
      BY <1>1, <1>2 DEF Nic, BeforePorts
    <3>2. ConfiguredTo(0)'
      BY <1>1, <1>2, <3>1, NonePortsSame
    <3> QED
      BY <1>1, <1>3, <3>1, <3>2 DEF Nic, BeforePorts, AfterPorts, AfterQueues
  <2>5. Running' /\ WellFormedRuns'
    BY <1>1, <1>2, <1>3, RunningKept DEF WellFormedRuns
  <2> QED
    BY <1>1, <1>2, <2>1, <2>2, <2>3, <2>4, <2>5, OtherKept DEF Inv, WithOptions
<1>4. CASE TooManyQueues(opts.rx, MaxQueues) /\ pc' = "exit"
  <2>1. ~WellFormed
    BY <1>2, <1>4, GoodList DEF Good
  <2> QED
    BY <1>1, <1>2, <1>4, <2>1, StopIll
<1> QED
  BY <1>1, <1>3, <1>4

(* The table of tx threads is made.                                        *)
LEMMA init_tx_threadsKeeps == Inv /\ init_tx_threads => Inv'
<1> SUFFICES ASSUME Inv, init_tx_threads PROVE Inv'
  OBVIOUS
<1>1. /\ pc = "tx_threads" /\ pc' = "rings" /\ tx_thread' = TxThreads(opts.tx)
      /\ UNCHANGED <<given, rx_thread, rings, nic, runs, failed>>
      /\ UNCHANGED given /\ setup' = setup /\ opts' = opts /\ rx_thread' = rx_thread
      /\ next' = next /\ nq' = nq /\ pools' = pools /\ runs' = runs /\ failed' = failed
  BY DEF init_tx_threads, given, nic
<1>2. /\ Base /\ setup \in Setups /\ HasOptions
      /\ Options /\ Threads /\ Nic /\ Running
  BY <1>1, StageHas DEF Inv, Base, WithOptions
<1>3. Base'
  <2>1. pc' \in Stages /\ next' \in Nat
    BY <1>1, <1>2 DEF Stages, BeforePorts, Base
  <2> QED
    BY <1>1, <1>2, <2>1, StepBase
<1>4. Options'
  BY <1>1, <1>2, OptionsKept DEF FromCheck, FromRx, FromTx, FromRings
<1>5. Threads'
  <2>1. setup.version = "lthread" => ListChecked'
    BY <1>1, <1>2, GivenSame DEF Threads, FromRx, FromTx
  <2>2. rx_thread = RxThreads(opts.rx) /\ ~TooManyQueues(opts.rx, MaxQueues)
    BY <1>1, <1>2 DEF Threads, FromTx
  <2> QED
    BY <1>1, <2>1, <2>2 DEF Threads, FromRx, FromTx, FromRings, FromPorts
<1>6. Nic'
  <2>1. next = 0 /\ ConfiguredTo(0)
    BY <1>1, <1>2 DEF Nic, BeforePorts
  <2>2. ConfiguredTo(0)'
    BY <1>1, <1>2, <2>1, NonePortsSame
  <2> QED
    BY <1>1, <2>1, <2>2 DEF Nic, BeforePorts, AfterPorts, AfterQueues
<1>7. Running' /\ WellFormedRuns'
  BY <1>1, <1>2, RunningKept DEF WellFormedRuns
<1> QED
  BY <1>1, <1>2, <1>3, <1>4, <1>5, <1>6, <1>7, OtherKept DEF Inv, WithOptions

(* The rings are made: of a list that follows the rules, no thread-id is   *)
(* above the number of tx threads.                                         *)
LEMMA init_rx_ringsKeeps == Inv /\ init_rx_rings => Inv'
<1> SUFFICES ASSUME Inv, init_rx_rings PROVE Inv'
  OBVIOUS
<1>1. /\ pc = "rings"
      /\ \/ RingRefused(tx_thread, Len(opts.tx)) /\ pc' = "exit"
         \/ /\ ~RingRefused(tx_thread, Len(opts.tx)) /\ pc' = "ports"
            /\ rings' = [t \in DOMAIN rx_thread |-> RingsOf(opts.tx, t)]
      /\ UNCHANGED <<given, rx_thread, tx_thread, nic, runs, failed>>
      /\ UNCHANGED given /\ setup' = setup /\ opts' = opts
      /\ rx_thread' = rx_thread /\ tx_thread' = tx_thread
      /\ next' = next /\ nq' = nq /\ pools' = pools /\ runs' = runs /\ failed' = failed
  BY DEF init_rx_rings, given, nic
<1>2. /\ Base /\ setup \in Setups /\ HasOptions /\ opts \in OptsType
      /\ Options /\ Threads /\ Nic /\ Running /\ pc \in FromCheck
  BY <1>1, StageHas DEF Inv, Base, WithOptions, FromCheck, FromRx, FromTx, FromRings
<1>3. /\ setup.version = "lthread" => ListChecked
      /\ rx_thread = RxThreads(opts.rx) /\ ~TooManyQueues(opts.rx, MaxQueues)
      /\ tx_thread = TxThreads(opts.tx)
  BY <1>1, <1>2 DEF Threads, FromRx, FromTx, FromRings
<1>4. CASE /\ ~RingRefused(tx_thread, Len(opts.tx)) /\ pc' = "ports"
           /\ rings' = [t \in DOMAIN rx_thread |-> RingsOf(opts.tx, t)]
  <2>1. Base'
    <3>1. pc' \in Stages /\ next' \in Nat
      BY <1>1, <1>2, <1>4 DEF Stages, FromPorts, Base
    <3> QED
      BY <1>1, <1>2, <3>1, StepBase
  <2>2. Options'
    BY <1>1, <1>2, <1>4, OptionsKept
  <2>3. Threads'
    <3>1. setup.version = "lthread" => ListChecked'
      BY <1>1, <1>3, GivenSame
    <3> QED
      BY <1>1, <1>3, <1>4, <3>1 DEF Threads
  <2>4. Nic'
    <3>1. next = 0 /\ ConfiguredTo(0)
      BY <1>1, <1>2 DEF Nic, BeforePorts
    <3>2. ConfiguredTo(0)'
      BY <1>1, <1>2, <3>1, NonePortsSame
    <3>3. 0 \in 0 .. setup.nports
      BY <1>2, SetupTypes
    <3>4. ConfiguredTo(next)'
      BY <1>1, <3>1, <3>2
    <3> QED
      BY <1>1, <1>4, <3>1, <3>3, <3>4 DEF Nic, BeforePorts, AfterPorts, AfterQueues
  <2>5. Running' /\ WellFormedRuns'
    BY <1>1, <1>2, <1>4, RunningKept DEF WellFormedRuns
  <2> QED
    BY <1>1, <1>2, <2>1, <2>2, <2>3, <2>4, <2>5, OtherKept DEF Inv, WithOptions
<1>5. CASE RingRefused(tx_thread, Len(opts.tx)) /\ pc' = "exit"
  <2>1. ~WellFormed
    <3>1. SUFFICES ASSUME WellFormed PROVE FALSE
      OBVIOUS
    <3>2. PICK n \in Nat : Served(opts.tx, n)
      BY <1>2, <3>1, GoodList
    <3>3. PICK tx \in Seq(TxParams) : tx = opts.tx
      BY <1>2 DEF OptsType
    <3>4. PICK m \in Nat : m = Len(tx) /\ n <= m
      BY <3>2, <3>3, LenProperties, ServedSize
    <3>5. /\ DOMAIN tx = 1 .. m /\ DOMAIN tx_thread = 0 .. m - 1
          /\ \A i \in 0 .. m - 1 : tx_thread[i] = tx[i + 1]
      BY <1>2, <1>3, <3>3, <3>4, TxTable
    <3>6. PICK i \in 0 .. m - 1 : tx_thread[i].thread > m
      BY <1>5, <3>3, <3>4, <3>5 DEF RingRefused
    <3>7. PICK j \in DOMAIN tx : tx_thread[i] = tx[j]
      <4>1. i + 1 \in 1 .. m
        OBVIOUS
      <4> QED
        BY <3>5, <4>1
    <3>8. tx[j].thread \in 0 .. n - 1
      BY <3>2, <3>3 DEF Served
    <3> QED
      BY <3>4, <3>6, <3>7, <3>8
  <2> QED
    BY <1>1, <1>2, <1>5, <2>1, StopIll
<1> QED
  BY <1>1, <1>4, <1>5

(* From the ports on, the options and the tables stay.                     *)
LEMMA TablesKept ==
  ASSUME Inv, HasOptions, pc \in FromPorts, pc' \in FromPorts, UNCHANGED <<given, tables>>
  PROVE  Options' /\ Threads'
<1>1. Options /\ Threads
  BY DEF Inv, WithOptions
<1>2. pc \in FromRings /\ pc \in FromTx /\ pc \in FromRx /\ pc \in FromCheck
  BY DEF FromCheck, FromRx, FromTx, FromRings
<1>3. UNCHANGED given /\ pc' \notin {"eal", "parse"}
  BY DEF FromPorts
<1> QED
  BY <1>1, <1>2, <1>3, OptionsKept, ThreadsKept

(* The enabled ports, one port further.                                    *)
LEMMA EnabledNext ==
  ASSUME setup \in Setups, NEW k \in 0 .. setup.nports - 1
  PROVE  /\ k \in Ports
         /\ EnabledBelow(k + 1) = IF k \in opts.mask THEN EnabledBelow(k) \cup {k}
                                                     ELSE EnabledBelow(k)
         /\ k \notin EnabledBelow(k)
<1>1. PICK n \in Nat : n = setup.nports
  BY SetupTypes
<1>2. k \in 0 .. n - 1 /\ Ports = 0 .. n - 1
  BY <1>1 DEF Ports
<1>3. \A p \in 0 .. n - 1 : p < k + 1 <=> p < k \/ p = k
  BY <1>2
<1>4. ~(k < k)
  BY <1>2
<1> HIDE <1>1
<1> QED
  BY <1>2, <1>3, <1>4 DEF EnabledBelow

(* What init_port makes of the state of the ports.                         *)
LEMMA PortConfigured ==
  ASSUME setup \in Setups, HasOptions, UNCHANGED <<given, rx_thread>>,
         NRx \in Nat,
         NEW k \in 0 .. setup.nports - 1, ConfiguredTo(k), k \in opts.mask, ~NamesTaken,
         pools' = 0 .. NRx - 1, nq' = [nq EXCEPT ![k] = QueuesFor(k)]
  PROVE  ConfiguredTo(k + 1)'
<1>1. /\ NRx' = NRx /\ Ports' = Ports
      /\ \A p : QueuesFor(p)' = QueuesFor(p)
      /\ \A m : EnabledBelow(m)' = EnabledBelow(m)
  BY TablesSame, SetupSame DEF given
<1>2. k \in Ports /\ EnabledBelow(k + 1) = EnabledBelow(k) \cup {k} /\ k \notin EnabledBelow(k)
  BY EnabledNext
<1>3. /\ nq = [p \in Ports |-> IF p \in EnabledBelow(k) THEN QueuesFor(p) ELSE 0]
      /\ pools = IF EnabledBelow(k) = {} THEN {} ELSE 0 .. NRx - 1
  BY DEF ConfiguredTo
<1>4. PICK E, F : E = EnabledBelow(k) /\ F = EnabledBelow(k + 1)
  OBVIOUS
<1>5. nq' = [p \in Ports |-> IF p \in F THEN QueuesFor(p) ELSE 0]
  BY <1>2, <1>3, <1>4
<1>6. pools' = IF F = {} THEN {} ELSE 0 .. NRx - 1
  BY <1>2, <1>4
<1>7. NRx > 0 => \A p, r \in F : p = r
  <2>1. NRx > 0 => 0 \in 0 .. NRx - 1
    OBVIOUS
  <2>2. NRx > 0 => E = {}
    BY <1>3, <1>4, <2>1 DEF NamesTaken
  <2> QED
    BY <1>2, <1>4, <2>2
<1>8. EnabledBelow(k + 1)' = F
  BY <1>1, <1>4
<1> QED
  BY <1>1, <1>5, <1>6, <1>7, <1>8 DEF ConfiguredTo

(* A port that is not enabled is passed over, an enabled one configured.   *)
LEMMA init_portKeeps == Inv /\ init_port => Inv'
<1> SUFFICES ASSUME Inv, init_port PROVE Inv'
  OBVIOUS
<1>1. /\ pc = "ports" /\ next < setup.nports
      /\ UNCHANGED <<given, tables, runs, failed>>
      /\ UNCHANGED given /\ setup' = setup /\ opts' = opts /\ rx_thread' = rx_thread
      /\ runs' = runs /\ failed' = failed
  BY DEF init_port, given, tables
<1>2. /\ Base /\ setup \in Setups /\ HasOptions /\ opts \in OptsType
      /\ Nic /\ Running /\ pc \in FromPorts
  BY <1>1, StageHas DEF Inv, Base, WithOptions, FromPorts
<1>3. next \in 0 .. setup.nports - 1 /\ ConfiguredTo(next) /\ setup.nports \in Nat
  <2>1. next \in 0 .. setup.nports /\ ConfiguredTo(next) /\ setup.nports \in Nat
    BY <1>1, <1>2, SetupTypes DEF Nic
  <2> QED
    BY <1>1, <2>1
<1>4. rx_thread = RxThreads(opts.rx) /\ NRx \in Nat
  <2>1. rx_thread = RxThreads(opts.rx)
    BY <1>1, <1>2 DEF Inv, WithOptions, Threads, FromTx, FromRings
  <2> QED
    BY <1>2, <2>1, RxTable
<1>5. ASSUME pc' = "ports", next' = next + 1, ConfiguredTo(next)' PROVE Inv'
  <2>1. next' \in 0 .. setup.nports /\ next' \in Nat
    BY <1>3, <1>5
  <2>2. Base'
    <3>1. pc' \in Stages
      BY <1>2, <1>5 DEF Stages, FromPorts
    <3> QED
      BY <1>1, <1>2, <2>1, <3>1, StepBase
  <2>3. Options' /\ Threads'
    BY <1>1, <1>2, <1>5, TablesKept
  <2>4. Nic'
    BY <1>1, <1>5, <2>1 DEF Nic, BeforePorts, AfterPorts, AfterQueues
  <2>5. Running' /\ WellFormedRuns'
    BY <1>1, <1>2, <1>5, RunningKept DEF WellFormedRuns
  <2> QED
    BY <1>1, <1>2, <2>2, <2>3, <2>4, <2>5, OtherKept DEF Inv, WithOptions
<1>6. CASE next \notin opts.mask
  <2>1. next' = next + 1 /\ pools' = pools /\ nq' = nq /\ pc' = "ports"
    BY <1>1, <1>6 DEF init_port
  <2>2. EnabledBelow(next + 1) = EnabledBelow(next)
    BY <1>2, <1>3, <1>6, EnabledNext
  <2>3. ConfiguredTo(next + 1)
    BY <1>3, <2>2 DEF ConfiguredTo
  <2>4. ConfiguredTo(next)'
    <3>1. PICK k : k = next + 1
      OBVIOUS
    <3>2. ConfiguredTo(k)' <=> ConfiguredTo(k)
      BY <1>1, <2>1, ConfiguredSame
    <3>3. next' = k
      BY <2>1, <3>1
    <3> QED
      BY <2>3, <3>1, <3>2, <3>3
  <2> QED
    BY <1>5, <2>1, <2>4
<1>7. CASE next \in opts.mask /\ NamesTaken
  <2>1. pc' = "exit" /\ next' = next
    BY <1>1, <1>7 DEF init_port
  <2>2. ~WellFormed
    <3>1. SUFFICES ASSUME WellFormed PROVE FALSE
      OBVIOUS
    <3>2. PICK p : opts.mask \cap Ports = {p}
      BY <1>2, <3>1, GoodList DEF Good, FromCheck, FromRx, FromTx, FromRings
    <3>3. EnabledBelow(next) # {}
      BY <1>3, <1>7 DEF ConfiguredTo, NamesTaken
    <3>4. EnabledBelow(next) \subseteq opts.mask \cap Ports
      BY DEF EnabledBelow
    <3>5. next \in opts.mask \cap Ports /\ next \notin EnabledBelow(next)
      BY <1>2, <1>3, <1>7, EnabledNext
    <3> QED
      BY <3>2, <3>3, <3>4, <3>5
  <2> QED
    BY <1>1, <1>2, <2>1, <2>2, StopIll
<1>8. CASE next \in opts.mask /\ ~NamesTaken
  <2>1. /\ next' = next + 1 /\ pools' = 0 .. NRx - 1
        /\ nq' = [nq EXCEPT ![next] = QueuesFor(next)]
        /\ pc' \in {"ports"} \cup (IF MayOverrun THEN {"fault"} ELSE {})
    BY <1>1, <1>8 DEF init_port
  <2>2. PICK k \in 0 .. setup.nports - 1 : k = next
    BY <1>3
  <2>3. CASE pc' = "ports"
    <3>1. ConfiguredTo(k + 1)'
      BY <1>1, <1>2, <1>3, <1>4, <1>8, <2>1, <2>2, PortConfigured
    <3>2. next' = k + 1
      BY <2>1, <2>2
    <3>3. ConfiguredTo(next)'
      BY <3>1, <3>2
    <3> QED
      BY <1>5, <2>1, <2>3, <3>3
  <2>4. CASE pc' = "fault" /\ MayOverrun
    <3>1. NRx' > NSockets
      BY <1>1, <2>4, TablesSame DEF MayOverrun
    <3>2. WellFormedRuns'
      BY <2>4, <3>1 DEF WellFormedRuns
    <3>3. Base'
      <4>1. pc' \in Stages /\ next' \in Nat
        BY <1>2, <1>3, <2>1, <2>4 DEF Stages
      <4> QED
        BY <1>1, <1>2, <4>1, StepBase
    <3>4. Options' /\ Threads' /\ Nic'
      BY <2>4 DEF Options, Threads, Nic, FromCheck, FromRx, FromTx, FromRings, FromPorts,
                  BeforePorts, AfterPorts, AfterQueues
    <3>5. Running'
      BY <1>1, <1>2, RunningKept
    <3> QED
      BY <1>1, <1>2, <3>2, <3>3, <3>4, <3>5, OtherKept DEF Inv, WithOptions
  <2> QED
    BY <2>1, <2>3, <2>4
<1> QED
  BY <1>6, <1>7, <1>8

(* Below the last port are all of them.                                    *)
LEMMA AllEnabled ==
  ASSUME setup \in Setups
  PROVE  EnabledBelow(setup.nports) = opts.mask \cap Ports
<1>1. PICK n \in Nat : n = setup.nports
  BY SetupTypes
<1>2. Ports = 0 .. n - 1
  BY <1>1 DEF Ports
<1>3. \A p \in 0 .. n - 1 : p < n
  BY <1>1
<1> QED
  BY <1>1, <1>2, <1>3 DEF EnabledBelow

(* With a list that is matched, one port has its queues and their pools.   *)
LEMMA GoodNic ==
  ASSUME setup \in Setups, opts \in OptsType, HasOptions, rx_thread = RxThreads(opts.rx),
         ConfiguredTo(setup.nports),
         NEW n \in Nat \ {0}, NEW p, Good(opts.rx, opts.tx, opts.mask \cap Ports, n, p)
  PROVE  /\ NRx = n /\ pools = 0 .. n - 1
         /\ nq = [q \in Ports |-> IF q = p THEN n ELSE 0]
<1>1. opts.mask \cap Ports = {p} /\ Matched(opts.rx, n, p)
  BY DEF Good
<1>2. NRx = n /\ QueuesFor(p) = n
  BY <1>1, GoodTables, GoodQueues
<1>3. EnabledBelow(setup.nports) = {p}
  BY <1>1, AllEnabled
<1>4. nq = [q \in Ports |-> IF q \in {p} THEN QueuesFor(q) ELSE 0]
  BY <1>3 DEF ConfiguredTo
<1>5. nq = [q \in Ports |-> IF q = p THEN n ELSE 0]
  BY <1>2, <1>4
<1> QED
  BY <1>2, <1>3, <1>5 DEF ConfiguredTo

(* After the last port, pthread is ready to launch its lcores.             *)
LEMMA PortsReadyKeeps == Inv /\ PortsReady => Inv'
<1> SUFFICES ASSUME Inv, PortsReady PROVE Inv'
  OBVIOUS
<1>1. /\ pc = "ports" /\ next = setup.nports /\ next' = 0
      /\ \/ setup.version = "pthread" /\ pc' = "launch"
         \/ setup.version # "pthread" /\ pc' = "queues"
      /\ UNCHANGED <<given, tables, pools, nq, up, runs, failed>>
      /\ UNCHANGED given /\ setup' = setup /\ rx_thread' = rx_thread
      /\ nq' = nq /\ pools' = pools /\ runs' = runs /\ failed' = failed
  BY DEF PortsReady, given, tables
<1>2. /\ Base /\ setup \in Setups /\ HasOptions /\ opts \in OptsType
      /\ Nic /\ Running /\ pc \in FromPorts /\ pc' \in FromPorts
  BY <1>1, StageHas DEF Inv, Base, WithOptions, FromPorts
<1>3. Base'
  <2>1. pc' \in Stages /\ next' \in Nat
    BY <1>1, <1>2 DEF Stages, FromPorts, BeforePorts
  <2> QED
    BY <1>1, <1>2, <2>1, StepBase
<1>4. Options' /\ Threads'
  BY <1>1, <1>2, TablesKept
<1>5. Nic'
  <2>1. ConfiguredTo(setup.nports)
    BY <1>1, <1>2 DEF Nic
  <2>2. ConfiguredTo(setup.nports)'
    <3>1. PICK k : k = setup.nports
      OBVIOUS
    <3>2. ConfiguredTo(k)' <=> ConfiguredTo(k)
      BY <1>1, ConfiguredSame
    <3> QED
      BY <1>1, <2>1, <3>1, <3>2
  <2>3. NRx' \in Nat
    <3>1. rx_thread = RxThreads(opts.rx)
      BY <1>1, <1>2 DEF Inv, WithOptions, Threads, FromTx, FromRings
    <3> QED
      BY <1>1, <1>2, <3>1, RxTable, TablesSame
  <2>4. next' \in 0 .. NRx' /\ 0 .. next' - 1 = {}
    BY <1>1, <2>3
  <2> QED
    BY <1>1, <2>2, <2>4 DEF Nic, BeforePorts, AfterPorts, AfterQueues, HasOptions
<1>6. Running' /\ WellFormedRuns'
  BY <1>1, <1>2, RunningKept DEF WellFormedRuns
<1> QED
  BY <1>1, <1>2, <1>3, <1>4, <1>5, <1>6, OtherKept DEF Inv, WithOptions

(* lthread: with a list that is matched, the queues of a thread are those  *)
(* of the port and have a pool.                                            *)
LEMMA GoodThread ==
  ASSUME setup \in Setups, opts \in OptsType, HasOptions, rx_thread = RxThreads(opts.rx),
         ConfiguredTo(setup.nports),
         NEW n \in Nat \ {0}, NEW p, Good(opts.rx, opts.tx, opts.mask \cap Ports, n, p),
         NEW t \in 0 .. n - 1
  PROVE  /\ rx_thread[t].lcore \in setup.lcores
         /\ \A i \in DOMAIN rx_thread[t].queues :
              ~NotConfigured(rx_thread[t].queues[i]) /\ ~NoPool(rx_thread[t].queues[i])
<1>1. /\ NRx = n /\ pools = 0 .. n - 1
      /\ nq = [q \in Ports |-> IF q = p THEN n ELSE 0]
  BY GoodNic
<1>2. p \in Ports /\ Matched(opts.rx, n, p)
  BY DEF Good
<1>3. PICK i \in DOMAIN opts.rx : opts.rx[i].thread = t
  BY <1>2 DEF Matched
<1>4. Takes(i, p)
  BY <1>2, GoodTables
<1>5. opts.rx[i].lcore \in setup.lcores /\ opts.rx[i].queue \in 0 .. n - 1
  BY <1>2 DEF Matched
<1>6. ASSUME NEW k \in DOMAIN rx_thread[t].queues
      PROVE  ~NotConfigured(rx_thread[t].queues[k]) /\ ~NoPool(rx_thread[t].queues[k])
  <2>1. PICK q : q = rx_thread[t].queues[k]
    OBVIOUS
  <2>2. q = <<p, opts.rx[i].queue>>
    BY <1>3, <1>4, <2>1 DEF Takes
  <2>3. q[1] = p /\ q[2] \in 0 .. n - 1
    BY <1>5, <2>2
  <2>4. nq[p] = n
    BY <1>1, <1>2
  <2>5. ~(q[2] >= n)
    BY <2>3
  <2> QED
    BY <1>1, <1>2, <2>1, <2>3, <2>4, <2>5 DEF NotConfigured, NoPool
<1> QED
  BY <1>3, <1>4, <1>5, <1>6 DEF Takes

(* What has been made of the list, from the queues of the ports on.        *)
LEMMA AtPorts ==
  ASSUME Inv, HasOptions, pc \in AfterPorts
  PROVE  /\ setup \in Setups /\ opts \in OptsType /\ pc \in FromPorts /\ pc \in FromCheck
         /\ rx_thread = RxThreads(opts.rx) /\ tx_thread = TxThreads(opts.tx)
         /\ rings = [t \in DOMAIN rx_thread |-> RingsOf(opts.tx, t)]
         /\ ~TooManyQueues(opts.rx, MaxQueues)
         /\ setup.version = "lthread" => ListChecked
         /\ ConfiguredTo(setup.nports) /\ NRx \in Nat
<1>1. /\ setup \in Setups /\ opts \in OptsType /\ Threads /\ Nic
  BY DEF Inv, Base, WithOptions
<1>2. pc \in FromPorts /\ pc \in FromRings /\ pc \in FromTx /\ pc \in FromRx /\ pc \in FromCheck
  BY DEF AfterPorts, FromCheck, FromRx, FromTx, FromRings, FromPorts
<1>3. /\ rx_thread = RxThreads(opts.rx) /\ tx_thread = TxThreads(opts.tx)
      /\ rings = [t \in DOMAIN rx_thread |-> RingsOf(opts.tx, t)]
      /\ ~TooManyQueues(opts.rx, MaxQueues)
      /\ setup.version = "lthread" => ListChecked
  BY <1>1, <1>2 DEF Threads
<1>4. NRx \in Nat
  BY <1>1, <1>3, RxTable
<1> QED
  BY <1>1, <1>2, <1>3, <1>4 DEF Nic

(* The ports stay configured.                                              *)
LEMMA AllConfiguredKept ==
  ASSUME ConfiguredTo(setup.nports), UNCHANGED <<given, tables, nq, pools>>
  PROVE  ConfiguredTo(setup.nports)'
<1>1. setup' = setup /\ UNCHANGED <<given, rx_thread, nq, pools>>
  BY DEF given, tables
<1>2. PICK k : k = setup.nports
  OBVIOUS
<1>3. ConfiguredTo(k)' <=> ConfiguredTo(k)
  BY <1>1, ConfiguredSame
<1> QED
  BY <1>1, <1>2, <1>3

(* The next thread: its queues are set up, unless one of them is wrong.    *)
LEMMA setup_queuesKeeps == Inv /\ setup_queues => Inv'
<1> SUFFICES ASSUME Inv, setup_queues PROVE Inv'
  OBVIOUS
<1> DEFINE qs == rx_thread[next].queues
           wrong == {i \in DOMAIN qs : NotConfigured(qs[i]) \/ NoPool(qs[i])}
<1>1. /\ pc = "queues" /\ next < NRx
      /\ UNCHANGED <<given, tables, pools, nq, runs, failed>>
      /\ UNCHANGED given /\ setup' = setup /\ rx_thread' = rx_thread
      /\ nq' = nq /\ pools' = pools /\ runs' = runs /\ failed' = failed
      /\ \/ rx_thread[next].lcore \notin setup.lcores /\ pc' = "exit" /\ next' = next
         \/ /\ rx_thread[next].lcore \in setup.lcores /\ wrong = {}
            /\ next' = next + 1 /\ pc' = pc
            /\ up' = up \cup {qs[i] : i \in DOMAIN qs}
         \/ wrong # {} /\ pc' \in {"exit", "fault"} /\ next' = next
  BY DEF setup_queues, given, tables
<1>2. /\ Base /\ HasOptions /\ Nic /\ Running /\ pc \in AfterPorts
      /\ setup.version = "lthread"
  BY <1>1, StageHas DEF Inv, Base, WithOptions, AfterPorts
<1>3. /\ setup \in Setups /\ opts \in OptsType /\ pc \in FromPorts /\ pc \in FromCheck
      /\ rx_thread = RxThreads(opts.rx) /\ ConfiguredTo(setup.nports) /\ NRx \in Nat
  BY <1>2, AtPorts
<1>4. PICK t \in 0 .. NRx - 1 : t = next /\ \A u \in 0 .. t - 1 : SetUp(u)
  BY <1>1, <1>2, <1>3 DEF Nic
<1>5. CASE /\ rx_thread[next].lcore \in setup.lcores /\ wrong = {}
           /\ next' = next + 1 /\ pc' = pc
           /\ up' = up \cup {qs[i] : i \in DOMAIN qs}
  <2>1. next' = t + 1 /\ next' \in 0 .. NRx /\ next' \in Nat
    BY <1>3, <1>4, <1>5
  <2>2. Base'
    <3>1. pc' \in Stages
      BY <1>2, <1>5 DEF Base
    <3> QED
      BY <1>1, <1>2, <2>1, <3>1, StepBase
  <2>3. Options' /\ Threads'
    BY <1>1, <1>2, <1>3, <1>5, TablesKept
  <2>4. ConfiguredTo(setup.nports)'
    BY <1>1, <1>3, AllConfiguredKept
  <2>5. SetUp(t)'
    <3>1. /\ rx_thread[t].lcore \in setup.lcores
          /\ \A i \in DOMAIN rx_thread[t].queues :
               LET q == rx_thread[t].queues[i]
               IN  ~NotConfigured(q) /\ ~NoPool(q) /\ q \in up'
      BY <1>4, <1>5
    <3>2. Ports' = Ports
      BY <1>1, SetupSame
    <3> QED
      BY <1>1, <3>1, <3>2 DEF SetUp, NotConfigured, NoPool
  <2>6. \A u \in 0 .. t - 1 : SetUp(u)'
    <3>1. UNCHANGED <<given, rx_thread, nq, pools>> /\ up \subseteq up'
      BY <1>1, <1>5
    <3> QED
      BY <1>4, <3>1, SetUpSame
  <2>7. \A u \in 0 .. next' - 1 : SetUp(u)'
    <3>1. 0 .. next' - 1 = (0 .. t - 1) \cup {t}
      BY <1>3, <1>4, <2>1
    <3> QED
      BY <2>5, <2>6, <3>1
  <2>8. Nic'
    <3>1. NRx' = NRx
      BY <1>1, TablesSame
    <3> QED
      BY <1>1, <1>5, <2>1, <2>4, <2>7, <3>1 DEF Nic, BeforePorts, AfterPorts, AfterQueues
  <2>9. Running' /\ WellFormedRuns'
    BY <1>1, <1>2, <1>5, RunningKept DEF WellFormedRuns
  <2> QED
    BY <1>1, <1>2, <2>2, <2>3, <2>8, <2>9, OtherKept DEF Inv, WithOptions
<1>6. CASE \/ rx_thread[next].lcore \notin setup.lcores /\ pc' = "exit" /\ next' = next
           \/ wrong # {} /\ pc' \in {"exit", "fault"} /\ next' = next
  <2>1. ~WellFormed
    <3>1. SUFFICES ASSUME WellFormed PROVE FALSE
      OBVIOUS
    <3>2. PICK n \in Nat \ {0}, p \in Ports :
            Good(opts.rx, opts.tx, opts.mask \cap Ports, n, p)
      BY <1>2, <1>3, <3>1, GoodList
    <3>3. NRx = n
      BY <1>2, <1>3, <3>2, GoodNic
    <3>4. /\ rx_thread[t].lcore \in setup.lcores
          /\ \A i \in DOMAIN rx_thread[t].queues :
               ~NotConfigured(rx_thread[t].queues[i]) /\ ~NoPool(rx_thread[t].queues[i])
      BY <1>2, <1>3, <1>4, <3>2, <3>3, GoodThread
    <3> QED
      BY <1>4, <1>6, <3>4
  <2> QED
    BY <1>1, <1>2, <1>6, <2>1, StopIll
<1> QED
  BY <1>1, <1>5, <1>6

(* Once the queues are set up, only what the lcores run changes.           *)
LEMMA LaunchKept ==
  ASSUME Inv, HasOptions, pc \in AfterPorts, pc' \in AfterQueues, pc' \in Stages,
         UNCHANGED <<given, tables, nic, failed>>, DOMAIN runs' = Slaves, Running',
         setup.version = "lthread" => \A t \in 0 .. NRx - 1 : SetUp(t)
  PROVE  Inv'
<1>1. /\ UNCHANGED given /\ setup' = setup /\ rx_thread' = rx_thread
      /\ next' = next /\ nq' = nq /\ pools' = pools /\ up' = up /\ failed' = failed
  BY DEF given, tables, nic
<1>2. /\ Base /\ setup \in Setups /\ pc \in FromPorts /\ pc' \in FromPorts
      /\ ConfiguredTo(setup.nports)
  BY AtPorts DEF Inv, Base, AfterQueues, FromPorts
<1>3. Base'
  <2>1. next' \in Nat /\ failed' \in BOOLEAN
    BY <1>1, <1>2 DEF Base
  <2> QED
    BY <1>1, <1>2, <2>1, BaseKept
<1>4. Options' /\ Threads'
  BY <1>2, TablesKept
<1>5. Nic'
  <2>1. ConfiguredTo(setup.nports)'
    BY <1>1, <1>2, AllConfiguredKept
  <2>2. setup.version = "lthread" => \A t \in 0 .. NRx - 1 : SetUp(t)'
    <3>1. UNCHANGED <<given, rx_thread, nq, pools>> /\ up \subseteq up'
      BY <1>1
    <3> QED
      BY <3>1, SetUpSame
  <2>3. NRx' = NRx
    BY <1>1, TablesSame
  <2> QED
    BY <1>1, <2>1, <2>2, <2>3 DEF Nic, BeforePorts, AfterPorts, AfterQueues
<1>6. WellFormedRuns'
  BY DEF WellFormedRuns, AfterQueues
<1> QED
  BY <1>1, <1>3, <1>4, <1>5, <1>6, OtherKept DEF Inv, WithOptions

(* All the queues are set up.                                              *)
LEMMA QueuesReadyKeeps == Inv /\ QueuesReady => Inv'
<1> SUFFICES ASSUME Inv, QueuesReady PROVE Inv'
  OBVIOUS
<1>1. /\ pc = "queues" /\ next = NRx /\ pc' = "start"
      /\ UNCHANGED <<given, tables, nic, runs, failed>>
      /\ UNCHANGED <<given, tables, nic, failed>> /\ setup' = setup /\ runs' = runs
  BY DEF QueuesReady, given
<1>2. /\ HasOptions /\ Nic /\ Running /\ Base /\ setup.version = "lthread"
  BY <1>1, StageHas DEF Inv, Base, WithOptions
<1>3. \A t \in 0 .. NRx - 1 : SetUp(t)
  BY <1>1, <1>2 DEF Nic
<1>4. pc' \in Stages /\ DOMAIN runs' = Slaves
  BY <1>1, <1>2 DEF Stages, FromPorts, Base
<1>5. Running'
  BY <1>1, <1>2, RunningKept
<1> QED
  BY <1>1, <1>2, <1>3, <1>4, <1>5, LaunchKept DEF AfterPorts, AfterQueues

(* The ports start: with a list that is matched every queue is set up.     *)
LEMMA start_portsKeeps == Inv /\ start_ports => Inv'
<1> SUFFICES ASSUME Inv, start_ports PROVE Inv'
  OBVIOUS
<1>1. /\ pc = "start"
      /\ \/ pc' = "launch"
         \/ /\ pc' = "fault"
            /\ \E p \in Ports : \E q \in 0 .. nq[p] - 1 : <<p, q>> \notin up
      /\ UNCHANGED <<given, tables, nic, runs, failed>>
      /\ UNCHANGED given /\ setup' = setup /\ runs' = runs /\ next' = next /\ failed' = failed
  BY DEF start_ports, given, nic
<1>2. /\ HasOptions /\ Nic /\ Running /\ Base /\ setup.version = "lthread"
      /\ pc \in AfterPorts
  BY <1>1, StageHas DEF Inv, Base, WithOptions, AfterPorts
<1>3. \A t \in 0 .. NRx - 1 : SetUp(t)
  BY <1>1, <1>2 DEF Nic, AfterQueues
<1>4. CASE pc' = "launch"
  <2>1. pc' \in Stages /\ DOMAIN runs' = Slaves
    BY <1>1, <1>2, <1>4 DEF Stages, FromPorts, Base
  <2>2. Running'
    BY <1>1, <1>2, RunningKept
  <2> QED
    BY <1>1, <1>2, <1>3, <1>4, <2>1, <2>2, LaunchKept DEF AfterQueues
<1>5. CASE /\ pc' = "fault"
           /\ \E p \in Ports : \E q \in 0 .. nq[p] - 1 : <<p, q>> \notin up
  <2>1. ~WellFormed
    <3>1. SUFFICES ASSUME WellFormed PROVE FALSE
      OBVIOUS
    <3>2. /\ setup \in Setups /\ opts \in OptsType /\ pc \in FromCheck
          /\ rx_thread = RxThreads(opts.rx) /\ ConfiguredTo(setup.nports)
      BY <1>2, AtPorts
    <3>3. PICK n \in Nat \ {0}, p \in Ports :
            /\ Good(opts.rx, opts.tx, opts.mask \cap Ports, n, p)
            /\ Matched(opts.rx, n, p)
      BY <1>2, <3>1, <3>2, GoodList
    <3>4. NRx = n /\ nq = [q \in Ports |-> IF q = p THEN n ELSE 0]
      BY <1>2, <3>2, <3>3, GoodNic
    <3>5. PICK r \in Ports, q \in Nat : q \in 0 .. nq[r] - 1 /\ <<r, q>> \notin up
      BY <1>5
    <3>6. r = p /\ q \in 0 .. n - 1
      <4>1. nq[r] = IF r = p THEN n ELSE 0
        BY <3>4
      <4>2. 0 .. 0 - 1 = {}
        OBVIOUS
      <4> QED
        BY <3>5, <4>1, <4>2
    <3>7. PICK i \in DOMAIN opts.rx : opts.rx[i].queue = q
      BY <3>3, <3>6 DEF Matched
    <3>8. PICK t \in 0 .. n - 1 : t = opts.rx[i].thread
      BY <3>3 DEF Matched
    <3>9. IsThread(rx_thread[t], opts.rx, t)
      BY <3>2, <3>4, RxTable
    <3>10. PICK k \in DOMAIN rx_thread[t].queues :
             rx_thread[t].queues[k] = <<opts.rx[i].port, opts.rx[i].queue>>
      BY <3>8, <3>9 DEF IsThread
    <3>11. SetUp(t)
      BY <1>3, <3>4
    <3>12. rx_thread[t].queues[k] \in up
      BY <3>10, <3>11 DEF SetUp
    <3>13. opts.rx[i].port = p
      BY <3>3 DEF Matched
    <3> QED
      BY <3>5, <3>6, <3>7, <3>10, <3>12, <3>13
  <2> QED
    BY <1>1, <1>2, <1>5, <2>1, StopIll
<1> QED
  BY <1>1, <1>4, <1>5

(* The lcores are launched.                                                *)
LEMMA launch_allKeeps == Inv /\ launch_all => Inv'
<1> SUFFICES ASSUME Inv, launch_all PROVE Inv'
  OBVIOUS
<1>1. /\ pc = "launch" /\ HasOptions /\ pc' = "running"
      /\ UNCHANGED <<given, tables, nic, failed>> /\ setup' = setup /\ runs' = runs
  BY DEF launch_all, given
<1>2. /\ Nic /\ Running /\ Base
  BY <1>1 DEF Inv, WithOptions
<1>3. setup.version = "lthread" => \A t \in 0 .. NRx - 1 : SetUp(t)
  BY <1>1, <1>2 DEF Nic, AfterQueues
<1>4. pc' \in Stages /\ DOMAIN runs' = Slaves
  BY <1>1, <1>2 DEF Stages, FromPorts, Base
<1>5. Running'
  BY <1>1, <1>2, RunningKept
<1> QED
  BY <1>1, <1>3, <1>4, <1>5, LaunchKept DEF AfterPorts, AfterQueues

(* One of them starts its function.                                        *)
LEMMA StartLcoreKeeps == \A l \in Slaves : Inv /\ StartLcore(l) => Inv'
<1> SUFFICES ASSUME NEW l \in Slaves, Inv, StartLcore(l) PROVE Inv'
  OBVIOUS
<1>1. /\ pc = "running" /\ HasOptions /\ pc' = "running"
      /\ UNCHANGED <<given, tables, nic, failed>> /\ setup' = setup
      /\ rx_thread' = rx_thread /\ tx_thread' = tx_thread
      /\ runs' = [runs EXCEPT ![l] = Started(l)]
  BY DEF StartLcore, Started, given, tables
<1>2. /\ Nic /\ Running /\ Base /\ DOMAIN runs = Slaves
  BY <1>1 DEF Inv, WithOptions, Base
<1>3. setup.version = "lthread" => \A t \in 0 .. NRx - 1 : SetUp(t)
  BY <1>1, <1>2 DEF Nic, AfterQueues
<1>4. pc' \in Stages /\ DOMAIN runs' = Slaves
  BY <1>1, <1>2 DEF Base
<1>5. Running'
  <2>1. Slaves' = Slaves /\ \A m : Started(m)' = Started(m)
    BY <1>1, SetupSame, StartedSame
  <2> QED
    BY <1>1, <1>2, <2>1 DEF Running
<1> QED
  BY <1>1, <1>3, <1>4, <1>5, LaunchKept DEF AfterPorts, AfterQueues

-----------------------------------------------------------------------------
(* The steps of a program without options.                                 *)

(* The parts that are left when the ports or the lcores change.            *)
LEMMA NoOptionsKept ==
  ASSUME Inv, ~HasOptions, UNCHANGED <<given, failed>>, next' \in Nat, pc' \in Stages,
         DOMAIN runs' = Slaves, WithoutOptions', pc' # "exit" \/ ~WellFormed
  PROVE  Inv'
<1>1. setup' = setup /\ failed' \in BOOLEAN /\ UNCHANGED given
  BY DEF given, Inv, Base
<1>2. Base'
  BY <1>1, BaseKept DEF Inv
<1>3. pc' # "fault"
  BY DEF Stages
<1>4. WellFormedRuns'
  BY <1>1, <1>3, WellFormedSame DEF WellFormedRuns
<1> QED
  BY <1>1, <1>2, <1>4, OtherKept DEF Inv

(* The queues taken stay so.                                               *)
LEMMA TakenKept ==
  ASSUME QueuesTaken, UNCHANGED <<setup, next, runs>>
  PROVE  QueuesTaken' /\ Launched' = Launched
<1>1. Launched' = Launched
  BY SetupSame DEF Launched
<1> QED
  BY <1>1 DEF QueuesTaken

(* Without options the program starts with its port.                       *)
LEMMA EalInitPort == Inv /\ EalInit /\ ~HasOptions => Inv'
<1> SUFFICES ASSUME Inv, EalInit, ~HasOptions PROVE Inv'
  OBVIOUS
<1>1. /\ pc = "eal" /\ pc' = "port_init" /\ UNCHANGED <<given, failed>>
      /\ setup' = setup /\ next' = next /\ nq' = nq /\ runs' = runs
  BY DEF EalInit, given
<1>2. /\ Base /\ QueuesTaken /\ next = 0 /\ nq = [p \in Ports |-> 0]
      /\ next' \in Nat /\ DOMAIN runs' = Slaves
  BY <1>1 DEF Inv, Base, WithoutOptions
<1>3. pc' \in Stages
  BY <1>1 DEF Stages
<1>4. WithoutOptions'
  <2>1. QueuesTaken' /\ Ports' = Ports
    BY <1>1, <1>2, TakenKept, SetupSame
  <2> QED
    BY <1>1, <1>2, <2>1 DEF WithoutOptions
<1> QED
  BY <1>1, <1>2, <1>3, <1>4, NoOptionsKept

(* Port 0 gets its queues, if there is one.                                *)
LEMMA port_initKeeps == Inv /\ port_init => Inv'
<1> SUFFICES ASSUME Inv, port_init PROVE Inv'
  OBVIOUS
<1> DEFINE R == RxRings[setup.version]
<1>1. /\ pc = "port_init" /\ UNCHANGED <<given, failed>>
      /\ setup' = setup /\ next' = next /\ runs' = runs
      /\ \/ 0 \notin Ports /\ pc' = "exit"
         \/ 0 \in Ports /\ pc' = "launch" /\ nq' = [nq EXCEPT ![0] = R]
  BY DEF port_init, given
<1>2. /\ Base /\ setup \in Setups /\ ~HasOptions /\ QueuesTaken
      /\ next = 0 /\ nq = [p \in Ports |-> 0]
      /\ next' \in Nat /\ DOMAIN runs' = Slaves
  BY <1>1, StageHas DEF Inv, Base, WithoutOptions
<1>3. pc' \in Stages
  BY <1>1, <1>2 DEF Stages
<1>4. R \in Nat \ {0}
  BY <1>2, SetupTypes DEF HasOptions
<1>5. QueuesTaken' /\ Ports' = Ports
  BY <1>1, <1>2, TakenKept, SetupSame
<1>6. CASE 0 \notin Ports /\ pc' = "exit"
  <2>1. WithoutOptions'
    BY <1>5, <1>6 DEF WithoutOptions
  <2>2. ~WellFormed
    BY <1>2, <1>6 DEF WellFormed
  <2> QED
    BY <1>1, <1>2, <1>3, <2>1, <2>2, NoOptionsKept
<1>7. CASE 0 \in Ports /\ pc' = "launch" /\ nq' = [nq EXCEPT ![0] = R]
  <2>1. nq' = [p \in Ports |-> IF p = 0 THEN R ELSE 0]
    BY <1>2, <1>7
  <2>2. next' < R
    BY <1>1, <1>2, <1>4
  <2>3. WithoutOptions'
    BY <1>1, <1>5, <1>7, <2>1, <2>2 DEF WithoutOptions
  <2> QED
    BY <1>1, <1>2, <1>3, <1>7, <2>3, NoOptionsKept
<1> QED
  BY <1>1, <1>6, <1>7

(* A lcore gets the next queue.                                            *)
LEMMA LaunchOne ==
  ASSUME QueuesTaken, IsFiniteSet(Slaves), next \in Nat, NEW m \in Slaves,
         runs[m] = <<"wait">>, DOMAIN runs = Slaves, setup' = setup,
         runs' = [runs EXCEPT ![m] = <<"rx", next>>], next' = next + 1
  PROVE  QueuesTaken'
<1>1. PICK k \in Nat : k = next
  OBVIOUS
<1>2. Slaves' = Slaves /\ next' = k + 1
  BY <1>1, SetupSame
<1>3. PICK L : L = Launched /\ m \notin L /\ L \subseteq Slaves
  <2>1. m \notin Launched /\ Launched \subseteq Slaves
    BY DEF Launched
  <2> QED
    BY <2>1
<1>4. PICK w : w = <<"rx", k>> /\ w # <<"wait">>
  <2>1. <<"rx", k>>[1] = "rx" /\ <<"wait">>[1] = "wait"
    OBVIOUS
  <2>2. <<"rx", k>> # <<"wait">>
    BY <2>1
  <2> QED
    BY <2>2
<1>5. /\ runs'[m] = w /\ DOMAIN runs' = Slaves
      /\ \A l \in Slaves \ {m} : runs'[l] = runs[l]
  BY <1>1, <1>4
<1>6. Launched' = L \cup {m}
  BY <1>2, <1>3, <1>4, <1>5 DEF Launched
<1>7. /\ Cardinality(L) = k
      /\ \A l \in L : \E j \in 0 .. k - 1 : runs[l] = <<"rx", j>>
      /\ \A j \in 0 .. k - 1 : \E l \in L : runs[l] = <<"rx", j>>
      /\ \A l, n \in L : runs[l] = runs[n] => l = n
  BY <1>1, <1>3 DEF QueuesTaken
<1>8. Cardinality(L \cup {m}) = k + 1
  BY <1>3, <1>7, FS_Subset, FS_AddElement
<1>9. (k + 1) - 1 = k /\ \A j \in 0 .. k : j \in 0 .. k - 1 \/ j = k
  OBVIOUS
<1>10. \A l \in L : runs'[l] = runs[l] /\ l # m
  BY <1>3, <1>5
<1>11. \A l \in L : runs[l] # w
  <2>1. SUFFICES ASSUME NEW l \in L, runs[l] = w PROVE FALSE
    OBVIOUS
  <2>2. PICK j \in 0 .. k - 1 : runs[l] = <<"rx", j>>
    BY <1>7
  <2>3. <<"rx", j>>[2] = <<"rx", k>>[2]
    BY <1>4, <2>1, <2>2
  <2> QED
    BY <2>3
<1>12. ASSUME NEW l \in L \cup {m} PROVE \E j \in 0 .. k : runs'[l] = <<"rx", j>>
  <2>1. CASE l = m
    BY <1>4, <1>5, <2>1
  <2>2. CASE l \in L
    BY <1>7, <1>10, <2>2
  <2> QED
    BY <2>1, <2>2
<1>13. ASSUME NEW j \in 0 .. k PROVE \E l \in L \cup {m} : runs'[l] = <<"rx", j>>
  <2>1. CASE j = k
    BY <1>4, <1>5, <2>1
  <2>2. CASE j \in 0 .. k - 1
    BY <1>7, <1>10, <2>2
  <2> QED
    BY <1>9, <2>1, <2>2
<1>14. \A l, n \in L \cup {m} : runs'[l] = runs'[n] => l = n
  BY <1>5, <1>7, <1>10, <1>11
<1> QED
  BY <1>2, <1>6, <1>8, <1>9, <1>12, <1>13, <1>14 DEF QueuesTaken

(* The launch goes on until there is no queue or no lcore left.            *)
LEMMA launch_nextKeeps == Inv /\ launch_next => Inv'
<1> SUFFICES ASSUME Inv, launch_next PROVE Inv'
  OBVIOUS
<1> DEFINE R == RxRings[setup.version]
           free == {l \in Slaves : runs[l] = <<"wait">>}
<1>1. /\ pc = "launch" /\ ~HasOptions /\ UNCHANGED <<given, failed>>
      /\ setup' = setup /\ nq' = nq
      /\ \/ free = {} /\ pc' = "running" /\ next' = next /\ runs' = runs
         \/ /\ free # {} /\ next' = next + 1
            /\ runs' = [runs EXCEPT ![Min(free)] = <<"rx", next>>]
            /\ pc' = IF next = R - 1 THEN "running" ELSE "launch"
  BY DEF launch_next, given
<1>2. /\ Base /\ setup \in Setups /\ QueuesTaken /\ next \in Nat /\ DOMAIN runs = Slaves
      /\ next < R /\ 0 \in Ports /\ nq = [p \in Ports |-> IF p = 0 THEN R ELSE 0]
  BY <1>1 DEF Inv, Base, WithoutOptions
<1>3. R \in Nat /\ Slaves \subseteq Nat /\ IsFiniteSet(Slaves)
  BY <1>1, <1>2, SetupTypes DEF HasOptions
<1>4. pc' \in Stages /\ pc' # "exit"
  BY <1>1 DEF Stages
<1>5. Ports' = Ports /\ Slaves' = Slaves
  BY <1>1, SetupSame
<1>6. CASE free = {} /\ pc' = "running" /\ next' = next /\ runs' = runs
  <2>1. QueuesTaken' /\ Launched' = Launched
    BY <1>1, <1>2, <1>6, TakenKept
  <2>2. Launched = Slaves
    BY <1>6 DEF Launched
  <2>3. WithoutOptions'
    BY <1>1, <1>2, <1>5, <1>6, <2>1, <2>2 DEF WithoutOptions
  <2> QED
    BY <1>1, <1>2, <1>4, <1>6, <2>3, NoOptionsKept
<1>7. CASE /\ free # {} /\ next' = next + 1
           /\ runs' = [runs EXCEPT ![Min(free)] = <<"rx", next>>]
           /\ pc' = IF next = R - 1 THEN "running" ELSE "launch"
  <2>1. PICK m \in free : m = Min(free)
    <3>1. free \in SUBSET Nat
      BY <1>3
    <3> HIDE DEF free
    <3>2. \E x \in free : \A y \in free : x <= y
      BY <1>7, <3>1, LeastNumber
    <3> QED
      BY <3>2 DEF Min
  <2>2. m \in Slaves /\ runs[m] = <<"wait">>
    OBVIOUS
  <2>3. runs' = [runs EXCEPT ![m] = <<"rx", next>>]
    BY <1>7, <2>1
  <2>4. QueuesTaken'
    BY <1>1, <1>2, <1>3, <1>7, <2>2, <2>3, LaunchOne
  <2>5. next' \in Nat /\ DOMAIN runs' = Slaves
    BY <1>2, <1>7, <2>3
  <2>6. \/ pc' = "running" /\ next' = R
        \/ pc' = "launch" /\ next' < R
    BY <1>2, <1>3, <1>7
  <2>7. WithoutOptions'
    BY <1>1, <1>2, <1>5, <2>4, <2>6 DEF WithoutOptions
  <2> QED
    BY <1>1, <1>4, <2>5, <2>7, NoOptionsKept
<1> QED
  BY <1>1, <1>6, <1>7

-----------------------------------------------------------------------------
(* Every step keeps the invariant.                                         *)
LEMMA StepInv == Inv /\ [Next]_vars => Inv'
<1> SUFFICES ASSUME Inv, [Next]_vars PROVE Inv'
  OBVIOUS
<1>1. CASE EalInit
  BY <1>1, EalInitKeeps, EalInitPort
<1>2. CASE LibraryFails
  BY <1>2, LibraryFailsKeeps
<1>3. CASE parse_args
  BY <1>3, parse_argsKeeps
<1>4. CASE check_lcore_params
  BY <1>4, check_lcore_paramsKeeps
<1>5. CASE init_rx_queues
  BY <1>5, init_rx_queuesKeeps
<1>6. CASE init_tx_threads
  BY <1>6, init_tx_threadsKeeps
<1>7. CASE init_rx_rings
  BY <1>7, init_rx_ringsKeeps
<1>8. CASE init_port
  BY <1>8, init_portKeeps
<1>9. CASE PortsReady
  BY <1>9, PortsReadyKeeps
<1>10. CASE setup_queues
  BY <1>10, setup_queuesKeeps
<1>11. CASE QueuesReady
  BY <1>11, QueuesReadyKeeps
<1>12. CASE start_ports
  BY <1>12, start_portsKeeps
<1>13. CASE port_init
  BY <1>13, port_initKeeps
<1>14. CASE launch_all
  BY <1>14, launch_allKeeps
<1>15. CASE launch_next
  BY <1>15, launch_nextKeeps
<1>16. ASSUME NEW l \in Slaves, StartLcore(l) PROVE Inv'
  BY <1>16, StartLcoreKeeps
<1>17. CASE UNCHANGED vars
  <2>1. /\ UNCHANGED given /\ setup' = setup /\ pos' = pos /\ opts' = opts
        /\ UNCHANGED <<given, tables>> /\ UNCHANGED <<setup, rx_thread, tx_thread>>
        /\ rx_thread' = rx_thread /\ tx_thread' = tx_thread /\ rings' = rings
        /\ next' = next /\ pools' = pools /\ nq' = nq /\ up' = up
        /\ runs' = runs /\ pc' = pc /\ failed' = failed
    BY <1>17 DEF vars, given, tables, nic
  <2>2. /\ N' = N /\ Ports' = Ports /\ Slaves' = Slaves /\ Stages' = Stages
        /\ HasOptions' <=> HasOptions
    BY <2>1, SetupSame
  <2>3. NRx' = NRx /\ \A k : ConfiguredTo(k)' <=> ConfiguredTo(k)
    BY <2>1, TablesSame, ConfiguredSame
  <2>4. Base'
    BY <2>1, BaseKept DEF Inv, Base
  <2>5. ASSUME HasOptions PROVE Options' /\ Threads' /\ Nic' /\ Running'
    <3>1. Options /\ Threads /\ Nic /\ Running
      BY <2>5 DEF Inv, WithOptions
    <3>2. Options'
      BY <2>1, <3>1, OptionsKept
    <3>3. Threads'
      BY <2>1, <3>1, ThreadsKept
    <3>4. \A t : SetUp(t) => SetUp(t)'
      BY <2>1, SetUpSame
    <3>5. Nic'
      <4>1. ConfiguredTo(next)' <=> ConfiguredTo(next)
        BY <2>1, <2>3
      <4>2. ConfiguredTo(setup.nports)' <=> ConfiguredTo(setup.nports)
        BY <2>1, <2>3
      <4>3. ConfiguredTo(0)' <=> ConfiguredTo(0)
        BY <2>3
      <4> QED
        BY <2>1, <2>3, <3>1, <3>4, <4>1, <4>2, <4>3
           DEF Nic, BeforePorts, AfterPorts, AfterQueues
    <3>6. Running'
      <4>1. \A l : Started(l)' = Started(l)
        BY <2>1, StartedSame
      <4> QED
        BY <2>1, <2>2, <3>1, <4>1 DEF Running
    <3> QED
      BY <3>2, <3>3, <3>5, <3>6
  <2>6. ASSUME ~HasOptions PROVE WithoutOptions'
    <3>1. WithoutOptions /\ QueuesTaken
      BY <2>6 DEF Inv, WithoutOptions
    <3>2. QueuesTaken' /\ Launched' = Launched
      BY <2>1, <3>1, TakenKept
    <3> QED
      BY <2>1, <2>2, <2>6, <3>1, <3>2 DEF WithoutOptions
  <2>7. WellFormedRuns'
    BY <2>1, <2>3, WellFormedSame DEF Inv, WellFormedRuns
  <2> QED
    BY <2>1, <2>4, <2>5, <2>6, <2>7, OtherKept DEF Inv, WithOptions
<1> QED
  BY <1>1, <1>2, <1>3, <1>4, <1>5, <1>6, <1>7, <1>8, <1>9, <1>10, <1>11, <1>12,
     <1>13, <1>14, <1>15, <1>16, <1>17 DEF Next

(* The invariant holds in every state.                                     *)
THEOREM Invariant == Spec => []Inv
<1>1. Init => Inv
  BY InitInv
<1>2. Inv /\ [Next]_vars => Inv'
  BY StepInv
<1> QED
  BY <1>1, <1>2, PTL DEF Spec

(* WellFormedRuns, for any command line: one that follows the rules only   *)
(* ends main if a library call fails, and does not crash it unless it has  *)
(* more rx threads than pktmbuf_pool has entries.                          *)
THEOREM RulesRun == Spec => []WellFormedRuns
<1>1. Inv => WellFormedRuns
  BY DEF Inv
<1> QED
  BY <1>1, Invariant, PTL

-----------------------------------------------------------------------------
(* Who polls a queue.                                                      *)

(* A lcore of pthread runs an rx thread of its own, else a tx thread.      *)
RunOf(l) ==
  \/ \E t \in DOMAIN rx_thread : pthread_run(l) = <<"rx", t>> /\ rx_thread[t].lcore = l
  \/ /\ \A t \in DOMAIN rx_thread : rx_thread[t].lcore # l
     /\ \/ \E i \in DOMAIN tx_thread : pthread_run(l) = <<"tx", i>> /\ tx_thread[i].lcore = l
        \/ /\ \A i \in DOMAIN tx_thread : tx_thread[i].lcore # l
           /\ pthread_run(l) = <<"idle">>

(* What pthread_run finds.                                                 *)
LEMMA RunIs ==
  ASSUME DOMAIN rx_thread \subseteq Nat, DOMAIN tx_thread \subseteq Nat
  PROVE  \A l : RunOf(l)
<1> SUFFICES ASSUME NEW l PROVE RunOf(l)
  OBVIOUS
<1>1. PICK rx, tx : /\ rx = {i \in DOMAIN rx_thread : rx_thread[i].lcore = l}
                    /\ tx = {i \in DOMAIN tx_thread : tx_thread[i].lcore = l}
  OBVIOUS
<1>2. pthread_run(l) = IF rx # {} THEN <<"rx", Min(rx)>>
                       ELSE IF tx # {} THEN <<"tx", Min(tx)>> ELSE <<"idle">>
  BY <1>1 DEF pthread_run
<1>3. \A S \in SUBSET Nat : S # {} => Min(S) \in S
  BY LeastNumber DEF Min
<1>4. rx \in SUBSET Nat /\ tx \in SUBSET Nat
  BY <1>1
<1>5. CASE rx # {}
  <2>1. Min(rx) \in rx
    BY <1>3, <1>4, <1>5
  <2>2. PICK t \in DOMAIN rx_thread : t = Min(rx) /\ rx_thread[t].lcore = l
    BY <1>1, <2>1
  <2> QED
    BY <1>2, <1>5, <2>2 DEF RunOf
<1>6. CASE rx = {} /\ tx # {}
  <2>1. Min(tx) \in tx
    BY <1>3, <1>4, <1>6
  <2>2. PICK i \in DOMAIN tx_thread : i = Min(tx) /\ tx_thread[i].lcore = l
    BY <1>1, <2>1
  <2>3. \A t \in DOMAIN rx_thread : rx_thread[t].lcore # l
    BY <1>1, <1>6
  <2> QED
    BY <1>2, <1>6, <2>2, <2>3 DEF RunOf
<1>7. CASE rx = {} /\ tx = {}
  BY <1>1, <1>2, <1>7 DEF RunOf
<1> QED
  BY <1>5, <1>6, <1>7

(* Pairs are equal if their entries are.                                   *)
LEMMA Pairs ==
  ASSUME NEW a, NEW b, NEW c, NEW d, <<a, b>> = <<c, d>>
  PROVE  a = c /\ b = d
OBVIOUS

(* And tuples of --rx.                                                     *)
LEMMA SameParams ==
  ASSUME NEW r \in Params, NEW s \in Params, r.port = s.port, r.queue = s.queue,
         r.lcore = s.lcore, r.thread = s.thread
  PROVE  r = s
BY DEF Params

(* The first entries of these tuples tell them apart.                      *)
LEMMA Kinds ==
  /\ \A t : <<"rx", t>>[1] = "rx" /\ <<"rx", t>>[2] = t
  /\ \A t : <<"tx", t>>[1] = "tx" /\ <<"tx", t>>[2] = t
  /\ <<"wait">>[1] = "wait" /\ <<"idle">>[1] = "idle" /\ <<"sched">>[1] = "sched"
OBVIOUS

(* A lcore of pthread that polls.                                          *)
LEMMA PollsOne ==
  ASSUME Inv, setup.version = "pthread", NEW l \in Slaves, runs[l][1] = "rx"
  PROVE  /\ pc = "running"
         /\ \E t \in DOMAIN rx_thread : runs[l] = <<"rx", t>> /\ rx_thread[t].lcore = l
<1>1. HasOptions /\ Running
  BY DEF HasOptions, Inv, WithOptions
<1>2. runs[l] # <<"wait">>
  BY Kinds
<1>3. pc = "running" /\ runs[l] = pthread_run(l)
  BY <1>1, <1>2 DEF Running, Started
<1>4. /\ opts \in OptsType /\ rx_thread = RxThreads(opts.rx) /\ tx_thread = TxThreads(opts.tx)
  BY <1>1, <1>3, AtPorts DEF AfterPorts
<1>5. DOMAIN rx_thread \subseteq Nat /\ DOMAIN tx_thread \subseteq Nat
  <2>1. DOMAIN rx_thread = 0 .. NRx - 1 /\ NRx \in Nat
    BY <1>4, RxTable
  <2>2. DOMAIN tx_thread = 0 .. Len(opts.tx) - 1 /\ Len(opts.tx) \in Nat
    BY <1>4, TxTable
  <2> QED
    BY <2>1, <2>2
<1>6. RunOf(l)
  BY <1>5, RunIs
<1> QED
  BY <1>3, <1>6, Kinds DEF RunOf

(* The first queue of a thread that has one is in the list.                *)
LEMMA FirstIs ==
  ASSUME opts \in OptsType, rx_thread = RxThreads(opts.rx), NEW t \in DOMAIN rx_thread
  PROVE  /\ rx_thread[t].queues # <<>> =>
              \E i \in DOMAIN opts.rx :
                /\ opts.rx[i].thread = t
                /\ FirstQueue(t) = <<opts.rx[i].port, opts.rx[i].queue>>
         /\ rx_thread[t].queues = <<>> => rx_thread[t].lcore = 0 /\ FirstQueue(t) = <<0, 0>>
<1>1. IsThread(rx_thread[t], opts.rx, t)
  BY RxTable
<1>2. PICK qs \in Seq(Nat \X Nat) : qs = rx_thread[t].queues
  BY <1>1 DEF IsThread
<1>3. ASSUME qs # <<>> PROVE 1 \in DOMAIN qs /\ Head(qs) = qs[1]
  BY <1>3, HeadTailProperties, LenProperties, EmptySeq
<1>4. ASSUME qs # <<>>
      PROVE  \E i \in DOMAIN opts.rx : /\ opts.rx[i].thread = t
                                       /\ FirstQueue(t) = <<opts.rx[i].port, opts.rx[i].queue>>
  <2>1. PICK i \in DOMAIN opts.rx :
          opts.rx[i].thread = t /\ qs[1] = <<opts.rx[i].port, opts.rx[i].queue>>
    BY <1>1, <1>2, <1>3, <1>4 DEF IsThread
  <2>2. FirstQueue(t) = qs[1]
    BY <1>2, <1>3, <1>4 DEF FirstQueue
  <2> QED
    BY <2>1, <2>2
<1>5. ASSUME qs = <<>> PROVE rx_thread[t].lcore = 0 /\ FirstQueue(t) = <<0, 0>>
  BY <1>1, <1>2, <1>5 DEF IsThread, FirstQueue
<1> QED
  BY <1>2, <1>4, <1>5

(* Threads of different lcores are different, and so are their tuples.     *)
LEMMA OwnQueues == Inv => QueueOwned
<1> SUFFICES ASSUME Inv, NEW l \in Slaves, NEW m \in Slaves, l # m,
                    runs[l][1] = "rx", runs[m][1] = "rx", Polled(l) = Polled(m)
             PROVE  /\ setup.version = "pthread"
                    /\ \/ \E i, j \in DOMAIN opts.rx :
                            /\ i # j
                            /\ opts.rx[i].port = opts.rx[j].port
                            /\ opts.rx[i].queue = opts.rx[j].queue
                       \/ 0 \in Slaves /\ \E t \in DOMAIN rx_thread : rx_thread[t].queues = <<>>
  BY DEF QueueOwned
<1>1. runs[l] # <<"wait">> /\ runs[m] # <<"wait">>
  BY Kinds
<1>2. CASE ~HasOptions
  <2>1. QueuesTaken /\ l \in Launched /\ m \in Launched
    BY <1>1, <1>2 DEF Inv, WithoutOptions, Launched
  <2>2. PICK k, j : runs[l] = <<"rx", k>> /\ runs[m] = <<"rx", j>>
    BY <2>1 DEF QueuesTaken
  <2>3. Polled(l) = <<0, k>> /\ Polled(m) = <<0, j>>
    BY <1>2, <2>2, Kinds DEF Polled, HasOptions
  <2>4. <<0, k>> = <<0, j>>
    BY <2>3
  <2>5. k = j
    BY <2>4, Pairs
  <2> QED
    BY <2>1, <2>2, <2>5 DEF QueuesTaken
<1>3. CASE HasOptions /\ setup.version # "pthread"
  <2>1. runs[l] = <<"sched">>
    BY <1>1, <1>3 DEF Inv, WithOptions, Running, Started
  <2> QED
    BY <2>1, Kinds
<1>4. CASE setup.version = "pthread"
  <2>1. PICK a \in DOMAIN rx_thread : runs[l] = <<"rx", a>> /\ rx_thread[a].lcore = l
    BY <1>4, PollsOne
  <2>2. PICK b \in DOMAIN rx_thread : runs[m] = <<"rx", b>> /\ rx_thread[b].lcore = m
    BY <1>4, PollsOne
  <2>3. a # b /\ FirstQueue(a) = FirstQueue(b)
    BY <1>4, <2>1, <2>2, Kinds DEF Polled
  <2>4. opts \in OptsType /\ rx_thread = RxThreads(opts.rx)
    BY <1>4, PollsOne, AtPorts DEF AfterPorts, HasOptions
  <2>5. CASE rx_thread[a].queues = <<>>
    BY <1>4, <2>1, <2>4, <2>5, FirstIs
  <2>6. CASE rx_thread[b].queues = <<>>
    BY <1>4, <2>2, <2>4, <2>6, FirstIs
  <2>7. CASE rx_thread[a].queues # <<>> /\ rx_thread[b].queues # <<>>
    <3>1. PICK i \in DOMAIN opts.rx :
            opts.rx[i].thread = a /\ FirstQueue(a) = <<opts.rx[i].port, opts.rx[i].queue>>
      BY <2>4, <2>7, FirstIs
    <3>2. PICK j \in DOMAIN opts.rx :
            opts.rx[j].thread = b /\ FirstQueue(b) = <<opts.rx[j].port, opts.rx[j].queue>>
      BY <2>4, <2>7, FirstIs
    <3>3. <<opts.rx[i].port, opts.rx[i].queue>> = <<opts.rx[j].port, opts.rx[j].queue>>
      BY <2>3, <3>1, <3>2
    <3>4. opts.rx[i].port = opts.rx[j].port /\ opts.rx[i].queue = opts.rx[j].queue
      BY <3>3, Pairs
    <3> QED
      BY <1>4, <2>3, <3>1, <3>2, <3>4
  <2> QED
    BY <2>5, <2>6, <2>7
<1> QED
  BY <1>2, <1>3, <1>4 DEF HasOptions

(* QueueOwned, for any command line and machine.                           *)
THEOREM QueuesOwned == Spec => []QueueOwned
BY Invariant, OwnQueues, PTL

-----------------------------------------------------------------------------
(* What is in effect when the lcores run, and what the rules say of it.    *)

(* An injection of 0 .. n - 1 into itself.                                 *)
Injects(n, f) == /\ \A k \in 0 .. n - 1 : f[k] \in 0 .. n - 1
                 /\ \A k, j \in 0 .. n - 1 : f[k] = f[j] => k = j

Hits(n, f) == \A t \in 0 .. n - 1 : \E k \in 0 .. n - 1 : f[k] = t

(* A map of 0 .. n - 1 to itself that is injective has every value.        *)
LEMMA SelfMap ==
  ASSUME NEW n \in Nat, NEW f, Injects(n, f)
  PROVE  Hits(n, f)
<1> DEFINE D == 0 .. n - 1
<1>1. IsFiniteSet(D)
  BY FS_Interval
<1>2. Image(f, D) \subseteq D /\ \A t \in Image(f, D) : \E k \in D : f[k] = t
  BY DEF Image, Injects
<1>3. \A k, j \in D : f[k] = f[j] => k = j
  BY DEF Injects
<1> HIDE DEF D
<1>4. Cardinality(Image(f, D)) = Cardinality(D)
  BY <1>1, <1>3, ImageSize
<1>5. Image(f, D) = D
  BY <1>1, <1>2, <1>4, FS_Subset
<1> QED
  BY <1>2, <1>5 DEF D, Hits

(* The queues that are configured, if one port has m.                      *)
LEMMA ConfiguredIs ==
  ASSUME NEW p \in Ports, NEW m \in Nat, nq = [q \in Ports |-> IF q = p THEN m ELSE 0]
  PROVE  Configured = {p} \X (0 .. m - 1) /\ Cardinality(Configured) = m
<1>1. nq[p] = m /\ \A q \in Ports \ {p} : nq[q] = 0
  OBVIOUS
<1>2. 0 .. 0 - 1 = {}
  OBVIOUS
<1>3. ASSUME NEW x \in Configured PROVE x \in {p} \X (0 .. m - 1)
  <2>1. PICK q \in Ports : x \in {q} \X (0 .. nq[q] - 1)
    BY DEF Configured
  <2>2. q = p
    <3>1. SUFFICES ASSUME q # p PROVE FALSE
      OBVIOUS
    <3>2. 0 .. nq[q] - 1 = {}
      BY <1>1, <1>2, <3>1
    <3> QED
      BY <2>1, <3>2
  <2> QED
    BY <1>1, <2>1, <2>2
<1>4. {p} \X (0 .. m - 1) \subseteq Configured
  BY <1>1 DEF Configured
<1>5. Configured = {p} \X (0 .. m - 1)
  BY <1>3, <1>4
<1>6. IsFiniteSet({p}) /\ Cardinality({p}) = 1
  BY FS_Singleton
<1>7. IsFiniteSet(0 .. m - 1) /\ Cardinality(0 .. m - 1) = m
  <2>1. IsFiniteSet(0 .. m - 1)
    BY FS_Interval
  <2>2. Cardinality(0 .. m - 1) = m
    BY FS_Interval
  <2> QED
    BY <2>1, <2>2
<1>8. PICK A, B : A = {p} /\ B = 0 .. m - 1
  OBVIOUS
<1>9. Cardinality(A \X B) = Cardinality(A) * Cardinality(B)
  BY <1>6, <1>7, <1>8, FS_Product
<1>10. Cardinality(Configured) = m
  BY <1>5, <1>6, <1>7, <1>8, <1>9
<1> QED
  BY <1>5, <1>10

(* The queues of a port are a number.                                      *)
LEMMA QueuesForType ==
  ASSUME setup \in Setups, opts \in OptsType, HasOptions, rx_thread = RxThreads(opts.rx), NEW p
  PROVE  QueuesFor(p) \in Nat
<1>1. CASE setup.version = "pthread"
  BY <1>1, RxTable DEF QueuesFor
<1>2. CASE setup.version # "pthread"
  <2> DEFINE I == {j \in DOMAIN opts.rx : opts.rx[j].port = p}
             f == [i \in I |-> opts.rx[i].queue + 1]
             S == {0} \cup {opts.rx[i].queue + 1 : i \in I}
  <2>1. QueuesFor(p) = Max(S)
    BY <1>2 DEF QueuesFor
  <2>2. PICK rx \in Seq(Params) : rx = opts.rx
    BY DEF OptsType
  <2>3. DOMAIN rx = 1 .. Len(rx) /\ Len(rx) \in Nat /\ \A i \in DOMAIN rx : rx[i] \in Params
    BY LenProperties, ElementOfSeq
  <2>4. S \in SUBSET Nat
    <3>1. ASSUME NEW i \in I PROVE opts.rx[i].queue + 1 \in Nat
      <4>1. i \in DOMAIN rx
        BY <2>2
      <4>2. PICK k \in Nat : k = rx[i].queue
        BY <2>3, <4>1 DEF Params
      <4>3. opts.rx[i].queue = k
        BY <2>2, <4>2
      <4> QED
        BY <4>3
    <3> QED
      BY <3>1
  <2>5. IsFiniteSet(S)
    <3>1. IsFiniteSet(I)
      <4>1. IsFiniteSet(DOMAIN rx)
        BY <2>3, FS_Interval
      <4> QED
        BY <2>2, <4>1, FS_Subset
    <3>2. IsFiniteSet(Image(f, I))
      BY <3>1, ImageFinite
    <3>3. {opts.rx[i].queue + 1 : i \in I} = Image(f, I)
      BY DEF Image
    <3>4. IsFiniteSet({0})
      BY FS_Singleton
    <3> QED
      BY <3>2, <3>3, <3>4, FS_Union
  <2>6. S # {}
    OBVIOUS
  <2> HIDE DEF S
  <2>7. \E x \in S : \A y \in S : x >= y
    <3>1. S \in SUBSET Int
      BY <2>4
    <3> QED
      BY <2>5, <2>6, <3>1, GreatestNumber
  <2>8. Max(S) \in S
    BY <2>7 DEF Max
  <2> QED
    BY <2>1, <2>4, <2>8
<1> QED
  BY <1>1, <1>2

(* If there are rx threads, the queues are those of one port.              *)
LEMMA OnePort ==
  ASSUME Inv, HasOptions, pc \in AfterPorts, Configured # {}, NRx > 0
  PROVE  \E p \in Ports : /\ opts.mask \cap Ports = {p}
                          /\ nq = [q \in Ports |-> IF q = p THEN QueuesFor(p) ELSE 0]
                          /\ QueuesFor(p) \in Nat \ {0}
                          /\ Configured = {p} \X (0 .. QueuesFor(p) - 1)
                          /\ pools = 0 .. NRx - 1
<1>1. /\ setup \in Setups /\ opts \in OptsType /\ rx_thread = RxThreads(opts.rx)
      /\ ConfiguredTo(setup.nports) /\ NRx \in Nat
  BY AtPorts
<1>2. PICK E : E = opts.mask \cap Ports /\ E = EnabledBelow(setup.nports)
  BY <1>1, AllEnabled
<1>3. /\ nq = [q \in Ports |-> IF q \in E THEN QueuesFor(q) ELSE 0]
      /\ pools = IF E = {} THEN {} ELSE 0 .. NRx - 1
      /\ \A q, r \in E : q = r
  BY <1>1, <1>2 DEF ConfiguredTo
<1>4. PICK p \in Ports : 0 .. nq[p] - 1 # {}
  BY DEF Configured
<1>5. p \in E
  <2>1. 0 .. 0 - 1 = {}
    OBVIOUS
  <2> QED
    BY <1>3, <1>4, <2>1
<1>6. E = {p}
  BY <1>3, <1>5
<1>7. PICK m \in Nat : m = QueuesFor(p)
  BY <1>1, QueuesForType
<1>8. nq = [q \in Ports |-> IF q = p THEN m ELSE 0]
  BY <1>3, <1>6, <1>7
<1>9. m # 0
  <2>1. nq[p] = m
    BY <1>8
  <2> QED
    BY <1>4, <2>1
<1>10. Configured = {p} \X (0 .. m - 1)
  BY <1>8, ConfiguredIs
<1> QED
  BY <1>2, <1>3, <1>6, <1>7, <1>8, <1>9, <1>10

(* The options have taken effect exactly if they are in their ranges.      *)
LEMMA EffectInRange ==
  ASSUME setup \in Setups, ParsedTo(N + 1), Configured # {}
  PROVE  (\A i \in DOMAIN setup.argv : Final(i) => TookEffect(setup.argv[i]))
           <=> InRangeAll(Cardinality(Configured))
<1>1. N \in Nat /\ DOMAIN setup.argv = 1 .. N /\ (N + 1) - 1 = N /\ Ports \subseteq 0 .. MaskBits - 1
  BY SetupTypes
<1>2. Ports # {}
  BY DEF Configured
<1>3. PICK n : n = Cardinality(Configured)
  OBVIOUS
<1>4. ASSUME NEW i \in 1 .. N, Final(i)
      PROVE  LET o == setup.argv[i] IN
             TookEffect(o) <=> /\ o.name = "p" => o.arg \notin {Bad, {}}
                               /\ o.name = "nb_rxq" => o.arg = n
                               /\ o.name = "nb_rx_desc" => o.arg \in 1 .. MaxDesc
                               /\ o.name = "burst_size" => o.arg \in 1 .. BurstMod - 1
  <2>1. PICK o : o = setup.argv[i]
    OBVIOUS
  <2>2. LastBefore(i, N + 1)
    BY <1>1, <1>4 DEF Final, LastBefore
  <2>3. EffectOf(o)
    BY <1>1, <2>1, <2>2 DEF ParsedTo
  <2>4. CASE o.name = "p"
    <3>1. opts.mask = parse_portmask(o.arg)
      BY <2>3, <2>4 DEF EffectOf
    <3>2. TookEffect(o) <=> o.arg # Bad /\ opts.mask \cap Ports = o.arg \cap Ports
      BY <2>4 DEF TookEffect
    <3>3. CASE o.arg = Bad
      BY <2>1, <2>4, <3>2, <3>3
    <3>4. CASE o.arg # Bad /\ o.arg = {}
      <4>1. opts.mask \cap Ports = Ports /\ o.arg \cap Ports = {}
        BY <1>1, <3>1, <3>4 DEF parse_portmask
      <4> QED
        BY <1>2, <2>1, <2>4, <3>2, <3>4, <4>1
    <3>5. CASE o.arg # Bad /\ o.arg # {}
      <4>1. opts.mask \cap Ports = o.arg \cap Ports
        BY <1>1, <3>1, <3>5 DEF parse_portmask
      <4> QED
        BY <2>1, <2>4, <3>2, <3>5, <4>1
    <3> QED
      BY <3>3, <3>4, <3>5
  <2>5. CASE o.name = "nb_rxq"
    BY <1>3, <2>1, <2>5 DEF TookEffect
  <2>6. CASE o.name = "nb_rx_desc"
    BY <2>1, <2>3, <2>6 DEF TookEffect, EffectOf
  <2>7. CASE o.name = "burst_size"
    BY <2>1, <2>3, <2>7 DEF TookEffect, EffectOf
  <2>8. CASE o.name \notin {"p", "nb_rxq", "nb_rx_desc", "burst_size"}
    BY <2>1, <2>8 DEF TookEffect
  <2> QED
    BY <2>4, <2>5, <2>6, <2>7, <2>8
<1> QED
  BY <1>1, <1>3, <1>4 DEF InRangeAll

(* Without options: a lcore for every queue.                               *)
LEMMA NoOptionsIff ==
  ASSUME Inv, ~HasOptions, pc = "running"
  PROVE  InEffect <=> WellFormed
<1>1. PICK R, k : R = RxRings[setup.version] /\ k = next
  OBVIOUS
<1>2. /\ setup \in Setups /\ k \in Nat /\ R \in Nat /\ IsFiniteSet(Slaves)
  BY <1>1, SetupTypes DEF Inv, Base, HasOptions
<1>3. /\ QueuesTaken /\ 0 \in Ports
      /\ \/ k = R
         \/ k < R /\ Launched = Slaves
      /\ nq = [p \in Ports |-> IF p = 0 THEN R ELSE 0]
  BY <1>1 DEF Inv, WithoutOptions
<1>4. Configured = {0} \X (0 .. R - 1)
  BY <1>2, <1>3, ConfiguredIs
<1>5. Launched \subseteq Slaves /\ Cardinality(Launched) = k
  BY <1>1, <1>3 DEF Launched, QueuesTaken
<1>6. k <= Cardinality(Slaves) /\ Cardinality(Slaves) \in Nat
  BY <1>2, <1>5, FS_Subset, FS_CardinalityType
<1>7. WellFormed <=> k = R
  <2>1. WellFormed <=> Cardinality(Slaves) >= R
    BY <1>1, <1>3 DEF WellFormed
  <2>2. PICK s \in Nat : s = Cardinality(Slaves) /\ k <= s
    BY <1>6
  <2>3. k # R => s = k /\ k < R
    BY <1>3, <1>5, <2>2
  <2> QED
    BY <1>2, <2>1, <2>2, <2>3
<1>8. \A l : l \in Launched => /\ runs[l][1] = "rx"
                               /\ \E j \in 0 .. k - 1 : runs[l] = <<"rx", j>> /\ Polled(l) = <<0, j>>
  <2>1. SUFFICES ASSUME NEW l \in Launched
                 PROVE  /\ runs[l][1] = "rx"
                        /\ \E j \in 0 .. k - 1 : runs[l] = <<"rx", j>> /\ Polled(l) = <<0, j>>
    OBVIOUS
  <2>2. PICK j \in 0 .. k - 1 : runs[l] = <<"rx", j>>
    BY <1>1, <1>3 DEF QueuesTaken
  <2>3. Polled(l) = <<0, j>>
    BY <2>2, Kinds DEF Polled, HasOptions
  <2> QED
    BY <2>2, <2>3, Kinds
<1>9. \A l \in Slaves : runs[l][1] = "rx" => l \in Launched
  BY Kinds DEF Launched
<1>10. ASSUME NEW i \in 0 .. k - 1 PROVE Cardinality(Pollers(<<0, i>>)) = 1
  <2>1. PICK l \in Launched : runs[l] = <<"rx", i>>
    BY <1>1, <1>3 DEF QueuesTaken
  <2>2. Polled(l) = <<0, i>>
    BY <2>1, Kinds DEF Polled, HasOptions
  <2>3. ASSUME NEW m \in Pollers(<<0, i>>) PROVE m = l
    <3>1. m \in Launched /\ Polled(m) = <<0, i>>
      BY <1>9 DEF Pollers
    <3>2. PICK j : runs[m] = <<"rx", j>> /\ Polled(m) = <<0, j>>
      BY <1>8, <3>1
    <3>3. <<0, j>> = <<0, i>>
      BY <3>1, <3>2
    <3>4. j = i
      BY <3>3, Pairs
    <3> QED
      BY <1>3, <2>1, <3>1, <3>2, <3>4 DEF QueuesTaken
  <2>4. l \in Pollers(<<0, i>>)
    BY <1>5, <1>8, <2>1, <2>2 DEF Pollers
  <2>5. Pollers(<<0, i>>) = {l}
    BY <2>3, <2>4
  <2> QED
    BY <2>5, FS_Singleton
<1>11. Cardinality(Pollers(<<0, k>>)) = 0
  <2>1. ASSUME NEW m \in Pollers(<<0, k>>) PROVE FALSE
    <3>1. m \in Launched /\ Polled(m) = <<0, k>>
      BY <1>9 DEF Pollers
    <3>2. PICK j \in 0 .. k - 1 : Polled(m) = <<0, j>>
      BY <1>8, <3>1
    <3>3. <<0, j>> = <<0, k>>
      BY <3>1, <3>2
    <3>4. j = k
      BY <3>3, Pairs
    <3> QED
      BY <1>2, <3>2, <3>4
  <2>2. Pollers(<<0, k>>) = {}
    BY <2>1
  <2> QED
    BY <2>2, FS_EmptySet
<1>12. CASE k = R
  <2>1. ASSUME NEW q \in Configured PROVE Cardinality(Pollers(q)) = 1
    <3>1. PICK i \in 0 .. R - 1 : q = <<0, i>>
      BY <1>4
    <3> QED
      BY <1>10, <1>12, <3>1
  <2> QED
    BY <1>7, <1>12, <2>1 DEF InEffect
<1>13. CASE k # R
  <2>1. k \in 0 .. R - 1
    BY <1>2, <1>3, <1>13
  <2>2. <<0, k>> \in Configured
    BY <1>4, <2>1
  <2>3. ~InEffect
    BY <1>11, <2>2 DEF InEffect
  <2> QED
    BY <1>7, <1>13, <2>3
<1> QED
  BY <1>12, <1>13

(* A lcore of pthread, once it has started.                                *)
LEMMA StartedOne ==
  ASSUME Inv, setup.version = "pthread", Ready, NEW l \in Slaves
  PROVE  /\ runs[l] = pthread_run(l)
         /\ RunOf(l)
<1>1. HasOptions /\ pc = "running" /\ Running /\ runs[l] # <<"wait">>
  BY DEF HasOptions, Inv, WithOptions, Ready
<1>2. runs[l] = pthread_run(l)
  BY <1>1 DEF Running, Started
<1>3. opts \in OptsType /\ rx_thread = RxThreads(opts.rx) /\ tx_thread = TxThreads(opts.tx)
  BY <1>1, AtPorts DEF AfterPorts
<1>4. DOMAIN rx_thread \subseteq Nat /\ DOMAIN tx_thread \subseteq Nat
  <2>1. DOMAIN rx_thread = 0 .. NRx - 1 /\ NRx \in Nat
    BY <1>3, RxTable
  <2>2. DOMAIN tx_thread = 0 .. Len(opts.tx) - 1 /\ Len(opts.tx) \in Nat
    BY <1>3, TxTable
  <2> QED
    BY <2>1, <2>2
<1> QED
  BY <1>2, <1>4, RunIs

(* The first ring of a thread, if it has one.                              *)
LEMMA FirstRing ==
  ASSUME opts \in OptsType, rx_thread = RxThreads(opts.rx), tx_thread = TxThreads(opts.tx),
         rings = [t \in DOMAIN rx_thread |-> RingsOf(opts.tx, t)], NEW t \in 0 .. NRx - 1
  PROVE  /\ rings[t] # <<>> => /\ Head(rings[t]) \in DOMAIN tx_thread
                               /\ tx_thread[Head(rings[t])].thread = t
         /\ \A i \in DOMAIN tx_thread : tx_thread[i].thread = t => rings[t] # <<>>
<1>1. PICK r : r = rings[t]
  OBVIOUS
<1>2. /\ r \in Seq(DOMAIN tx_thread)
      /\ \A k \in DOMAIN r : tx_thread[r[k]].thread = t
      /\ \A i \in DOMAIN tx_thread : tx_thread[i].thread = t => \E k \in DOMAIN r : r[k] = i
  <2>1. /\ rings[t] \in Seq(DOMAIN tx_thread)
        /\ \A k \in DOMAIN rings[t] : tx_thread[rings[t][k]].thread = t
        /\ \A i \in DOMAIN tx_thread : tx_thread[i].thread = t =>
             \E k \in DOMAIN rings[t] : rings[t][k] = i
    BY RingTable
  <2> QED
    BY <1>1, <2>1
<1>3. ASSUME r # <<>> PROVE 1 \in DOMAIN r /\ Head(r) = r[1] /\ r[1] \in DOMAIN tx_thread
  BY <1>2, <1>3, HeadTailProperties, LenProperties, EmptySeq, ElementOfSeq
<1>4. (\E k \in DOMAIN r : TRUE) => r # <<>>
  OBVIOUS
<1> QED
  BY <1>1, <1>2, <1>3, <1>4

(* pthread: with a list that is matched, the pairs run.                    *)
LEMMA GoodPairs ==
  ASSUME Inv, setup.version = "pthread", Ready, NEW n \in Nat \ {0}, NEW p,
         Good(opts.rx, opts.tx, opts.mask \cap Ports, n, p),
         Configured = {p} \X (0 .. n - 1)
  PROVE  PairsRun
<1>1. /\ HasOptions /\ pc \in AfterPorts
      /\ Matched(opts.rx, n, p) /\ Served(opts.tx, n) /\ PairedLcores(opts.rx, opts.tx)
  BY DEF Ready, HasOptions, AfterPorts, Good
<1>2. /\ setup \in Setups /\ opts \in OptsType
      /\ rx_thread = RxThreads(opts.rx) /\ tx_thread = TxThreads(opts.tx)
      /\ rings = [t \in DOMAIN rx_thread |-> RingsOf(opts.tx, t)]
  BY <1>1, AtPorts
<1>3. /\ NRx = n /\ DOMAIN rx_thread = 0 .. n - 1
      /\ \A i \in DOMAIN opts.rx : Takes(i, p)
  BY <1>1, <1>2, GoodTables, RxTable
<1>4. /\ \A i \in DOMAIN tx_thread : \E j \in DOMAIN opts.tx : j = i + 1 /\ tx_thread[i] = opts.tx[j]
      /\ \A j \in DOMAIN opts.tx : j - 1 \in DOMAIN tx_thread /\ tx_thread[j - 1] = opts.tx[j]
      /\ DOMAIN tx_thread \subseteq Nat
  <2>1. PICK m \in Nat : m = Len(opts.tx)
    BY <1>2, TxTable
  <2>2. /\ DOMAIN opts.tx = 1 .. m /\ DOMAIN tx_thread = 0 .. m - 1
        /\ \A i \in 0 .. m - 1 : tx_thread[i] = opts.tx[i + 1]
        /\ \A j \in DOMAIN opts.tx : j - 1 \in 0 .. m - 1 /\ tx_thread[j - 1] = opts.tx[j]
    BY <1>2, <2>1, TxTable
  <2>3. \A i \in 0 .. m - 1 : i + 1 \in 1 .. m
    OBVIOUS
  <2> QED
    BY <2>2, <2>3
(* The lcores of the threads are slaves, and run them.                     *)
<1>5. ASSUME NEW i \in DOMAIN opts.rx
      PROVE  /\ opts.rx[i].lcore \in Slaves
             /\ runs[opts.rx[i].lcore] = <<"rx", opts.rx[i].thread>>
             /\ FirstQueue(opts.rx[i].thread) = <<opts.rx[i].port, opts.rx[i].queue>>
             /\ opts.rx[i].port = p
  <2>1. PICK l, t : l = opts.rx[i].lcore /\ t = opts.rx[i].thread
    OBVIOUS
  <2>2. l \in Slaves /\ t \in 0 .. n - 1 /\ opts.rx[i].port = p
    BY <1>1, <2>1 DEF Slaves, Matched, PairedLcores
  <2>3. rx_thread[t].lcore = l /\ rx_thread[t].queues # <<>>
    BY <1>3, <2>1 DEF Takes
  <2>4. PICK u \in 0 .. n - 1 : runs[l] = <<"rx", u>> /\ rx_thread[u].lcore = l
    BY <1>3, <2>2, <2>3, StartedOne DEF RunOf
  <2>5. u = t
    <3>1. PICK j \in DOMAIN opts.rx : opts.rx[j].thread = u
      BY <1>1 DEF Matched
    <3>2. opts.rx[j].lcore = l
      BY <1>3, <2>4, <3>1 DEF Takes
    <3> QED
      BY <1>1, <2>1, <3>1, <3>2 DEF PairedLcores
  <2>6. PICK j \in DOMAIN opts.rx :
          opts.rx[j].thread = t /\ FirstQueue(t) = <<opts.rx[j].port, opts.rx[j].queue>>
    BY <1>2, <1>3, <2>2, <2>3, FirstIs
  <2>7. opts.rx[j] = opts.rx[i]
    BY <1>1, <2>1, <2>6 DEF Matched
  <2> QED
    BY <2>1, <2>2, <2>4, <2>5, <2>6, <2>7
<1>6. ASSUME NEW i \in DOMAIN tx_thread
      PROVE  LET t == tx_thread[i] IN
             /\ t.lcore \in Slaves /\ runs[t.lcore] = <<"tx", i>>
             /\ t.thread < NRx /\ Head(rings[t.thread]) = i
  <2>1. PICK a \in DOMAIN opts.tx : a = i + 1 /\ tx_thread[i] = opts.tx[a]
    BY <1>4
  <2>2. PICK l, k : l = opts.tx[a].lcore /\ k = opts.tx[a].thread
    OBVIOUS
  <2>3. l \in Slaves /\ k \in 0 .. n - 1
    BY <1>1, <2>2 DEF Slaves, Served, PairedLcores
  <2>4. ASSUME NEW u \in 0 .. n - 1 PROVE rx_thread[u].lcore # l
    <3>1. PICK j \in DOMAIN opts.rx : opts.rx[j].thread = u
      BY <1>1 DEF Matched
    <3>2. rx_thread[u].lcore = opts.rx[j].lcore
      BY <1>3, <3>1 DEF Takes
    <3> QED
      BY <1>1, <2>2, <3>2 DEF PairedLcores
  <2>5. PICK b \in DOMAIN tx_thread : runs[l] = <<"tx", b>> /\ tx_thread[b].lcore = l
    <3>1. RunOf(l) /\ runs[l] = pthread_run(l)
      BY <2>3, StartedOne
    <3>2. tx_thread[i].lcore = l
      BY <2>1, <2>2
    <3> QED
      BY <1>3, <2>4, <3>1, <3>2 DEF RunOf
  <2>6. ASSUME NEW c \in DOMAIN tx_thread,
               tx_thread[c].lcore = l \/ tx_thread[c].thread = k
        PROVE  c = i
    <3>1. PICK d \in DOMAIN opts.tx : d = c + 1 /\ tx_thread[c] = opts.tx[d]
      BY <1>4
    <3>2. d = a
      BY <1>1, <2>2, <2>6, <3>1 DEF PairedLcores
    <3> QED
      BY <1>4, <2>1, <3>1, <3>2
  <2>7. runs[l] = <<"tx", i>>
    BY <2>5, <2>6
  <2>8. /\ Head(rings[k]) \in DOMAIN tx_thread
        /\ tx_thread[Head(rings[k])].thread = k
    <3>1. tx_thread[i].thread = k /\ k \in 0 .. NRx - 1
      BY <1>3, <2>1, <2>2, <2>3
    <3> QED
      BY <1>2, <3>1, FirstRing
  <2>9. Head(rings[k]) = i
    BY <2>6, <2>8
  <2>10. k < NRx
    BY <1>3, <2>3
  <2> QED
    BY <2>1, <2>2, <2>3, <2>7, <2>9, <2>10
(* Every queue is polled by the lcore of its tuple and no other one.       *)
<1>7. ASSUME NEW q \in Configured
      PROVE  \E i \in DOMAIN opts.rx : /\ Pollers(q) = {opts.rx[i].lcore}
                                       /\ rings[opts.rx[i].thread] # <<>>
  <2>1. PICK k \in 0 .. n - 1 : q = <<p, k>>
    OBVIOUS
  <2>2. PICK i \in DOMAIN opts.rx : opts.rx[i].queue = k
    BY <1>1 DEF Matched
  <2>3. opts.rx[i].lcore \in Pollers(q)
    <3>1. PICK l : l = opts.rx[i].lcore
      OBVIOUS
    <3>2. l \in Slaves /\ runs[l] = <<"rx", opts.rx[i].thread>>
          /\ FirstQueue(opts.rx[i].thread) = q
      BY <1>5, <2>1, <2>2, <3>1
    <3> QED
      BY <3>1, <3>2, Kinds DEF Pollers, Polled
  <2>4. ASSUME NEW l \in Pollers(q) PROVE l = opts.rx[i].lcore
    <3>1. l \in Slaves /\ runs[l][1] = "rx" /\ FirstQueue(runs[l][2]) = q
      BY DEF Pollers, Polled
    <3>2. PICK t \in 0 .. n - 1 : runs[l] = <<"rx", t>> /\ rx_thread[t].lcore = l
      BY <1>3, <3>1, PollsOne
    <3>3. FirstQueue(t) = q
      BY <3>1, <3>2, Kinds
    <3>4. PICK j \in DOMAIN opts.rx : opts.rx[j].thread = t
      BY <1>1 DEF Matched
    <3>5. opts.rx[j].lcore = l
      BY <1>3, <3>2, <3>4 DEF Takes
    <3>6. <<opts.rx[j].port, opts.rx[j].queue>> = <<p, k>>
      BY <1>5, <2>1, <3>3, <3>4
    <3>7. opts.rx[j].queue = k
      BY <3>6, Pairs
    <3>8. opts.rx[j] = opts.rx[i]
      BY <1>1, <2>2, <3>7 DEF Matched
    <3> QED
      BY <3>5, <3>8
  <2>5. rings[opts.rx[i].thread] # <<>>
    <3>1. PICK t \in 0 .. n - 1 : t = opts.rx[i].thread
      BY <1>1 DEF Matched
    <3>2. PICK j \in DOMAIN opts.tx : opts.tx[j].thread = t
      BY <1>1 DEF Served
    <3>3. j - 1 \in DOMAIN tx_thread /\ tx_thread[j - 1].thread = t
      BY <1>4, <3>2
    <3> QED
      BY <1>2, <1>3, <3>1, <3>3, FirstRing
  <2>6. Pollers(q) = {opts.rx[i].lcore}
    BY <2>3, <2>4
  <2> QED
    BY <2>5, <2>6
<1> QED
  BY <1>5, <1>6, <1>7 DEF PairsRun

(* lthread: the tables are consistent.                                     *)
LEMMA GoodConsistent ==
  ASSUME Inv, HasOptions, pc \in AfterPorts, NEW n \in Nat \ {0}, NEW p,
         Good(opts.rx, opts.tx, opts.mask \cap Ports, n, p),
         Configured = {p} \X (0 .. n - 1)
  PROVE  TablesConsistent
<1>1. Matched(opts.rx, n, p) /\ Served(opts.tx, n)
  BY DEF Good
<1>2. /\ setup \in Setups /\ opts \in OptsType
      /\ rx_thread = RxThreads(opts.rx) /\ tx_thread = TxThreads(opts.tx)
      /\ rings = [t \in DOMAIN rx_thread |-> RingsOf(opts.tx, t)]
  BY AtPorts
<1>3. /\ NRx = n /\ DOMAIN rx_thread = 0 .. n - 1
      /\ \A i \in DOMAIN opts.rx : Takes(i, p)
  BY <1>1, <1>2, GoodTables, RxTable
<1>4. \A i \in DOMAIN opts.rx : rx_thread[opts.rx[i].thread].lcore = opts.rx[i].lcore
  BY <1>3 DEF Takes
<1>5. ASSUME NEW t \in DOMAIN rx_thread PROVE rx_thread[t].queues # <<>> /\ rings[t] # <<>>
  <2>1. PICK i \in DOMAIN opts.rx : opts.rx[i].thread = t
    BY <1>1, <1>3 DEF Matched
  <2>2. PICK j \in DOMAIN opts.tx : opts.tx[j].thread = t
    BY <1>1, <1>3 DEF Served
  <2>3. j - 1 \in DOMAIN tx_thread /\ tx_thread[j - 1].thread = t
    BY <1>2, <2>2, TxTable
  <2>4. rings[t] # <<>>
    BY <1>2, <1>3, <2>3, FirstRing
  <2> QED
    BY <1>3, <2>1, <2>4 DEF Takes
<1>6. ASSUME NEW i \in DOMAIN tx_thread
      PROVE  tx_thread[i].thread < NRx /\ tx_thread[i].lcore \in setup.lcores
  <2>1. PICK m \in Nat : m = Len(opts.tx) /\ DOMAIN opts.tx = 1 .. m /\ i \in 0 .. m - 1
    BY <1>2, TxTable
  <2>2. i + 1 \in 1 .. m /\ tx_thread[i] = opts.tx[i + 1]
    BY <1>2, <2>1, TxTable
  <2>3. opts.tx[i + 1].thread \in 0 .. n - 1 /\ opts.tx[i + 1].lcore \in setup.lcores
    BY <1>1, <2>1, <2>2 DEF Served
  <2> QED
    BY <1>3, <2>2, <2>3
<1>7. ASSUME NEW q \in Configured
      PROVE  Cardinality({t \in DOMAIN rx_thread :
               \E i \in DOMAIN rx_thread[t].queues : rx_thread[t].queues[i] = q}) = 1
  <2> DEFINE T == {t \in DOMAIN rx_thread :
                     \E i \in DOMAIN rx_thread[t].queues : rx_thread[t].queues[i] = q}
  <2>1. PICK k \in 0 .. n - 1 : q = <<p, k>>
    OBVIOUS
  <2>2. PICK i \in DOMAIN opts.rx : opts.rx[i].queue = k
    BY <1>1 DEF Matched
  <2>3. PICK t \in 0 .. n - 1 : t = opts.rx[i].thread /\ opts.rx[i].port = p
    BY <1>1 DEF Matched
  <2>4. t \in T
    <3>1. IsThread(rx_thread[t], opts.rx, t)
      BY <1>2, <1>3, RxTable
    <3> QED
      BY <1>3, <2>1, <2>2, <2>3, <3>1 DEF IsThread
  <2>5. ASSUME NEW u \in T PROVE u = t
    <3>1. PICK j \in DOMAIN opts.rx : opts.rx[j].thread = u
      BY <1>1, <1>3 DEF Matched
    <3>2. PICK a \in DOMAIN rx_thread[u].queues : rx_thread[u].queues[a] = q
      OBVIOUS
    <3>3. <<p, opts.rx[j].queue>> = <<p, k>>
      BY <1>3, <2>1, <3>1, <3>2 DEF Takes
    <3>4. opts.rx[j].queue = k
      BY <3>3, Pairs
    <3> QED
      BY <1>1, <2>2, <2>3, <3>1, <3>4 DEF Matched
  <2>6. T = {t}
    BY <2>4, <2>5
  <2> QED
    BY <2>6, FS_Singleton
<1> QED
  BY <1>4, <1>5, <1>6, <1>7 DEF TablesConsistent

(* pthread: if the pairs run, the list is matched.                         *)
LEMMA PairsGood ==
  ASSUME Inv, setup.version = "pthread", Ready, Configured # {}, PairsRun
  PROVE  \E n \in Nat \ {0}, p \in Ports : Good(opts.rx, opts.tx, opts.mask \cap Ports, n, p)
<1>1. HasOptions /\ pc \in AfterPorts
  BY DEF Ready, HasOptions, AfterPorts
<1>2. /\ setup \in Setups /\ opts \in OptsType
      /\ rx_thread = RxThreads(opts.rx) /\ tx_thread = TxThreads(opts.tx)
      /\ rings = [t \in DOMAIN rx_thread |-> RingsOf(opts.tx, t)]
      /\ ~TooManyQueues(opts.rx, MaxQueues) /\ ConfiguredTo(setup.nports)
  BY <1>1, AtPorts
<1>3. PICK n \in Nat : n = NRx /\ DOMAIN rx_thread = 0 .. n - 1
  BY <1>2, RxTable
<1>4. \A q : QueuesFor(q) = n
  BY <1>3 DEF QueuesFor
<1>5. n # 0
  <2>1. PICK q \in Ports : 0 .. nq[q] - 1 # {}
    BY DEF Configured
  <2>2. nq[q] \in {0, n}
    BY <1>2, <1>4 DEF ConfiguredTo
  <2>3. 0 .. 0 - 1 = {}
    OBVIOUS
  <2> QED
    BY <2>1, <2>2, <2>3
<1>6. PICK p \in Ports : opts.mask \cap Ports = {p} /\ Configured = {p} \X (0 .. n - 1)
  <2>1. NRx > 0
    BY <1>3, <1>5
  <2> QED
    BY <1>1, <1>4, <2>1, OnePort
<1>7. PICK rx \in Seq(Params) : rx = opts.rx /\ \A i \in DOMAIN rx : rx[i] \in Params
  <2>1. PICK rx \in Seq(Params) : rx = opts.rx
    BY <1>2 DEF OptsType
  <2>2. \A i \in DOMAIN rx : rx[i] \in Params
    BY LenProperties, ElementOfSeq
  <2> QED
    BY <2>1, <2>2
<1>8. \A i \in DOMAIN rx : /\ rx[i].lcore \in Slaves /\ runs[rx[i].lcore] = <<"rx", rx[i].thread>>
                           /\ FirstQueue(rx[i].thread) = <<rx[i].port, rx[i].queue>>
  BY <1>7 DEF PairsRun
<1>9. \A i \in DOMAIN rx : rx[i].thread \in 0 .. n - 1
  BY <1>2, <1>3, <1>7, RxTable
(* The lcore of a tuple runs its thread, and the thread is on that lcore.  *)
<1>10. ASSUME NEW i \in DOMAIN rx PROVE rx_thread[rx[i].thread].lcore = rx[i].lcore
  <2>1. PICK l, t : l = rx[i].lcore /\ t = rx[i].thread
    OBVIOUS
  <2>2. l \in Slaves /\ runs[l] = <<"rx", t>>
    BY <1>8, <2>1
  <2>3. PICK u \in DOMAIN rx_thread : runs[l] = <<"rx", u>> /\ rx_thread[u].lcore = l
    BY <2>2, PollsOne, Kinds
  <2>4. u = t
    <3>1. <<"rx", u>> = <<"rx", t>>
      BY <2>2, <2>3
    <3> QED
      BY <3>1, Pairs
  <2> QED
    BY <2>1, <2>3, <2>4
<1>11. ASSUME NEW i \in DOMAIN rx, NEW j \in DOMAIN rx, rx[i].thread = rx[j].thread
       PROVE  rx[i] = rx[j]
  <2>1. <<rx[i].port, rx[i].queue>> = <<rx[j].port, rx[j].queue>>
    BY <1>8, <1>11
  <2>2. rx[i].port = rx[j].port /\ rx[i].queue = rx[j].queue
    BY <2>1, Pairs
  <2>3. rx[i].lcore = rx[j].lcore
    BY <1>10, <1>11
  <2>4. rx[i] \in Params /\ rx[j] \in Params
    BY <1>7
  <2> QED
    BY <1>11, <2>2, <2>3, <2>4, SameParams
<1>12. ASSUME NEW i \in DOMAIN rx, NEW j \in DOMAIN rx, rx[i].lcore = rx[j].lcore
       PROVE  rx[i] = rx[j]
  <2>1. <<"rx", rx[i].thread>> = <<"rx", rx[j].thread>>
    BY <1>8, <1>12
  <2>2. rx[i].thread = rx[j].thread
    BY <2>1, Pairs
  <2> QED
    BY <1>11, <2>2
(* Each queue has a tuple, and its lcore is the only one that polls it.    *)
<1>13. ASSUME NEW k \in 0 .. n - 1
       PROVE  \E i \in DOMAIN rx : /\ rx[i].port = p /\ rx[i].queue = k
                                   /\ Pollers(<<p, k>>) = {rx[i].lcore}
                                   /\ rings[rx[i].thread] # <<>>
  <2>1. <<p, k>> \in Configured
    BY <1>6
  <2>2. PICK i \in DOMAIN rx : Pollers(<<p, k>>) = {rx[i].lcore} /\ rings[rx[i].thread] # <<>>
    BY <1>7, <2>1 DEF PairsRun
  <2>3. PICK l : l = rx[i].lcore /\ l \in Pollers(<<p, k>>)
    BY <2>2
  <2>4. FirstQueue(runs[l][2]) = <<p, k>>
    BY <2>3 DEF Pollers, Polled
  <2>5. runs[l][2] = rx[i].thread
    BY <1>8, <2>3, Kinds
  <2>6. <<rx[i].port, rx[i].queue>> = <<p, k>>
    BY <1>8, <2>4, <2>5
  <2>7. rx[i].port = p /\ rx[i].queue = k
    BY <2>6, Pairs
  <2> QED
    BY <2>2, <2>7
(* The threads of these tuples are all the threads.                        *)
<1>14. ASSUME NEW t \in 0 .. n - 1
       PROVE  \E i \in DOMAIN rx : /\ rx[i].thread = t /\ rx[i].port = p
                                   /\ rx[i].queue \in 0 .. n - 1 /\ rings[t] # <<>>
  <2> DEFINE Of(k, i) == rx[i].port = p /\ rx[i].queue = k /\ rings[rx[i].thread] # <<>>
             own(k) == CHOOSE i \in DOMAIN rx : Of(k, i)
             f == [k \in 0 .. n - 1 |-> rx[own(k)].thread]
  <2>1. \A k \in 0 .. n - 1 : \E i \in DOMAIN rx : Of(k, i)
    BY <1>13
  <2>2. \A k \in 0 .. n - 1 : own(k) \in DOMAIN rx /\ Of(k, own(k))
    <3> HIDE DEF Of
    <3> QED
      BY <2>1, Zenon
  <2> HIDE DEF own
  <2>3. \A k \in 0 .. n - 1 : f[k] \in 0 .. n - 1
    BY <1>9, <2>2
  <2>4. ASSUME NEW k \in 0 .. n - 1, NEW j \in 0 .. n - 1, f[k] = f[j] PROVE k = j
    <3>1. rx[own(k)].thread = rx[own(j)].thread
      BY <2>4
    <3>2. rx[own(k)] = rx[own(j)]
      BY <1>11, <2>2, <3>1
    <3> QED
      BY <2>2, <3>2
  <2>5. \E k \in 0 .. n - 1 : f[k] = t
    <3> HIDE DEF f
    <3>1. \A k, j \in 0 .. n - 1 : f[k] = f[j] => k = j
      BY <2>4
    <3>2. Injects(n, f)
      BY <2>3, <3>1 DEF Injects
    <3>3. Hits(n, f)
      BY <3>2, SelfMap
    <3> QED
      BY <3>3 DEF Hits
  <2>6. PICK k \in 0 .. n - 1 : rx[own(k)].thread = t
    BY <2>5
  <2>7. PICK i \in DOMAIN rx : i = own(k) /\ Of(k, i)
    BY <2>2
  <2> QED
    BY <2>6, <2>7
<1>15. Matched(rx, n, p)
  <2>1. ASSUME NEW i \in DOMAIN rx
        PROVE  /\ rx[i].port = p /\ rx[i].queue \in 0 .. n - 1
               /\ rx[i].thread \in 0 .. n - 1 /\ rx[i].lcore \in setup.lcores
    <3>1. PICK j \in DOMAIN rx : /\ rx[j].thread = rx[i].thread /\ rx[j].port = p
                                 /\ rx[j].queue \in 0 .. n - 1
      BY <1>9, <1>14
    <3>2. rx[j] = rx[i]
      BY <1>11, <3>1
    <3> QED
      BY <1>8, <1>9, <3>1, <3>2 DEF Slaves
  <2>2. ASSUME NEW i \in DOMAIN rx, NEW j \in DOMAIN rx, rx[i].queue = rx[j].queue
        PROVE  rx[i] = rx[j]
    <3>1. PICK k \in 0 .. n - 1 : k = rx[i].queue /\ k = rx[j].queue
      BY <2>1, <2>2
    <3>2. PICK l : Pollers(<<p, k>>) = {l}
      BY <1>13
    <3>3. ASSUME NEW a \in DOMAIN rx, rx[a].queue = k PROVE rx[a].lcore = l
      <4>1. PICK m : m = rx[a].lcore
        OBVIOUS
      <4>2. /\ m \in Slaves /\ runs[m] = <<"rx", rx[a].thread>>
            /\ FirstQueue(rx[a].thread) = <<p, k>>
        BY <1>8, <2>1, <3>3, <4>1
      <4>3. m \in Pollers(<<p, k>>)
        BY <4>2, Kinds DEF Pollers, Polled
      <4> QED
        BY <3>2, <4>1, <4>3
    <3> QED
      BY <1>12, <3>1, <3>3
  <2> QED
    BY <1>11, <1>13, <1>14, <2>1, <2>2 DEF Matched
<1>16. /\ \A i \in DOMAIN tx_thread :
             /\ tx_thread[i].lcore \in Slaves /\ runs[tx_thread[i].lcore] = <<"tx", i>>
             /\ tx_thread[i].thread < n /\ Head(rings[tx_thread[i].thread]) = i
             /\ tx_thread[i] \in TxParams
       /\ \A j \in DOMAIN opts.tx : j - 1 \in DOMAIN tx_thread /\ tx_thread[j - 1] = opts.tx[j]
       /\ \A i, j \in DOMAIN opts.tx : i - 1 = j - 1 => i = j
  <2>1. PICK m \in Nat : m = Len(opts.tx)
    BY <1>2, TxTable
  <2>2. /\ DOMAIN opts.tx = 1 .. m /\ DOMAIN tx_thread = 0 .. m - 1
        /\ \A i \in 0 .. m - 1 : tx_thread[i] \in TxParams
        /\ \A j \in DOMAIN opts.tx : j - 1 \in 0 .. m - 1 /\ tx_thread[j - 1] = opts.tx[j]
    BY <1>2, <2>1, TxTable
  <2>3. \A i, j \in 1 .. m : i - 1 = j - 1 => i = j
    OBVIOUS
  <2>4. \A i \in DOMAIN tx_thread :
            /\ tx_thread[i].lcore \in Slaves /\ runs[tx_thread[i].lcore] = <<"tx", i>>
            /\ tx_thread[i].thread < n /\ Head(rings[tx_thread[i].thread]) = i
    BY <1>3 DEF PairsRun
  <2> QED
    BY <2>2, <2>3, <2>4
<1>17. \A i \in DOMAIN tx_thread : \E j \in DOMAIN opts.tx : j - 1 = i
  <2>1. PICK m \in Nat : m = Len(opts.tx)
    BY <1>2, TxTable
  <2>2. DOMAIN opts.tx = 1 .. m /\ DOMAIN tx_thread = 0 .. m - 1
    BY <1>2, <2>1, TxTable
  <2>3. \A i \in 0 .. m - 1 : i + 1 \in 1 .. m /\ (i + 1) - 1 = i
    OBVIOUS
  <2> QED
    BY <2>2, <2>3
<1>18. Served(opts.tx, n)
  <2>1. ASSUME NEW j \in DOMAIN opts.tx
        PROVE  opts.tx[j].thread \in 0 .. n - 1 /\ opts.tx[j].lcore \in setup.lcores
    <3>1. PICK w \in TxParams : w = opts.tx[j] /\ w.lcore \in Slaves /\ w.thread < n
      BY <1>16
    <3>2. w.thread \in Nat
      BY DEF TxParams
    <3> QED
      BY <3>1, <3>2 DEF Slaves
  <2>2. ASSUME NEW k \in 0 .. n - 1 PROVE \E j \in DOMAIN opts.tx : opts.tx[j].thread = k
    <3>1. rings[k] # <<>>
      BY <1>14
    <3>2. PICK i \in DOMAIN tx_thread : tx_thread[i].thread = k
      BY <1>2, <1>3, <3>1, FirstRing
    <3>3. PICK j \in DOMAIN opts.tx : j - 1 = i
      BY <1>17
    <3> QED
      BY <1>16, <3>2, <3>3
  <2> QED
    BY <2>1, <2>2 DEF Served
<1>19. PairedLcores(rx, opts.tx)
  <2>1. \A j \in DOMAIN opts.tx :
          /\ opts.tx[j].lcore \in Slaves /\ runs[opts.tx[j].lcore] = <<"tx", j - 1>>
          /\ Head(rings[opts.tx[j].thread]) = j - 1
    BY <1>16
  <2>2. ASSUME NEW i \in DOMAIN rx, NEW j \in DOMAIN opts.tx PROVE rx[i].lcore # opts.tx[j].lcore
    <3>1. runs[rx[i].lcore][1] = "rx" /\ runs[opts.tx[j].lcore][1] = "tx"
      BY <1>8, <2>1, Kinds
    <3> QED
      BY <3>1
  <2>3. ASSUME NEW i \in DOMAIN opts.tx, NEW j \in DOMAIN opts.tx,
               opts.tx[i].lcore = opts.tx[j].lcore
        PROVE  i = j
    <3>1. <<"tx", i - 1>> = <<"tx", j - 1>>
      BY <2>1, <2>3
    <3>2. i - 1 = j - 1
      BY <3>1, Pairs
    <3> QED
      BY <1>16, <3>2
  <2>4. ASSUME NEW i \in DOMAIN opts.tx, NEW j \in DOMAIN opts.tx,
               opts.tx[i].thread = opts.tx[j].thread
        PROVE  i = j
    <3>1. i - 1 = j - 1
      BY <2>1, <2>4
    <3> QED
      BY <1>16, <3>1
  <2>5. (\A i \in DOMAIN rx : rx[i].lcore # setup.master)
          /\ \A j \in DOMAIN opts.tx : opts.tx[j].lcore # setup.master
    BY <1>8, <2>1 DEF Slaves
  <2> QED
    BY <1>12, <2>2, <2>3, <2>4, <2>5 DEF PairedLcores
<1> QED
  BY <1>2, <1>5, <1>6, <1>7, <1>15, <1>18, <1>19 DEF Good

(* lthread: if the tables are consistent, the list is matched.             *)
LEMMA ConsistentGood ==
  ASSUME Inv, setup.version = "lthread", pc = "running", Configured # {}, TablesConsistent
  PROVE  \E n \in Nat \ {0}, p \in Ports : Good(opts.rx, opts.tx, opts.mask \cap Ports, n, p)
<1> DEFINE Owners(q) == {t \in DOMAIN rx_thread :
                           \E i \in DOMAIN rx_thread[t].queues : rx_thread[t].queues[i] = q}
<1>1. HasOptions /\ pc \in AfterPorts /\ pc \in AfterQueues
  BY DEF HasOptions, AfterPorts, AfterQueues
<1>2. /\ setup \in Setups /\ opts \in OptsType
      /\ rx_thread = RxThreads(opts.rx) /\ tx_thread = TxThreads(opts.tx)
      /\ rings = [t \in DOMAIN rx_thread |-> RingsOf(opts.tx, t)]
      /\ ~TooManyQueues(opts.rx, MaxQueues) /\ ListChecked
  BY <1>1, AtPorts
<1>3. PICK n \in Nat :
        /\ n = NRx /\ DOMAIN rx_thread = 0 .. n - 1
        /\ \A t \in 0 .. n - 1 : IsThread(rx_thread[t], opts.rx, t) /\ SetUp(t)
        /\ \A i \in DOMAIN opts.rx : opts.rx[i].thread \in 0 .. n - 1
  <2>1. PICK n \in Nat : n = NRx
    BY <1>2, RxTable
  <2>2. /\ DOMAIN rx_thread = 0 .. n - 1
        /\ \A t \in 0 .. n - 1 : IsThread(rx_thread[t], opts.rx, t)
        /\ \A i \in DOMAIN opts.rx : opts.rx[i].thread \in 0 .. n - 1
    BY <1>2, <2>1, RxTable
  <2>3. \A t \in 0 .. n - 1 : SetUp(t)
    BY <1>1, <2>1 DEF Inv, WithOptions, Nic
  <2> QED
    BY <2>1, <2>2, <2>3
<1>4. ASSUME NEW q \in Configured PROVE \E t : Owners(q) = {t}
  <2>1. Cardinality(Owners(q)) = 1
    BY DEF TablesConsistent
  <2>2. IsFiniteSet(Owners(q))
    <3>1. Owners(q) \subseteq 0 .. n - 1
      BY <1>3
    <3>2. IsFiniteSet(0 .. n - 1)
      BY FS_Interval
    <3> QED
      BY <3>1, <3>2, FS_Subset
  <2> QED
    BY <2>1, <2>2, FS_Singleton
<1>5. n # 0
  <2>1. PICK q \in Configured : TRUE
    OBVIOUS
  <2>2. PICK t : Owners(q) = {t}
    BY <1>4
  <2>3. t \in 0 .. n - 1
    BY <1>3, <2>2
  <2> QED
    BY <2>3
<1>6. PICK p \in Ports, m \in Nat :
        /\ opts.mask \cap Ports = {p} /\ nq = [q \in Ports |-> IF q = p THEN m ELSE 0]
        /\ Configured = {p} \X (0 .. m - 1) /\ pools = 0 .. n - 1
  <2>1. NRx > 0
    BY <1>3, <1>5
  <2> QED
    BY <1>1, <1>3, <2>1, OnePort
<1>7. PICK rx \in Seq(Params) : rx = opts.rx /\ \A i \in DOMAIN rx : rx[i] \in Params
  <2>1. PICK rx \in Seq(Params) : rx = opts.rx
    BY <1>2 DEF OptsType
  <2>2. \A i \in DOMAIN rx : rx[i] \in Params
    BY LenProperties, ElementOfSeq
  <2> QED
    BY <2>1, <2>2
(* The queue of a tuple is configured, and the thread has it.              *)
<1>8. ASSUME NEW i \in DOMAIN rx
      PROVE  /\ rx[i].port = p /\ rx[i].queue \in 0 .. n - 1
             /\ <<p, rx[i].queue>> \in Configured
             /\ rx[i].thread \in Owners(<<p, rx[i].queue>>)
  <2>1. PICK t \in 0 .. n - 1 : t = rx[i].thread
    BY <1>3, <1>7
  <2>2. PICK k \in DOMAIN rx_thread[t].queues :
          rx_thread[t].queues[k] = <<rx[i].port, rx[i].queue>>
    <3>1. IsThread(rx_thread[t], rx, t)
      BY <1>3, <1>7
    <3> QED
      BY <2>1, <3>1 DEF IsThread
  <2>3. PICK a \in Nat, b \in Nat : a = rx[i].port /\ b = rx[i].queue
    BY <1>7 DEF Params
  <2>4. ~NotConfigured(<<a, b>>) /\ ~NoPool(<<a, b>>)
    BY <1>3, <2>2, <2>3 DEF SetUp
  <2>5. a \in Ports /\ ~(b >= nq[a]) /\ b \in 0 .. n - 1
    BY <1>6, <2>4, Pairs DEF NotConfigured, NoPool
  <2>6. nq[a] = IF a = p THEN m ELSE 0
    BY <1>6, <2>5
  <2>7. a = p /\ b \in 0 .. m - 1
    BY <2>3, <2>5, <2>6
  <2> QED
    BY <1>3, <1>6, <2>1, <2>2, <2>3, <2>5, <2>7
<1>9. ASSUME NEW i \in DOMAIN rx, NEW j \in DOMAIN rx, rx[i].queue = rx[j].queue
      PROVE  rx[i].thread = rx[j].thread
  <2>1. PICK t : Owners(<<p, rx[i].queue>>) = {t}
    BY <1>4, <1>8
  <2>2. rx[i].thread \in Owners(<<p, rx[i].queue>>) /\ rx[j].thread \in Owners(<<p, rx[i].queue>>)
    BY <1>8, <1>9
  <2> HIDE DEF Owners
  <2> QED
    BY <2>1, <2>2
<1>10. ASSUME NEW t \in 0 .. n - 1 PROVE \E i \in DOMAIN rx : rx[i].thread = t
  <2>1. IsThread(rx_thread[t], rx, t) /\ rx_thread[t].queues # <<>>
    BY <1>3, <1>7 DEF TablesConsistent
  <2> QED
    BY <2>1 DEF IsThread
(* A queue of each thread: these are all the queues.                       *)
<1> DEFINE own(t) == CHOOSE i \in DOMAIN rx : rx[i].thread = t
           f == [t \in 0 .. n - 1 |-> rx[own(t)].queue]
<1>11. \A t \in 0 .. n - 1 : own(t) \in DOMAIN rx /\ rx[own(t)].thread = t
  BY <1>10, Zenon
<1> HIDE DEF own
<1>12. Injects(n, f)
  <2>1. \A t \in 0 .. n - 1 : f[t] \in 0 .. n - 1
    BY <1>8, <1>11
  <2>2. ASSUME NEW t \in 0 .. n - 1, NEW u \in 0 .. n - 1, f[t] = f[u] PROVE t = u
    <3>1. rx[own(t)].queue = rx[own(u)].queue
      BY <2>2
    <3>2. rx[own(t)].thread = rx[own(u)].thread
      BY <1>9, <1>11, <3>1
    <3> QED
      BY <1>11, <3>2
  <2> QED
    BY <2>1, <2>2 DEF Injects
<1>13. ASSUME NEW k \in 0 .. n - 1
       PROVE  \E t \in 0 .. n - 1 : rx[own(t)].queue = k
  <2>1. PICK g : g = f /\ Injects(n, g)
    BY <1>12
  <2>2. Injects(n, g)
    BY <2>1
  <2>3. n \in Nat
    OBVIOUS
  <2>4. Hits(n, g)
    BY <2>2, <2>3, SelfMap
  <2>5. PICK t \in 0 .. n - 1 : g[t] = k
    BY <2>4 DEF Hits
  <2> QED
    BY <2>1, <2>5
<1>14. ASSUME NEW i \in DOMAIN rx, NEW j \in DOMAIN rx, rx[i].thread = rx[j].thread
       PROVE  rx[i] = rx[j]
  <2>1. \A a \in DOMAIN rx : rx[a].queue = rx[own(rx[a].thread)].queue
    <3>1. TAKE a \in DOMAIN rx
    <3>2. PICK t \in 0 .. n - 1 : rx[own(t)].queue = rx[a].queue
      BY <1>8, <1>13
    <3>3. rx[a].thread = t
      BY <1>9, <1>11, <3>2
    <3> QED
      BY <3>2, <3>3
  <2>2. rx[i].queue = rx[j].queue
    BY <1>14, <2>1
  <2>3. rx[i].lcore = rx[j].lcore
    BY <1>7, <1>14 DEF TablesConsistent
  <2>4. rx[i] \in Params /\ rx[j] \in Params /\ rx[i].port = rx[j].port
    BY <1>7, <1>8
  <2> QED
    BY <1>14, <2>2, <2>3, <2>4, SameParams
<1>15. Matched(rx, n, p)
  <2>1. \A i \in DOMAIN rx : rx[i].thread \in 0 .. n - 1 /\ rx[i].lcore \in setup.lcores
    BY <1>2, <1>3, <1>7 DEF ListChecked
  <2>2. \A i, j \in DOMAIN rx : rx[i].queue = rx[j].queue => rx[i] = rx[j]
    BY <1>9, <1>14
  <2>3. \A k \in 0 .. n - 1 : \E i \in DOMAIN rx : rx[i].queue = k
    BY <1>11, <1>13
  <2> QED
    BY <1>8, <1>10, <1>14, <2>1, <2>2, <2>3 DEF Matched
<1>16. n <= MaxRxq
  <2>1. PICK k \in 0 .. n - 1 : k = n - 1
    BY <1>5
  <2>2. PICK i \in DOMAIN rx : rx[i].queue = k
    BY <1>15 DEF Matched
  <2>3. k < MaxRxq
    BY <1>2, <1>7, <2>2 DEF ListChecked
  <2>4. MaxRxq \in Nat
    BY ConfigurationAssumption
  <2> QED
    BY <2>1, <2>3, <2>4
<1>17. Served(opts.tx, n)
  <2>1. PICK m1 \in Nat : m1 = Len(opts.tx)
    BY <1>2, TxTable
  <2>2. /\ DOMAIN opts.tx = 1 .. m1 /\ DOMAIN tx_thread = 0 .. m1 - 1
        /\ \A i \in 0 .. m1 - 1 : tx_thread[i] = opts.tx[i + 1] /\ tx_thread[i] \in TxParams
        /\ \A j \in DOMAIN opts.tx : j - 1 \in 0 .. m1 - 1 /\ tx_thread[j - 1] = opts.tx[j]
    BY <1>2, <2>1, TxTable
  <2>3. ASSUME NEW j \in DOMAIN opts.tx
        PROVE  opts.tx[j].thread \in 0 .. n - 1 /\ opts.tx[j].lcore \in setup.lcores
    <3>1. PICK w \in TxParams : w = opts.tx[j] /\ w.lcore \in setup.lcores /\ w.thread < n
      BY <1>3, <2>2 DEF TablesConsistent
    <3>2. w.thread \in Nat
      BY DEF TxParams
    <3> QED
      BY <3>1, <3>2
  <2>4. ASSUME NEW t \in 0 .. n - 1 PROVE \E j \in DOMAIN opts.tx : opts.tx[j].thread = t
    <3>1. rings[t] # <<>>
      BY <1>3 DEF TablesConsistent
    <3>2. PICK i \in DOMAIN tx_thread : tx_thread[i].thread = t
      BY <1>2, <1>3, <3>1, FirstRing
    <3>3. i + 1 \in 1 .. m1 /\ tx_thread[i] = opts.tx[i + 1]
      BY <2>2
    <3> QED
      BY <2>2, <3>2, <3>3
  <2> QED
    BY <2>3, <2>4 DEF Served
<1> QED
  BY <1>2, <1>5, <1>6, <1>7, <1>15, <1>16, <1>17 DEF Good

(* What is configured with a list that is matched.                         *)
LEMMA GoodConfigured ==
  ASSUME Inv, HasOptions, pc \in AfterPorts, NEW n \in Nat \ {0}, NEW p,
         Good(opts.rx, opts.tx, opts.mask \cap Ports, n, p)
  PROVE  /\ Configured = {p} \X (0 .. n - 1) /\ Configured # {}
         /\ Cardinality(Configured) = n
<1>1. /\ setup \in Setups /\ opts \in OptsType /\ rx_thread = RxThreads(opts.rx)
      /\ ConfiguredTo(setup.nports) /\ p \in Ports
  BY AtPorts DEF Good
<1>2. nq = [q \in Ports |-> IF q = p THEN n ELSE 0]
  BY <1>1, GoodNic
<1>3. Configured = {p} \X (0 .. n - 1) /\ Cardinality(Configured) = n
  BY <1>1, <1>2, ConfiguredIs
<1>4. <<p, 0>> \in {p} \X (0 .. n - 1)
  OBVIOUS
<1> QED
  BY <1>3, <1>4

(* With options: what is in effect, and the rules, of the list.            *)
LEMMA WithOptionsIff ==
  ASSUME Inv, HasOptions, Ready
  PROVE  InEffect <=> WellFormed
<1> DEFINE Fits(n, p) == Good(opts.rx, opts.tx, opts.mask \cap Ports, n, p)
           Run == IF setup.version = "pthread" THEN PairsRun ELSE TablesConsistent
           Taken == \A i \in DOMAIN setup.argv : Final(i) => TookEffect(setup.argv[i])
<1>1. pc = "running" /\ pc \in AfterPorts
  BY DEF Ready, AfterPorts
<1>2. /\ setup \in Setups /\ ParsingEnded /\ pc \in FromCheck /\ N \in Nat
  BY <1>1, AtPorts, SetupTypes DEF Inv, WithOptions, Options
<1>3. pos > N <=> pos = N + 1 /\ ParsedTo(N + 1)
  BY <1>2 DEF ParsingEnded
<1>4. \A n, p : Fits(n, p) => n \in Nat \ {0}
  BY DEF Good
<1>5. \A n, p : Fits(n, p) => Configured # {} /\ Cardinality(Configured) = n
  BY <1>1, <1>4, GoodConfigured
<1>6. ASSUME NEW n, NEW p, Fits(n, p) PROVE Run
  <2>1. n \in Nat \ {0} /\ Configured = {p} \X (0 .. n - 1)
    BY <1>1, <1>4, <1>6, GoodConfigured
  <2>2. CASE setup.version = "pthread"
    BY <1>6, <2>1, <2>2, GoodPairs
  <2>3. CASE setup.version # "pthread"
    BY <1>1, <1>6, <2>1, <2>3, GoodConsistent
  <2> QED
    BY <2>2, <2>3
<1>7. Configured # {} /\ Run => \E n, p : Fits(n, p)
  <2>1. CASE setup.version = "pthread"
    BY <2>1, PairsGood
  <2>2. CASE setup.version # "pthread"
    <3>1. setup.version = "lthread"
      BY <2>2 DEF HasOptions
    <3> QED
      BY <1>1, <2>2, <3>1, ConsistentGood
  <2> QED
    BY <2>1, <2>2
<1>8. InEffect <=> pos > N /\ Taken /\ Configured # {} /\ Run
  BY DEF InEffect, N
<1>9. pos > N /\ Configured # {} => (Taken <=> InRangeAll(Cardinality(Configured)))
  BY <1>2, <1>3, EffectInRange
<1>10. WellFormed <=> pos > N /\ \E n, p : Fits(n, p) /\ InRangeAll(n)
  BY <1>2, <1>3, WellFormedGood
<1> HIDE DEF Fits, Run, Taken
<1>11. ASSUME InEffect PROVE WellFormed
  <2>1. pos > N /\ Taken /\ Configured # {} /\ Run
    BY <1>8, <1>11
  <2>2. PICK n, p : Fits(n, p)
    BY <1>7, <2>1
  <2>3. InRangeAll(n)
    BY <1>5, <1>9, <2>1, <2>2
  <2> QED
    BY <1>10, <2>1, <2>2, <2>3
<1>12. ASSUME WellFormed PROVE InEffect
  <2>1. PICK n, p : pos > N /\ Fits(n, p) /\ InRangeAll(n)
    BY <1>10, <1>12
  <2>2. Configured # {} /\ Cardinality(Configured) = n /\ Run
    BY <1>5, <1>6, <2>1
  <2>3. Taken
    BY <1>9, <2>1, <2>2
  <2> QED
    BY <1>8, <2>1, <2>2, <2>3
<1> QED
  BY <1>11, <1>12

(* Once the threads run, the command line is in effect exactly if it       *)
(* follows the rules (parse_args, the tables, the ports and the launch).   *)
THEOREM EffectIffRules == Spec => []InEffectIffWellFormed
<1>1. Inv => InEffectIffWellFormed
  BY NoOptionsIff, WithOptionsIff DEF InEffectIffWellFormed, Ready
<1> QED
  BY <1>1, Invariant, PTL
=============================================================================
