-------------------------- MODULE MCConfiguration ---------------------------
(* Model checking of Configuration.  All the pairs of a list of up to two  *)
(* rx tuples and one of up to two tx tuples over a few lcores and          *)
(* thread-ids, some lists out of line, and command lines with one option   *)
(* out of line.                                                            *)
EXTENDS Configuration

O(name, arg) == [name |-> name, arg |-> arg]

UpTo2(T) == {<<>>} \cup {<<a>> : a \in T} \cup {<<a, b>> : a \in T, b \in T}

RxLists ==
  UpTo2({Rx(0, q, l, t) : q \in {0, 1}, l \in {1, 2}, t \in {0, 1}}) \cup
  {<<Rx(0, 0, 1, 0), Rx(0, 1, 2, 2)>>,              \* a gap
   <<Rx(0, 0, 1, 1)>>, <<Rx(0, 1, 1, 1)>>, <<Rx(0, 1, 0, 1)>>,
   <<Rx(1, 0, 1, 0)>>, <<Rx(0, 3, 1, 0)>>,          \* other port, queue
   <<Rx(0, 0, 5, 0)>>,                              \* lcore not enabled
   <<Rx(0, 0, 1, 0), Rx(0, 1, 1, 0), Rx(0, 2, 1, 0)>>, \* too many queues
   <<Rx(0, 0, 1, 0), Rx(0, 0, 1, 0), Rx(0, 0, 1, 0)>>,
   <<Rx(0, 0, 1, 0), Rx(0, 1, 1, 1), Rx(0, 2, 2, 2), Rx(0, 3, 2, 3)>>,
   <<Rx(0, 0, 1, 0), Rx(0, 1, 2, 1), Rx(0, 2, 3, 2)>>} \* too many pools

TxLists ==
  UpTo2({Tx(l, t) : l \in {2, 3, 4}, t \in {0, 1}}) \cup
  {<<Tx(3, 0), Tx(4, 2)>>, <<Tx(3, 0), Tx(4, 3)>>,
   <<Tx(3, 2), Tx(4, 2), Tx(2, 2)>>,
   <<Tx(4, 0), Tx(5, 1), Tx(6, 2)>>, <<Tx(1, 0), Tx(2, 1), Tx(3, 2), Tx(4, 3)>>}

Machine(v, master, ports, argv) ==
  [version |-> v, lcores |-> 0 .. 4, master |-> master, nports |-> ports,
   argv |-> argv]

Tabled ==
  {Machine(v, 0, 1, <<O("p", {0}), O("rx", rx), O("tx", tx)>>) :
     v \in {"pthread", "lthread"}, rx \in RxLists, tx \in TxLists}

(* lcore 0 is a slave.                                                     *)
OtherMaster ==
  {Machine("pthread", 4, 1, <<O("p", {0}), O("rx", rx), O("tx", tx)>>) :
     rx \in RxLists, tx \in {<<Tx(3, 1)>>, <<Tx(2, 0), Tx(3, 1)>>}}

Pair == <<O("rx", <<Rx(0, 0, 1, 0)>>), O("tx", <<Tx(2, 0)>>)>>

Single ==
  {O("p", m) : m \in {Bad, {}, {0}, {1}, {0, 1}, {5}, {0, 5}}} \cup
  {O(n, a) : n \in {"nb_rxq", "nb_rx_desc", "burst_size"},
             a \in {Bad, 0, 1, 2, 3, 4, 5}} \cup
  {O("P", 0), O("write-file", 0), O("no-numa", 0), O("enable-jumbo", 0),
   O("rx", Bad), O("tx", Bad), O("rx", <<Rx(0, 0, 9, 0)>>),
   O("tx", <<Tx(9, 0)>>), O("other", 0)}

OneMore ==
  {Machine(v, 0, ports, a) :
     v \in {"pthread", "lthread"}, ports \in {0, 1, 2},
     a \in {<<o>> \o Pair : o \in Single} \cup
           {<<O("p", {0})>> \o Pair \o <<o>> :
              o \in {x \in Single : x.name \notin {"p", "rx", "tx"}}}}

(* The last value of an option counts, and may be none.                    *)
Repeated ==
  {Machine(v, 0, 2, <<O("p", {0})>> \o Pair \o <<a, b>>) :
     v \in {"pthread", "lthread"},
     a, b \in {O("p", {0}), O("p", {1}), O("p", Bad), O("p", {5}),
               O("burst_size", 0), O("burst_size", 3), O("burst_size", 4),
               O("nb_rxq", 1), O("nb_rxq", 2), O("rx", <<Rx(0, 0, 1, 0)>>),
               O("rx", <<Rx(0, 1, 1, 0)>>), O("rx", Bad), O("tx", <<Tx(2, 0)>>),
               O("tx", <<Tx(2, 1)>>), O("other", 0)}}

Bare ==
  {[Machine(v, 0, 4, <<>>) EXCEPT !.lcores = 0 .. 8] :
     v \in {"pthread", "lthread"}} \cup
  {[Machine(v, 0, ports, <<>>) EXCEPT !.lcores = 0 .. n] :
     v \in {"rtc", "hardware"}, ports \in {0, 1}, n \in 0 .. 4}

AllSetups == Tabled \cup OtherMaster \cup OneMore \cup Repeated \cup Bare

Rings == [rtc |-> 2, hardware |-> 1]
=============================================================================
