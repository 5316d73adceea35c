-------------------------- MODULE MCLthreadStartup --------------------------
(* Model checking of LthreadStartup.                                       *)
EXTENDS LthreadStartup

Rx(q, l, t) == [port |-> 0, queue |-> q, lcore |-> l, thread |-> t]
Tx(l, t) == [lcore |-> l, thread |-> t]

On(n, master, rx, tx) ==
  [rx |-> rx, tx |-> tx, lcores |-> 0 .. n - 1, master |-> master]

SomeSetups ==
  {On(3, 0, <<Rx(0, 1, 0)>>, <<Tx(2, 0)>>),            \* an lcore each
   On(1, 0, <<Rx(0, 0, 0)>>, <<Tx(0, 0)>>),            \* one lcore for all
   On(2, 0, <<Rx(0, 1, 0)>>, <<Tx(1, 0)>>),            \* beside the rx lthread
   On(2, 0, <<Rx(0, 1, 0)>>, <<Tx(1, 1)>>),            \* no ring
   On(3, 0, <<Rx(0, 1, 0)>>, <<Tx(1, 0), Tx(2, 0)>>),  \* two rings, one queue
   On(2, 0, <<Rx(0, 1, 0), Rx(1, 1, 0)>>,
            <<Tx(1, 0), Tx(0, 0)>>),                   \* two queues
   On(2, 0, <<Rx(0, 0, 0), Rx(1, 1, 1)>>,
            <<Tx(1, 0), Tx(0, 1)>>),                   \* crossed pairs
   On(2, 0, <<Rx(0, 1, 0), Rx(1, 1, 1)>>,
            <<Tx(1, 0), Tx(1, 1)>>),                   \* two pairs on an lcore
   On(2, 0, <<Rx(0, 1, 0), Rx(1, 1, 2)>>,
            <<Tx(1, 0), Tx(1, 2)>>),                   \* a gap
   On(2, 1, <<Rx(0, 1, 0), Rx(1, 1, 2)>>,
            <<Tx(1, 0), Tx(1, 2), Tx(1, 1)>>)}         \* lcore 0 a slave
=============================================================================
