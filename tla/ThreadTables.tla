---------------------------- MODULE ThreadTables ----------------------------
(***************************************************************************)
(* The tables of rx and tx threads that the options --rx and --tx make, in *)
(* pthread/main.c and, with the same code, in lthread/main.c: what         *)
(* init_rx_queues, init_tx_threads and init_rx_rings leave in rx_thread    *)
(* and tx_thread.  Both arrays are static, so that an entry that no option *)
(* names is all zero.                                                      *)
(***************************************************************************)
EXTENDS Integers, Sequences, SequencesExt

(* A tuple of --rx (struct lcore_params) and of --tx.                      *)
Params == [port : Nat, queue : Nat, lcore : Nat, thread : Nat]
TxParams == [lcore : Nat, thread : Nat]

(* Where a list of parameters names thread t: the loops over the list pick *)
(* the entries in the order of the command line.                           *)
Indices(params, t) ==
  LET found[i \in 0 .. Len(params)] ==
        IF i = 0 THEN <<>>
        ELSE IF params[i].thread = t THEN Append(found[i - 1], i)
        ELSE found[i - 1]
  IN  found[Len(params)]

(* The parameters of rx thread t.                                          *)
OfThread(params, t) ==
  [k \in DOMAIN Indices(params, t) |-> params[Indices(params, t)[k]]]

(* n_rx_thread: one more than the greatest id, used or not below it.       *)
NThreads(rx) == Max({0} \cup {rx[i].thread + 1 : i \in DOMAIN rx})

(* A thread with more queues than its list holds.                          *)
TooManyQueues(rx, limit) ==
  \E t \in 0 .. NThreads(rx) - 1 : Len(OfThread(rx, t)) > limit

(* Queues are added to the list of their thread; the lcore is the last one *)
(* named.                                                                  *)
RxThread(rx, t) ==
  LET own == OfThread(rx, t) IN
  [lcore |-> IF own = <<>> THEN 0 ELSE Last(own).lcore,
   queues |-> [i \in DOMAIN own |-> <<own[i].port, own[i].queue>>]]

RxThreads(rx) == [t \in 0 .. NThreads(rx) - 1 |-> RxThread(rx, t)]

(* tx threads are numbered in the order of the command line.               *)
TxThreads(tx) == [i \in 0 .. Len(tx) - 1 |-> tx[i + 1]]

(* The test is on the number of tx threads, where rx threads are meant.    *)
RingRefused(tx_thread, ntx) ==
  \E i \in DOMAIN tx_thread : tx_thread[i].thread > ntx

(* The rings of rx thread t, each named by its tx thread.                  *)
RingsOf(tx, t) ==
  [k \in DOMAIN Indices(tx, t) |-> Indices(tx, t)[k] - 1]
=============================================================================
