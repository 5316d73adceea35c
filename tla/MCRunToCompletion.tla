------------------------- MODULE MCRunToCompletion -------------------------
(* Model checking of RunToCompletion: buffers, flows and builds.           *)
EXTENDS RunToCompletion

TwoFlows == {<<"f">>, <<"g">>}

TwoBufs == [t \in Queues |-> {<<t, k>> : k \in 1 .. 2}]

OnFirst == [t \in Queues |-> IF t = 0 THEN Flows ELSE {}]
OneEach == [t \in Queues |-> IF t = 0 THEN {<<"f">>} ELSE {<<"g">>}]

(* The two ways to free each buffer once: hash_list and linked_list.       *)
FreedOnce ==
  {[flowsOf |-> OneEach, freesInLoop |-> TRUE, freesAfter |-> FALSE],
   [flowsOf |-> OnFirst, freesInLoop |-> FALSE, freesAfter |-> TRUE]}

(* double_hash with FLOW_LEVEL frees in both places.                       *)
FreedTwice ==
  {[flowsOf |-> OnFirst, freesInLoop |-> TRUE, freesAfter |-> TRUE]}
=============================================================================
