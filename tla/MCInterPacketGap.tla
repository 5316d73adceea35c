-------------------------- MODULE MCInterPacketGap --------------------------
(* Model checking of InterPacketGap: who gets which flows, and how.        *)
EXTENDS InterPacketGap

OneQueue == [t \in Threads |-> IF t = 0 THEN Flows ELSE {}]

OneFlowPerQueue == [t \in Threads |-> Flows \cap {t}]

Slots == [f \in Flows |-> "slot"]
Lists == [f \in Flows |-> IF f = 0 THEN "grown" ELSE "slot"]
HashLists == [f \in Flows |-> IF f = 0 THEN "slot"
                              ELSE IF f = 1 THEN "entry" ELSE "added"]

(* One queue with each version, and all queues with a local global.        *)
OneQueueOrLocal ==
  [flowsOf : {OneQueue}, placeOf : {Slots, HashLists}, countFirst : {FALSE},
   sharedGlobal : {TRUE}]
    \cup [flowsOf : {OneQueue}, placeOf : {Lists}, countFirst : {TRUE},
          sharedGlobal : {TRUE}]
    \cup [flowsOf : {OneFlowPerQueue}, placeOf : {Slots, Lists, HashLists},
          countFirst : {TRUE}, sharedGlobal : {FALSE}]

(* The double_hash of the run-to-completion version on all queues.         *)
AllQueuesShared ==
  [flowsOf : {OneFlowPerQueue}, placeOf : {Slots}, countFirst : {FALSE},
   sharedGlobal : {TRUE}]
=============================================================================
