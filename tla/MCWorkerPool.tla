---------------------------- MODULE MCWorkerPool ----------------------------
(***************************************************************************)
(* Instances of WorkerPool for TLC.  Worker threads are numbered; "w1" and *)
(* the following ones are started with the pipeline, then the reserve.     *)
(***************************************************************************)
EXTENDS WorkerPool, TLC

\* A weighted branch on the input, with an external node on one arm and, on the
\* other, a fixed node that joins both and returns its state.
MixNode == {"s", "x", "d"}
MixFeeds == [n \in MixNode |-> CASE n = "s" -> {}
                                  [] n = "x" -> {"s"}
                                  [] n = "d" -> {"s", "x"}]
MixMax == [n \in MixNode |-> 1]
MixWorker == {"w1", "w2"}
MixStartup == [w \in MixWorker |-> IF w = "w1" THEN "s" ELSE "d"]

\* One scalable node alone.
SoloNode == {"a"}
SoloFeeds == [n \in SoloNode |-> {}]
SoloMax == [n \in SoloNode |-> 2]
SoloWorker == {"w1", "w2", "w3"}
MoreWorker == SoloWorker \cup {"w4"}
SoloStartup == [w \in {"w1"} |-> "a"]
DuoStartup == [w \in {"w1", "w2"} |-> "a"]
SoloReserve == {"w2"}
DuoReserve == {"w3"}
=============================================================================
