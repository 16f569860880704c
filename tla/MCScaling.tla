----------------------------- MODULE MCScaling ------------------------------
(***************************************************************************)
(* An instance of Scaling for TLC: input 1 -> support node 1 -> link 2 ->  *)
(* scalable anchor 2 -> link 3 -> fixed anchor 3 -> output 4.              *)
(***************************************************************************)
EXTENDS Scaling

RowPolicy == <<"support", "scalable", "fixed">>
RowThreads == <<1, 1, 1>>
RowMax == <<1, 3, 1>>
RowIn == <<1, 2, 3>>
RowOut == <<2, 3, 4>>
RowOuts == <<{2}, {3}, {4}>>
RowTrends == <<{"starved", "growing"}, {"draining"}, {"draining", "growing"}, {"stable"}>>
=============================================================================
