----------------------------- MODULE MCPipeline -----------------------------
(***************************************************************************)
(* Instances of Pipeline for TLC.                                          *)
(***************************************************************************)
EXTENDS Pipeline, TLC

\* input -> a -> b -> output, with one worker each.
RowLink == {"in", "mid", "out"}
RowServes == [w \in {"a1", "b1"} |-> IF w = "a1" THEN "a" ELSE "b"]
RowIn == [n \in {"a", "b"} |-> IF n = "a" THEN "in" ELSE "mid"]
RowOut == [n \in {"a", "b"} |-> IF n = "a" THEN {"mid"} ELSE {"out"}]

\* Two nodes share the input link and are joined: input -> [a, b] -> c.
JoinLink == {"in", "join", "out"}
JoinServes == [w \in {"a1", "b1", "c1"} |->
                 CASE w = "a1" -> "a" [] w = "b1" -> "b" [] w = "c1" -> "c"]
JoinIn == [n \in {"a", "b", "c"} |-> IF n = "c" THEN "join" ELSE "in"]
JoinOut == [n \in {"a", "b", "c"} |-> IF n = "c" THEN {"out"} ELSE {"join"}]

\* A branch s with a node behind its left arm and the output on its right.
ForkLink == {"in", "left", "out"}
ForkServes == [w \in {"s1", "a1"} |-> IF w = "s1" THEN "s" ELSE "a"]
ForkIn == [n \in {"s", "a"} |-> IF n = "s" THEN "in" ELSE "left"]
ForkOut == [n \in {"s", "a"} |-> IF n = "s" THEN {"left", "out"} ELSE {"out"}]

ASSUME InstancesArePlumbed == Plumbed
=============================================================================
