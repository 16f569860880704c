--------------------------- MODULE PipelineMacro ---------------------------
(***************************************************************************)
(* The pipeline! macro: how it turns the edges of a named graph into links *)
(* with a union-find over the ends of the nodes, what it refuses, and the  *)
(* builder calls it expands to.  Start then judges that graph.             *)
(***************************************************************************)
EXTENDS Graph, SequencesExt

CONSTANTS
    Declared,   \* the named nodes, in order: [name, kind, marked], where kind is
                \* what the node is and marked what its expression looks like
    MaxPairs    \* bound on the pairs of endpoints the edges connect

Names == {Declared[i].name : i \in DOMAIN Declared}
Endpoint == Names \cup {"input", "output", "undeclared"}
MacroKind == {"managed", "merging", "external"}

ASSUME MacroAssumption ==
    /\ Declared \in Seq([name : STRING, kind : MacroKind, marked : BOOLEAN])
    /\ Declared # <<>>
    /\ Names \cap {"input", "output", "undeclared"} = {}
    /\ MaxPairs \in Nat

VARIABLES
    edges,      \* the pairs <<from, to>> declared so far
    dangling,   \* the sources of edges to an empty list
    parent,     \* the union-find over the keys
    repeated    \* some source feeds output twice

macroVars == <<edges, dangling, parent, repeated>>
declareVars == <<graphVars, macroVars>>

SourceKey(from) == <<from, "out">>
DestKey(to) == <<to, "in">>
Key == (Names \X {"in", "out"}) \cup {SourceKey("input"), DestKey("output")}

\* The keys find visits from k, and the last of them.
FindPath(p, k) ==
    LET path[x \in DOMAIN p] == {x} \cup (IF p[x] = x THEN {} ELSE path[p[x]]) IN path[k]
Root(p, k) == CHOOSE x \in FindPath(p, k) : p[x] = x

\* find leaves every key it visited pointing at the root.
Found(p, k) == [x \in DOMAIN p |-> IF x \in FindPath(p, k) THEN Root(p, k) ELSE p[x]]

\* Seeded fault: the end itself is moved, not its root.
UnionEnds(p, left, right) ==
    LET q == Found(Found(p, left), right)
    IN  [q EXCEPT ![right] = Root(q, left)]
Union(p, left, right) ==
    LET q == Found(Found(p, left), right)
    IN  [q EXCEPT ![Root(q, right)] = Root(q, left)]

DeclareInit ==
    /\ phase \in {"edges", "edit"} /\ NewBuilder
    /\ edges = {} /\ dangling = {} /\ parent = [k \in Key |-> k] /\ repeated = FALSE

-----------------------------------------------------------------------------
(* The edges.  An edge statement connects every source of its left list    *)
(* with every destination of its right one: one step is one such pair.     *)

Known(from, to) == from \in Names \cup {"input"} /\ to \in Names \cup {"output"}

\* A compile error: what the macro had gathered is gone.
Refuse(why) ==
    /\ phase' = "done" /\ verdict' = why
    /\ edges' = {} /\ dangling' = {} /\ parent' = [k \in Key |-> k]
    /\ repeated' = FALSE
    /\ UNCHANGED <<linkCount, nodes, feeders, outputLink, stateReturn>>

\* A pair with output may come again: in a -> [output, output] a feeds output once,
\* in [a, a] -> output or two statements twice.  Another pair declared twice only
\* shortens paths of the union-find.
DeclarePair(from, to) ==
    /\ phase = "edges" /\ Known(from, to)
    /\ IF <<from, to>> \in edges THEN to = "output"
       ELSE Cardinality(edges) + Cardinality(dangling) < MaxPairs
    /\ edges' = edges \cup {<<from, to>>}
    /\ parent' = Union(parent, SourceKey(from), DestKey(to))
    /\ repeated' \in {repeated, repeated \/ <<from, to>> \in edges}
    /\ UNCHANGED <<dangling, graphVars>>

\* validate_endpoint, and the sides source_key and dest_key refuse; the return
\* state is judged before, on all statements, those still to come included.
RefusePair(from, to) ==
    /\ phase = "edges" /\ ~Known(from, to)
    /\ \E why \in {"endpoint", "macro ReturnState"} : Refuse(why)

\* a -> []: the source counts as used, and nothing is connected to it.
DeclareDangling(from) ==
    /\ phase = "edges" /\ Known(from, "output") /\ from \notin dangling
    /\ Cardinality(edges) + Cardinality(dangling) < MaxPairs
    /\ dangling' = dangling \cup {from}
    /\ UNCHANGED <<edges, parent, repeated, graphVars>>

-----------------------------------------------------------------------------
(* The whole graph                                                         *)

UsedOutputs == {e[1] : e \in edges} \cup dangling
UsedInputs == {e[2] : e \in edges}

\* Seeded fault: a node without an edge into it passes.
DisconnectedOutputs ==
    \/ "input" \notin UsedOutputs \/ "output" \notin UsedInputs
    \/ \E n \in Names : n \notin UsedOutputs
Disconnected ==
    \/ "input" \notin UsedOutputs \/ "output" \notin UsedInputs
    \/ \E n \in Names : n \notin UsedInputs \/ n \notin UsedOutputs

\* detect_cycles follows the declared pairs, not the links they become.
Following(n) == {m \in Names : <<n, m>> \in edges}
EdgesCycle == Cyclic(Names, [n \in Names |-> Following(n)])

\* named_return_state_mergeable: the one source of an edge to output, a managed
\* node.  expr_declares_state_merge reads the node's expression: a wrapper around
\* node_with_state_merge counts, a node held in a variable does not.
Feeding == {e[1] : e \in {f \in edges : f[2] = "output"}}
NodeOf(name) == Declared[SelectInSeq(Declared, LAMBDA d : d.name = name)]
LooksMerging(name) == NodeOf(name).marked

\* Seeded fault: any one node may feed output.
ReturnStateUnchecked == repeated \/ ~ \E n \in Names : Feeding = {n}
ReturnStateRefused ==
    repeated \/ ~ \E n \in Names : Feeding = {n} /\ NodeOf(n).kind # "external"

MacroRefusal(returns) ==
    IF returns /\ ReturnStateRefused THEN "macro ReturnState"
    ELSE IF Disconnected THEN "Disconnected"
    ELSE IF EdgesCycle THEN "macro Cycle" ELSE "none"

RefuseGraph(returns) ==
    LET why == MacroRefusal(returns)
    IN  phase = "edges" /\ why # "none" /\ Refuse(why)

\* One link for each root: input() for the input's, link() for the others.
Expand(returns) ==
    LET input == Root(parent, SourceKey("input"))
        roots == {Root(parent, k) : k \in Key}
        order == <<input>> \o SetToSeq(roots \ {input})
        LinkOf(k) == (CHOOSE i \in DOMAIN order : order[i] = Root(parent, k)) - 1
    IN  /\ phase = "edges" /\ MacroRefusal(returns) = "none"
        /\ phase' = "built"
        /\ linkCount' = Len(order)
        /\ nodes' = [i \in DOMAIN Declared |->
                       NodeSpec(Declared[i].kind, LinkOf(DestKey(Declared[i].name)),
                            {LinkOf(SourceKey(Declared[i].name))})]
        /\ outputLink' = LinkOf(DestKey("output"))
        /\ stateReturn' = CASE ~returns -> "none"
                            [] returns /\ \E n \in Feeding : LooksMerging(n) -> "merged"
                            [] OTHER -> "state"
        /\ UNCHANGED <<feeders, verdict, macroVars>>

\* nodes = [...]: a chain of add_node calls, without edges to check; marked is
\* what the last expression looks like.
ExpandLinear(kinds, marked, returns) ==
    /\ phase = "edges" /\ edges = {} /\ dangling = {}
    /\ phase' = "built"
    /\ linkCount' = Len(kinds) + 1
    /\ nodes' = [i \in DOMAIN kinds |-> NodeSpec(kinds[i], i - 1, {i})]
    /\ outputLink' = Len(kinds)
    /\ stateReturn' = CASE ~returns -> "none"
                        [] returns /\ kinds # <<>> /\ marked -> "merged"
                        [] OTHER -> "state"
    /\ UNCHANGED <<feeders, verdict, macroVars>>

DeclareNext ==
    \/ BuilderNext /\ UNCHANGED macroVars
    \/ \E from, to \in Endpoint : DeclarePair(from, to) \/ RefusePair(from, to)
    \/ \E from \in Endpoint : DeclareDangling(from)
    \/ \E returns \in BOOLEAN : Expand(returns) \/ RefuseGraph(returns)
    \/ \E n \in 0..2, marked, returns \in BOOLEAN :
         \E kinds \in [1..n -> {"managed", "merging"}] : ExpandLinear(kinds, marked, returns)

DeclareSpec == DeclareInit /\ [][DeclareNext]_declareVars

-----------------------------------------------------------------------------
(* Properties                                                              *)

Answer ==
    {"none", "endpoint", "macro ReturnState", "Disconnected", "macro Cycle", "NoNodes",
     "InvalidNode", "Cycle", "ReturnState", "MissingStateMerge", "WorkerCap",
     "ThreadHints", "ok"}

GraphTypeOK ==
    /\ phase \in {"edges", "edit", "built", "done"}
    /\ linkCount \in Nat \ {0} /\ outputLink \in Nat /\ feeders \subseteq FeederLinks
    /\ nodes \in Seq([kind : Kinds \cup MacroKind, in : Nat, outs : SUBSET Nat])
    /\ stateReturn \in {"none", "state", "merged"} /\ verdict \in Answer
    /\ edges \subseteq Endpoint \X Endpoint /\ dangling \subseteq Endpoint
    /\ parent \in [Key -> Key] /\ repeated \in BOOLEAN

\* The links are what the edges connect: after any number of pairs, declared in
\* any order, the two ends of each pair are in one link, and no part of a link
\* is without a pair that leads to its rest: path compression and the order of
\* the statements neither lose an end of a link nor give it one.
LinksAreComponents ==
    LET root == [k \in Key |-> Root(parent, k)]
        link(k) == {l \in Key : root[l] = k}
    IN  phase = "edges" =>
          /\ \A e \in edges : root[SourceKey(e[1])] = root[DestKey(e[2])]
          /\ \A k \in Key : \A S \in (SUBSET link(k)) \ {{}, link(k)} :
               \E e \in edges : SourceKey(e[1]) \in S <=> DestKey(e[2]) \notin S

\* Some links lead to each other round and round: each has a node of the set
\* that writes it and reads the set too.
LinkCycle ==
    \E S \in (SUBSET (0 .. linkCount)) \ {{}} :
      \A l \in S : \E n \in Index : nodes[n].in \in S /\ l \in nodes[n].outs

\* The verdict on cycles is exact: start answers "Cycle" only for a graph in
\* which some link leads back to itself, and no graph it judges sound there (or
\* faults for a later reason) has one, branch arms and shared links included.
CycleVerdictExact ==
    /\ verdict = "Cycle" => LinkCycle
    /\ verdict \in {"ReturnState", "MissingStateMerge", "WorkerCap", "ThreadHints", "ok"}
         => ~LinkCycle

\* Nothing is stranded in a graph that pipeline! expands and start accepts,
\* provided no edge goes to an empty list: no node writes the input link or reads the
\* output link, every link a node reads is written and every link a node writes is
\* read.
AcceptedIsPlumbed ==
    phase = "done" /\ verdict = "ok" /\ edges # {} /\ dangling = {} =>
      \A n \in Index :
        /\ 0 \notin nodes[n].outs /\ nodes[n].in # outputLink
        /\ nodes[n].in # 0 => \E m \in Index : nodes[n].in \in nodes[m].outs
        /\ \A l \in nodes[n].outs \ {outputLink} : \E m \in Index : nodes[m].in = l

\* The macro judges a return state by the declared pairs and what an expression looks
\* like, start by the links and what the node can do (return_state).  Of a graph that
\* pipeline! expands, without an edge to an empty list and with one node to a name,
\* start refuses no return state the macro let through, unless the macro promised a
\* merge after misreading the expression of the one node that feeds output.
ReturnStatesAgree ==
    /\ phase = "done" /\ edges # {} /\ dangling = {}
    /\ \A i, j \in DOMAIN Declared : Declared[i].name = Declared[j].name => i = j
    => /\ verdict # "ReturnState"
       /\ verdict = "MissingStateMerge" =>
            \E n \in Names :
              Feeding = {n} /\ LooksMerging(n) /\ NodeOf(n).kind # "merging"
=============================================================================
