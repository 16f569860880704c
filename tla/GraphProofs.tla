---------------------------- MODULE GraphProofs ----------------------------
(***************************************************************************)
(* Theorems about the graph, for every set of named nodes, any edges in    *)
(* any order, any builder calls and every bound: the depth first search    *)
(* finds a cycle exactly when there is one, the union-find makes one link  *)
(* of each connected part of the edges, a graph that pipeline! expands and  *)
(* start accepts strands nothing, and start takes the return states that   *)
(* pipeline! lets through.                                                 *)
(*                                                                         *)
(* What is recursive in the model, a fold, the visits of the search and    *)
(* the path to a root, is first shown to have the value its equation       *)
(* gives; what it computes then follows from a smallest counterexample,    *)
(* be it a number, a set of nodes or a number of nodes not yet marked.     *)
(***************************************************************************)
EXTENDS PipelineMacro, FiniteSetTheorems, SequenceTheorems, WellFoundedInduction, TLAPS

-----------------------------------------------------------------------------
(* Smallest counterexamples.                                               *)

LEMMA SmallestExists ==
    ASSUME NEW N, N \subseteq Nat, N # {}
    PROVE  \E n \in N : \A m \in N : n <= m
<1> DEFINE R == OpToRel(<, Nat)
<1>1. IsWellFoundedOn(R, Nat)
  BY NatLessThanWellFounded
<1> HIDE DEF R
<1>2. PICK n \in N : \A m \in N : ~(<<m, n>> \in R)
  BY <1>1, WFMin
<1>3. \A m \in N : m < n => <<m, n>> \in R
  BY DEF R, OpToRel
<1>4. \A m \in N : ~(m < n)
  BY <1>2, <1>3
<1> QED
  BY <1>4

\* A smallest set of C.
Minimal(C, T) == T \in C /\ \A U \in C : U \subseteq T => U = T

LEMMA MinimalExists ==
    ASSUME NEW S, NEW C, IsFiniteSet(S), C \subseteq SUBSET S, C # {}
    PROVE  \E T : Minimal(C, T)
<1> DEFINE R == StrictSubsetOrdering(S)
<1>1. IsWellFoundedOn(R, SUBSET S)
  BY FS_StrictSubsetOrderingWellFounded, FS_FiniteSubsetsOfFinite
<1> HIDE DEF R
<1>2. PICK T \in C : \A U \in C : ~(<<U, T>> \in R)
  BY <1>1, WFMin
<1>3. \A U \in C : U \subseteq T /\ U # T => <<U, T>> \in R
  BY DEF R, StrictSubsetOrdering
<1>4. \A U \in C : ~(U \subseteq T /\ U # T)
  BY <1>2, <1>3, Zenon
<1> QED
  BY <1>4, Zenon DEF Minimal

-----------------------------------------------------------------------------
(* The fold over the children.  FoldSet chooses the function that solves   *)
(* its equation; such a function exists for every finite set.              *)

Pick(T) == CHOOSE x \in T : TRUE
FoldStep(visit, marks, iter, T) ==
    IF T = {} THEN marks ELSE visit[Pick(T)][iter[T \ {Pick(T)}]]
Folding(visit, S, marks, iter) ==
    iter = [T \in SUBSET S |-> FoldStep(visit, marks, iter, T)]

LEMMA PickIn == ASSUME NEW T, T # {} PROVE Pick(T) \in T
  BY DEF Pick

LEMMA FoldDefined ==
    ASSUME NEW visit, NEW S, IsFiniteSet(S), NEW marks
    PROVE  \E iter : Folding(visit, S, marks, iter)
<1> DEFINE Upto(iter, k) ==
             \A T \in SUBSET S : Cardinality(T) < k =>
                iter[T] = FoldStep(visit, marks, iter, T)
           K == {k \in Nat : ~ \E iter : Upto(iter, k)}
<1>1. \A T \in SUBSET S : IsFiniteSet(T) /\ Cardinality(T) \in Nat
                          /\ Cardinality(T) <= Cardinality(S)
  BY FS_Subset, FS_CardinalityType
<1>2. Cardinality(S) \in Nat
  BY FS_CardinalityType
<1>3. \A T \in SUBSET S : T # {} => /\ T \ {Pick(T)} \in SUBSET S
                                    /\ Cardinality(T \ {Pick(T)}) < Cardinality(T)
  BY <1>1, PickIn, FS_RemoveElement
<1>4. ASSUME NEW c \in Nat, ~ \E iter : Upto(iter, c) PROVE FALSE
  <2>0. c \in K
    BY <1>4
  <2>1. PICK k \in K : \A j \in K : k <= j
    BY <2>0, SmallestExists
  <2>8. ~ \E iter : Upto(iter, k)
    BY <2>1
  <2>2. k # 0
    BY <1>1
  <2>3. k - 1 \in Nat /\ k - 1 \notin K
    BY <2>1, <2>2
  <2>4. PICK g : Upto(g, k - 1)
    BY <2>3
  <2> DEFINE h == [T \in SUBSET S |-> FoldStep(visit, marks, g, T)]
  <2>5. \A T \in SUBSET S : Cardinality(T) < k - 1 => h[T] = g[T]
    BY <2>4
  <2>6. ASSUME NEW T \in SUBSET S, Cardinality(T) < k
        PROVE  h[T] = FoldStep(visit, marks, h, T)
    <3>1. T # {} => h[T \ {Pick(T)}] = g[T \ {Pick(T)}]
      <4>1. k - 1 \in Nat /\ k \in Nat
        BY <2>1, <2>2
      <4>2. ASSUME T # {}
            PROVE  /\ T \ {Pick(T)} \in SUBSET S
                   /\ Cardinality(T \ {Pick(T)}) < k - 1
        <5>1. /\ T \ {Pick(T)} \in SUBSET S
              /\ Cardinality(T \ {Pick(T)}) < Cardinality(T)
          BY <1>3, <4>2
        <5>2. Cardinality(T) \in Nat /\ Cardinality(T \ {Pick(T)}) \in Nat
          BY <1>1, <5>1
        <5> QED
          BY <2>6, <4>1, <5>1, <5>2
      <4> HIDE DEF h
      <4> QED
        BY <2>5, <4>2
    <3> QED
      BY <3>1 DEF FoldStep
  <2>7. Upto(h, k)
    BY <2>6
  <2> HIDE DEF Upto, h
  <2> QED
    BY <2>7, <2>8
<1>5. PICK g : Upto(g, Cardinality(S) + 1)
  <2>1. Cardinality(S) + 1 \in Nat
    BY <1>2
  <2> HIDE DEF Upto
  <2> QED
    BY <1>4, <2>1
<1> DEFINE h == [T \in SUBSET S |-> g[T]]
<1>6. ASSUME NEW T \in SUBSET S PROVE h[T] = FoldStep(visit, marks, h, T)
  <2>1. g[T] = FoldStep(visit, marks, g, T)
    BY <1>1, <1>2, <1>5
  <2>2. T # {} => h[T \ {Pick(T)}] = g[T \ {Pick(T)}]
    OBVIOUS
  <2> QED
    BY <2>1, <2>2 DEF FoldStep
<1>7. Folding(visit, S, marks, h)
  BY <1>6 DEF Folding
<1> QED
  BY <1>7

\* The values of the fold on the subsets of S, down to the marks it starts from.
FoldOf(visit, S, marks, iter) ==
    /\ \A T \in SUBSET S : iter[T] = FoldStep(visit, marks, iter, T)
    /\ VisitAll(visit, S, marks) = iter[S]

LEMMA VisitAllFolds ==
    ASSUME NEW visit, NEW S, NEW marks, IsFiniteSet(S)
    PROVE  \E iter : FoldOf(visit, S, marks, iter)
<1> DEFINE it == CHOOSE iter : Folding(visit, S, marks, iter)
<1>1. VisitAll(visit, S, marks) = it[S]
  BY DEF VisitAll, FoldSet, MapThenFoldSet, Folding, FoldStep, Pick
<1>2. Folding(visit, S, marks, it)
  BY FoldDefined
<1> HIDE DEF it
<1>3. \A T \in SUBSET S : it[T] = FoldStep(visit, marks, it, T)
  BY <1>2 DEF Folding
<1> QED
  BY <1>1, <1>3 DEF FoldOf

\* Visiting one more node leads from J of the nodes visited to J with that node.
Climbs(visit, S, J) ==
    \A T \in SUBSET S : \A n \in T : \A m \in J[T \ {n}] : visit[n][m] \in J[T]

LEMMA VisitAllReaches ==
    ASSUME NEW visit, NEW S, NEW marks, NEW J, IsFiniteSet(S),
           marks \in J[{}], Climbs(visit, S, J)
    PROVE  VisitAll(visit, S, marks) \in J[S]
<1>1. PICK iter : FoldOf(visit, S, marks, iter)
  BY VisitAllFolds
<1> DEFINE C == {T \in SUBSET S : iter[T] \notin J[T]}
<1>2. ASSUME C # {} PROVE FALSE
  <2>0. C \subseteq SUBSET S
    OBVIOUS
  <2>1. PICK T : Minimal(C, T)
    <3> HIDE DEF C
    <3> QED
      BY <1>2, <2>0, MinimalExists
  <2>2. T # {}
    BY <1>1, <2>1 DEF FoldStep, FoldOf, Minimal
  <2>3. Pick(T) \in T /\ T \ {Pick(T)} \in SUBSET S /\ T \ {Pick(T)} \notin C
    BY <2>1, <2>2, PickIn DEF Minimal
  <2>4. iter[T \ {Pick(T)}] \in J[T \ {Pick(T)}]
    BY <2>3
  <2>5. iter[T] = visit[Pick(T)][iter[T \ {Pick(T)}]]
    BY <1>1, <2>1, <2>2 DEF FoldStep, FoldOf, Minimal
  <2> QED
    BY <2>1, <2>3, <2>4, <2>5 DEF Minimal, Climbs
<1> QED
  BY <1>1, <1>2 DEF FoldOf

\* f and g visit alike what is in I, and stay in it.
Agree(f, g, S, I) == \A n \in S : \A m \in I : f[n][m] \in I /\ f[n][m] = g[n][m]

LEMMA VisitAllAgree ==
    ASSUME NEW f, NEW g, NEW S, NEW marks, NEW I, IsFiniteSet(S),
           marks \in I, Agree(f, g, S, I)
    PROVE  VisitAll(f, S, marks) = VisitAll(g, S, marks) /\ VisitAll(f, S, marks) \in I
<1>1. PICK fs : FoldOf(f, S, marks, fs)
  BY VisitAllFolds
<1>2. PICK gs : FoldOf(g, S, marks, gs)
  BY VisitAllFolds
<1> DEFINE C == {T \in SUBSET S : ~(fs[T] \in I /\ fs[T] = gs[T])}
<1>3. ASSUME C # {} PROVE FALSE
  <2>0. C \subseteq SUBSET S
    OBVIOUS
  <2>1. PICK T : Minimal(C, T)
    <3> HIDE DEF C
    <3> QED
      BY <1>3, <2>0, MinimalExists
  <2>2. T # {}
    BY <1>1, <1>2, <2>1 DEF FoldStep, FoldOf, Minimal
  <2>3. Pick(T) \in T /\ T \ {Pick(T)} \in SUBSET S /\ T \ {Pick(T)} \notin C
    BY <2>1, <2>2, PickIn DEF Minimal
  <2>4. /\ fs[T \ {Pick(T)}] \in I
        /\ fs[T \ {Pick(T)}] = gs[T \ {Pick(T)}]
    BY <2>3
  <2>5. /\ fs[T] = f[Pick(T)][fs[T \ {Pick(T)}]]
        /\ gs[T] = g[Pick(T)][gs[T \ {Pick(T)}]]
    BY <1>1, <1>2, <2>1, <2>2 DEF FoldStep, FoldOf, Minimal
  <2>6. Pick(T) \in S
    BY <2>1, <2>3 DEF Minimal
  <2>7. fs[T] \in I /\ fs[T] = gs[T]
    BY <2>4, <2>5, <2>6 DEF Agree
  <2> QED
    BY <2>1, <2>7 DEF Minimal
<1> QED
  BY <1>1, <1>2, <1>3 DEF FoldOf

-----------------------------------------------------------------------------
(* The search.  Every visit that goes down marks one more node, so Rank,    *)
(* the nodes that are not being visited, gets smaller.                     *)

Above(S, m) == {t \in Marks(S) : m.temporary \subseteq t.temporary}
Rank(S, m) == Cardinality(S \ m.temporary)
Descend(n, m) == [m EXCEPT !.temporary = @ \cup {n}]
Opens(n, m) == ~m.cycle /\ n \notin m.permanent /\ n \notin m.temporary

LEMMA RankFalls ==
    ASSUME NEW S, IsFiniteSet(S), NEW m \in Marks(S)
    PROVE  /\ Rank(S, m) \in Nat
           /\ \A t \in Above(S, m) : Rank(S, t) \in Nat /\ Rank(S, t) <= Rank(S, m)
           /\ \A n \in S : Opens(n, m) =>
                /\ Descend(n, m) \in Above(S, m)
                /\ Descend(n, m).temporary = m.temporary \cup {n}
                /\ Rank(S, Descend(n, m)) < Rank(S, m)
<1>1. IsFiniteSet(S \ m.temporary)
  BY FS_Subset
<1>2. Rank(S, m) \in Nat
  BY <1>1, FS_CardinalityType DEF Rank
<1>3. ASSUME NEW t \in Above(S, m) PROVE Rank(S, t) \in Nat /\ Rank(S, t) <= Rank(S, m)
  <2>1. S \ t.temporary \in SUBSET (S \ m.temporary)
    BY <1>3 DEF Above
  <2> QED
    BY <1>1, <2>1, FS_Subset, FS_CardinalityType DEF Rank
<1>4. ASSUME NEW n \in S, Opens(n, m)
      PROVE  /\ Descend(n, m) \in Above(S, m)
             /\ Descend(n, m).temporary = m.temporary \cup {n}
             /\ Rank(S, Descend(n, m)) < Rank(S, m)
  <2>1. /\ Descend(n, m) \in Above(S, m)
        /\ Descend(n, m).temporary = m.temporary \cup {n}
    BY DEF Descend, Above, Marks
  <2>2. S \ Descend(n, m).temporary = (S \ m.temporary) \ {n} /\ n \in S \ m.temporary
    BY <1>4, <2>1 DEF Opens
  <2>3. Rank(S, Descend(n, m)) = Rank(S, m) - 1
    BY <1>1, <2>2, FS_RemoveElement DEF Rank
  <2> QED
    BY <1>2, <2>1, <2>3
<1> QED
  BY <1>2, <1>3, <1>4

\* The equation of the function that Cyclic chooses.
VisitsTo(S, children, visit) ==
    visit = [n \in S |-> [m \in Marks(S) |-> Visit(visit, children, n, m)]]

\* A visit of a part of the search only needs the visits below it.
LEMMA VisitDetermined ==
    ASSUME NEW S, NEW children, NEW f, NEW g, NEW n \in S, NEW m \in Marks(S),
           IsFiniteSet(S), children \in [S -> SUBSET S],
           \A c \in S : \A t \in Marks(S) :
              Rank(S, t) < Rank(S, m) => f[c][t] \in Above(S, t) /\ f[c][t] = g[c][t]
    PROVE  /\ Visit(f, children, n, m) = Visit(g, children, n, m)
           /\ Visit(f, children, n, m) \in Above(S, m)
<1>1. CASE ~Opens(n, m)
  BY <1>1 DEF Opens, Visit, Above, Marks
<1>2. CASE Opens(n, m)
  <2> DEFINE d == Descend(n, m)
             I == Above(S, d)
  <2>1. /\ d \in Above(S, m) /\ d.temporary = m.temporary \cup {n}
        /\ Rank(S, d) < Rank(S, m) /\ Rank(S, m) \in Nat
    BY <1>2, RankFalls
  <2>2. d \in Marks(S) /\ d \in I
    BY <2>1 DEF Above
  <2>3. ASSUME NEW c \in children[n], NEW t \in I
        PROVE  f[c][t] \in I /\ f[c][t] = g[c][t]
    <3>1. c \in S /\ t \in Marks(S)
      BY DEF Above
    <3>2. Rank(S, t) < Rank(S, m)
      BY <2>1, <2>2, RankFalls
    <3>3. f[c][t] \in Above(S, t) /\ f[c][t] = g[c][t]
      BY <3>1, <3>2
    <3> QED
      BY <3>3 DEF Above
  <2>4. IsFiniteSet(children[n])
    BY FS_Subset
  <2> DEFINE b == VisitAll(f, children[n], d)
  <2>5. VisitAll(f, children[n], d) = VisitAll(g, children[n], d) /\ b \in I
    <3>1. Agree(f, g, children[n], I)
      BY <2>3 DEF Agree
    <3> HIDE DEF I, d
    <3> QED
      BY <2>2, <2>4, <3>1, VisitAllAgree
  <2>6. ASSUME NEW v, v \in {f, g}
        PROVE  Visit(v, children, n, m) =
                 IF b.cycle THEN b
                 ELSE [b EXCEPT !.temporary = @ \ {n}, !.permanent = @ \cup {n}]
    <3>1. VisitAll(v, children[n], Descend(n, m)) = b
      BY <2>5, <2>6
    <3> HIDE DEF b, d
    <3> QED
      BY <1>2, <3>1 DEF Opens, Visit, Descend
  <2>7. b \in Marks(S) /\ m.temporary \cup {n} \subseteq b.temporary
    BY <2>1, <2>5 DEF Above
  <2>8. m.temporary \subseteq b.temporary \ {n}
    BY <1>2, <2>7 DEF Opens
  <2> HIDE DEF b
  <2>9. Visit(f, children, n, m) \in Above(S, m)
    <3> DEFINE e == [b EXCEPT !.temporary = @ \ {n}, !.permanent = @ \cup {n}]
    <3>1. e \in Marks(S) /\ e.temporary = b.temporary \ {n}
      BY <2>7 DEF Marks
    <3>2. Visit(f, children, n, m) \in {b, e}
      BY <2>6
    <3> HIDE DEF e
    <3> QED
      BY <2>7, <2>8, <3>1, <3>2 DEF Above
  <2> QED
    BY <2>6, <2>9
<1> QED
  BY <1>1, <1>2

LEMMA VisitDefined ==
    ASSUME NEW S, NEW children, IsFiniteSet(S), children \in [S -> SUBSET S]
    PROVE  \E visit : VisitsTo(S, children, visit)
<1> DEFINE Upto(f, k) ==
             \A n \in S : \A m \in Marks(S) : Rank(S, m) < k =>
                f[n][m] \in Above(S, m) /\ f[n][m] = Visit(f, children, n, m)
           K == {k \in Nat : ~ \E f : Upto(f, k)}
           Next1(f) == [n \in S |-> [m \in Marks(S) |-> Visit(f, children, n, m)]]
<1>1. \A m \in Marks(S) : Rank(S, m) \in Nat
  BY RankFalls
<1>2. ASSUME NEW c \in Nat, ~ \E f : Upto(f, c) PROVE FALSE
  <2>1. c \in K
    BY <1>2
  <2>2. PICK k \in K : \A j \in K : k <= j
    BY <2>1, SmallestExists
  <2>3. ~ \E f : Upto(f, k)
    BY <2>2
  <2>4. k # 0
    <3>1. Upto(S, 0)
      BY <1>1
    <3> HIDE DEF Upto
    <3> QED
      BY <2>3, <3>1
  <2>5. k \in Nat /\ k - 1 \in Nat /\ k - 1 \notin K
    BY <2>2, <2>4
  <2>6. PICK f : Upto(f, k - 1)
    <3> HIDE DEF Upto
    <3> QED
      BY <2>5
  <2> DEFINE g == Next1(f)
  <2>7. \A n \in S : \A m \in Marks(S) : g[n][m] = Visit(f, children, n, m)
    OBVIOUS
  <2>8. ASSUME NEW n \in S, NEW m \in Marks(S), Rank(S, m) < k
        PROVE  g[n][m] \in Above(S, m) /\ g[n][m] = Visit(g, children, n, m)
    <3> HIDE DEF g
    <3>1. \A a \in S : \A t \in Marks(S) :
             Rank(S, t) < k - 1 => f[a][t] \in Above(S, t) /\ f[a][t] = g[a][t]
      BY <2>6, <2>7
    <3>2. ASSUME NEW a \in S, NEW t \in Marks(S), Rank(S, t) < Rank(S, m)
          PROVE  f[a][t] \in Above(S, t) /\ f[a][t] = g[a][t]
      <4>1. Rank(S, t) < k - 1
        BY <1>1, <2>5, <2>8, <3>2
      <4> QED
        BY <3>1, <4>1
    <3>3. /\ Visit(f, children, n, m) = Visit(g, children, n, m)
          /\ Visit(f, children, n, m) \in Above(S, m)
      BY <3>2, VisitDetermined
    <3> QED
      BY <2>7, <3>3
  <2>9. Upto(g, k)
    <3> HIDE DEF g
    <3> QED
      BY <2>8
  <2> HIDE DEF Upto, g
  <2> QED
    BY <2>3, <2>9
<1> DEFINE top == Cardinality(S) + 1
<1>3. top \in Nat /\ \A m \in Marks(S) : Rank(S, m) < top
  <2>1. \A m \in Marks(S) : Rank(S, m) <= Cardinality(S)
    BY FS_Subset DEF Rank
  <2> QED
    BY <1>1, <2>1, FS_CardinalityType
<1>4. PICK f : Upto(f, top)
  <2> HIDE DEF Upto, top
  <2> QED
    BY <1>2, <1>3
<1> DEFINE g == Next1(f)
<1>5. \A n \in S : \A m \in Marks(S) : g[n][m] = f[n][m] /\ f[n][m] \in Above(S, m)
  <2>1. \A n \in S : \A m \in Marks(S) : g[n][m] = Visit(f, children, n, m)
    OBVIOUS
  <2> HIDE DEF g, top
  <2> QED
    BY <1>3, <1>4, <2>1
<1>6. ASSUME NEW n \in S, NEW m \in Marks(S)
      PROVE  Visit(f, children, n, m) = Visit(g, children, n, m)
  <2> HIDE DEF g
  <2> QED
    BY <1>5, VisitDetermined
<1>7. VisitsTo(S, children, g)
  <2>1. g = [n \in S |-> [m \in Marks(S) |-> Visit(g, children, n, m)]]
    <3> DEFINE h == [n \in S |-> [m \in Marks(S) |-> Visit(g, children, n, m)]]
    <3>1. \A n \in S : [m \in Marks(S) |-> Visit(f, children, n, m)]
                        = [m \in Marks(S) |-> Visit(g, children, n, m)]
      <4> HIDE DEF g
      <4> QED
        BY <1>6
    <3> QED
      BY <3>1, Zenon
  <2> HIDE DEF g
  <2> QED
    BY <2>1 DEF VisitsTo
<1> HIDE DEF g
<1> QED
  BY <1>7

\* Every node of T leads to another one of T.
Turns(children, T) == T # {} /\ \A n \in T : children[n] \cap T # {}
HasCycle(S, children) == \E T \in SUBSET S : Turns(children, T)

\* The nodes left for good are not on a cycle, nor is what they lead to.
Sound(S, children, P) ==
    /\ \A n \in P : children[n] \subseteq P
    /\ \A T \in SUBSET P : ~Turns(children, T)
\* The nodes being visited lead to each other and to n.
Leads(children, T, n) == \A t \in T : children[t] \cap (T \cup {n}) # {}
\* A search that comes back has found a cycle, or it has visited P, and what it
\* left for good is sound.
Finished(S, children, T, P) ==
    {r \in Marks(S) : IF r.cycle THEN HasCycle(S, children)
                      ELSE /\ r.temporary = T /\ P \subseteq r.permanent
                           /\ Sound(S, children, r.permanent)}
MayVisit(S, children, n, m) ==
    ~m.cycle /\ Sound(S, children, m.permanent) /\ Leads(children, m.temporary, n)

LEMMA SoundGrows ==
    ASSUME NEW S, NEW children, NEW P, NEW n, Sound(S, children, P), children[n] \subseteq P
    PROVE  Sound(S, children, P \cup {n})
<1>1. ASSUME NEW T \in SUBSET (P \cup {n}), Turns(children, T) PROVE FALSE
  <2>1. n \in T /\ n \notin P
    BY <1>1 DEF Sound
  <2>2. PICK c \in T : c \in children[n]
    BY <1>1, <2>1 DEF Turns
  <2>3. c \in T \ {n} /\ T \ {n} \in SUBSET P
    BY <2>1, <2>2
  <2>4. \A t \in T \ {n} : children[t] \cap (T \ {n}) # {}
    BY <1>1, <2>1, <2>3 DEF Turns, Sound
  <2> QED
    BY <2>3, <2>4 DEF Turns, Sound
<1> QED
  BY <1>1 DEF Sound

\* One visit does its work if the visits below it do.
LEMMA VisitWorks ==
    ASSUME NEW S, NEW children, NEW visit, NEW n \in S, NEW m \in Marks(S),
           IsFiniteSet(S), children \in [S -> SUBSET S],
           MayVisit(S, children, n, m),
           \A c \in S : \A t \in Marks(S) :
              /\ t.cycle => visit[c][t] = t
              /\ Rank(S, t) < Rank(S, m) /\ MayVisit(S, children, c, t) =>
                   visit[c][t] \in Finished(S, children, t.temporary, t.permanent \cup {c})
    PROVE  Visit(visit, children, n, m)
             \in Finished(S, children, m.temporary, m.permanent \cup {n})
<1>1. CASE n \in m.permanent
  BY <1>1 DEF Visit, Finished, MayVisit
<1>2. CASE n \notin m.permanent /\ n \in m.temporary
  <2> DEFINE e == [m EXCEPT !.cycle = TRUE]
  <2>1. Visit(visit, children, n, m) = e
    BY <1>2 DEF Visit, MayVisit
  <2>2. m.temporary \cup {n} = m.temporary /\ m.temporary \in SUBSET S
    BY <1>2 DEF Marks
  <2>3. HasCycle(S, children)
    BY <1>2, <2>2 DEF HasCycle, Turns, MayVisit, Leads
  <2>4. e \in Marks(S) /\ e.cycle
    BY DEF Marks
  <2> HIDE DEF e
  <2> QED
    BY <2>1, <2>3, <2>4 DEF Finished
<1>3. CASE Opens(n, m)
  <2> DEFINE d == Descend(n, m)
             J == [T \in SUBSET children[n] |->
                     Finished(S, children, d.temporary, m.permanent \cup T)]
             b == VisitAll(visit, children[n], d)
  <2>1. /\ d \in Marks(S) /\ d.temporary = m.temporary \cup {n}
        /\ Rank(S, d) < Rank(S, m)
    BY <1>3, RankFalls DEF Above
  <2>2. ~d.cycle /\ d.permanent = m.permanent
    BY <1>3 DEF Descend, Opens, Marks
  <2>3. d \in J[{}]
    BY <2>1, <2>2 DEF Finished, MayVisit
  <2>4. ASSUME NEW T \in SUBSET children[n], NEW c \in T, NEW t \in J[T \ {c}]
        PROVE  visit[c][t] \in J[T]
    <3>1. c \in S /\ c \in children[n]
      OBVIOUS
    <3>2. t \in Finished(S, children, d.temporary, m.permanent \cup (T \ {c}))
      BY <2>4
    <3> HIDE DEF d
    <3>3. CASE t.cycle
      BY <3>1, <3>2, <3>3 DEF Finished
    <3>4. CASE ~t.cycle
      <4>1. /\ t \in Marks(S) /\ t.temporary = d.temporary
            /\ m.permanent \cup (T \ {c}) \subseteq t.permanent
            /\ Sound(S, children, t.permanent)
        BY <3>2, <3>4 DEF Finished
      <4>2. Leads(children, t.temporary, c)
        BY <2>1, <3>1, <4>1 DEF MayVisit, Leads
      <4>3. Rank(S, t) < Rank(S, m)
        BY <2>1, <4>1 DEF Rank
      <4>4. visit[c][t] \in Finished(S, children, d.temporary, t.permanent \cup {c})
        BY <3>1, <3>4, <4>1, <4>2, <4>3 DEF MayVisit
      <4> QED
        BY <4>1, <4>4 DEF Finished
    <3> QED
      BY <3>3, <3>4
  <2>5. b \in J[children[n]]
    <3>1. Climbs(visit, children[n], J)
      BY <2>4 DEF Climbs
    <3>2. IsFiniteSet(children[n])
      BY FS_Subset
    <3> HIDE DEF J, d
    <3> QED
      BY <2>3, <3>1, <3>2, VisitAllReaches
  <2>6. Visit(visit, children, n, m) =
          IF b.cycle THEN b
          ELSE [b EXCEPT !.temporary = @ \ {n}, !.permanent = @ \cup {n}]
    BY <1>3 DEF Opens, Visit, Descend
  <2>7. b \in Finished(S, children, m.temporary \cup {n}, m.permanent \cup children[n])
    BY <2>1, <2>5
  <2> HIDE DEF b
  <2>8. CASE b.cycle
    BY <2>6, <2>7, <2>8 DEF Finished
  <2>9. CASE ~b.cycle
    <3> DEFINE e == [b EXCEPT !.temporary = @ \ {n}, !.permanent = @ \cup {n}]
    <3>1. /\ b \in Marks(S) /\ b.temporary = m.temporary \cup {n}
          /\ m.permanent \cup children[n] \subseteq b.permanent
          /\ Sound(S, children, b.permanent)
      BY <2>7, <2>9 DEF Finished
    <3>2. /\ e \in Marks(S) /\ ~e.cycle /\ e.temporary = b.temporary \ {n}
          /\ e.permanent = b.permanent \cup {n}
      BY <2>9, <3>1 DEF Marks
    <3>3. Sound(S, children, b.permanent \cup {n})
      BY <3>1, SoundGrows
    <3>4. b.temporary \ {n} = m.temporary
      BY <1>3, <3>1 DEF Opens
    <3>5. Visit(visit, children, n, m) = e
      BY <2>6, <2>9
    <3> HIDE DEF e
    <3> QED
      BY <3>1, <3>2, <3>3, <3>4, <3>5 DEF Finished
  <2> QED
    BY <2>8, <2>9
<1> QED
  BY <1>1, <1>2, <1>3 DEF Opens, MayVisit

\* The contract of one visit.
Works(S, children, visit, n, m) ==
    MayVisit(S, children, n, m) =>
      visit[n][m] \in Finished(S, children, m.temporary, m.permanent \cup {n})

LEMMA VisitsWork ==
    ASSUME NEW S, NEW children, NEW visit, IsFiniteSet(S), children \in [S -> SUBSET S],
           VisitsTo(S, children, visit)
    PROVE  \A n \in S : \A m \in Marks(S) :
              (m.cycle => visit[n][m] = m) /\ Works(S, children, visit, n, m)
<1>1. \A n \in S : \A m \in Marks(S) : visit[n][m] = Visit(visit, children, n, m)
  BY DEF VisitsTo
<1>2. \A n \in S : \A m \in Marks(S) : m.cycle => visit[n][m] = m
  BY <1>1 DEF Visit
<1>3. \A m \in Marks(S) : Rank(S, m) \in Nat
  BY RankFalls
<1> DEFINE K == {Rank(S, m) : m \in {t \in Marks(S) :
                                      \E n \in S : ~Works(S, children, visit, n, t)}}
<1>4. ASSUME NEW a \in S, NEW t \in Marks(S), ~Works(S, children, visit, a, t)
      PROVE  FALSE
  <2>1. K \subseteq Nat /\ K # {}
    BY <1>3, <1>4
  <2>2. PICK k \in K : \A j \in K : k <= j
    <3> HIDE DEF K
    <3> QED
      BY <2>1, SmallestExists
  <2>3. PICK m \in Marks(S), n \in S : k = Rank(S, m) /\ ~Works(S, children, visit, n, m)
    BY <2>2
  <2>4. ASSUME NEW c \in S, NEW u \in Marks(S), Rank(S, u) < Rank(S, m)
        PROVE  Works(S, children, visit, c, u)
    <3>1. Rank(S, u) \notin K
      <4> HIDE DEF K
      <4> QED
        BY <1>3, <2>2, <2>3, <2>4
    <3> QED
      BY <3>1
  <2>5. Works(S, children, visit, n, m)
    <3> SUFFICES ASSUME MayVisit(S, children, n, m)
                 PROVE  Visit(visit, children, n, m)
                          \in Finished(S, children, m.temporary, m.permanent \cup {n})
      BY <1>1 DEF Works
    <3>1. \A c \in S : \A u \in Marks(S) :
             /\ u.cycle => visit[c][u] = u
             /\ Rank(S, u) < Rank(S, m) /\ MayVisit(S, children, c, u) =>
                  visit[c][u] \in Finished(S, children, u.temporary, u.permanent \cup {c})
      BY <1>2, <2>4 DEF Works
    <3> QED
      BY <3>1, VisitWorks
  <2> QED
    BY <2>3, <2>5
<1> QED
  BY <1>2, <1>4

\* Cyclic, the search of both validate_graph_is_acyclic and detect_cycles, finds
\* a cycle in a finite graph exactly when there is one, whatever the order in
\* which it takes the nodes and their children.
THEOREM SearchIsExact ==
    ASSUME NEW S, NEW children, IsFiniteSet(S), children \in [S -> SUBSET S]
    PROVE  Cyclic(S, children) <=> HasCycle(S, children)
<1> DEFINE visit == CHOOSE v : VisitsTo(S, children, v)
           end == VisitAll(visit, S, Unmarked)
           J == [T \in SUBSET S |-> Finished(S, children, {}, T)]
<1>1. Cyclic(S, children) = end.cycle
  BY DEF Cyclic, VisitsTo
<1>2. VisitsTo(S, children, visit)
  BY VisitDefined
<1> HIDE DEF visit
<1>3. Unmarked \in J[{}]
  BY DEF Unmarked, Finished, Marks, Sound, Turns
<1>4. ASSUME NEW T \in SUBSET S, NEW n \in T, NEW m \in J[T \ {n}]
      PROVE  visit[n][m] \in J[T]
  <2>1. m \in Finished(S, children, {}, T \ {n}) /\ n \in S
    BY <1>4
  <2>2. m \in Marks(S) /\ (m.cycle => visit[n][m] = m) /\ Works(S, children, visit, n, m)
    BY <1>2, <2>1, VisitsWork DEF Finished
  <2>3. CASE m.cycle
    BY <2>1, <2>2, <2>3 DEF Finished
  <2>4. CASE ~m.cycle
    <3>1. /\ m.temporary = {} /\ T \ {n} \subseteq m.permanent
          /\ Sound(S, children, m.permanent)
      BY <2>1, <2>4 DEF Finished
    <3>2. visit[n][m] \in Finished(S, children, {}, m.permanent \cup {n})
      BY <2>2, <2>4, <3>1 DEF Works, MayVisit, Leads
    <3> QED
      BY <3>1, <3>2 DEF Finished
  <2> QED
    BY <2>3, <2>4
<1>5. end \in J[S]
  <2>1. Climbs(visit, S, J)
    BY <1>4 DEF Climbs
  <2> HIDE DEF J
  <2> QED
    BY <1>3, <2>1, VisitAllReaches
<1>6. end \in Finished(S, children, {}, S)
  BY <1>5
<1> HIDE DEF end
<1>7. CASE end.cycle
  BY <1>1, <1>6, <1>7 DEF Finished
<1>8. CASE ~end.cycle
  <2>1. Sound(S, children, end.permanent) /\ S \subseteq end.permanent
    BY <1>6, <1>8 DEF Finished
  <2>2. ~HasCycle(S, children)
    BY <2>1 DEF HasCycle, Sound
  <2> QED
    BY <1>1, <1>8, <2>2
<1> QED
  BY <1>7, <1>8

\* The searches could as well go up: the nodes that lead to n.
Back(S, children) == [n \in S |-> {m \in S : n \in children[m]}]

\* A smallest set that turns down has no node without a parent in it.
LEMMA CycleBack ==
    ASSUME NEW S, NEW children, IsFiniteSet(S), children \in [S -> SUBSET S],
           HasCycle(S, children)
    PROVE  HasCycle(S, Back(S, children))
<1> DEFINE C == {T \in SUBSET S : Turns(children, T)}
<1>1. C \subseteq SUBSET S /\ C # {}
  BY DEF HasCycle
<1>2. PICK T : Minimal(C, T)
  <2> HIDE DEF C
  <2> QED
    BY <1>1, MinimalExists
<1>3. T \in SUBSET S /\ Turns(children, T)
  BY <1>2 DEF Minimal
<1>4. ASSUME NEW n \in T, \A m \in T : n \notin children[m]
      PROVE  FALSE
  <2>1. PICK c \in T : c \in children[n]
    BY <1>3 DEF Turns
  <2>2. T \ {n} \in SUBSET S /\ c \in T \ {n}
    BY <1>3, <1>4, <2>1
  <2>3. \A t \in T \ {n} : children[t] \cap (T \ {n}) # {}
    BY <1>3, <1>4 DEF Turns
  <2>4. T \ {n} \in C
    BY <2>2, <2>3 DEF Turns
  <2> QED
    BY <1>2, <2>4 DEF Minimal
<1>5. \A n \in T : Back(S, children)[n] \cap T # {}
  BY <1>3, <1>4 DEF Back
<1> QED
  BY <1>3, <1>5 DEF HasCycle, Turns

LEMMA TwoWays ==
    ASSUME NEW S, NEW children, IsFiniteSet(S), children \in [S -> SUBSET S]
    PROVE  HasCycle(S, children) <=> HasCycle(S, Back(S, children))
<1> DEFINE back == Back(S, children)
<1>1. back \in [S -> SUBSET S]
  BY DEF Back
<1>2. Back(S, back) = children
  <2>1. \A n \in S : {m \in S : n \in back[m]} = children[n]
    BY DEF Back
  <2>2. [n \in S |-> {m \in S : n \in back[m]}] = [n \in S |-> children[n]]
    <3> HIDE DEF back
    <3> QED
      BY <2>1
  <2> HIDE DEF back
  <2> QED
    BY <2>2 DEF Back
<1>3. HasCycle(S, children) => HasCycle(S, back)
  BY CycleBack
<1>4. HasCycle(S, back) => HasCycle(S, children)
  <2> HIDE DEF back
  <2> QED
    BY <1>1, <1>2, CycleBack
<1> QED
  BY <1>3, <1>4

-----------------------------------------------------------------------------
(* The union-find.  A forest is a set of pointers without a cycle but the  *)
(* roots': every set that is closed under it has a root.                   *)

ClosedUnder(p, D) == \A x \in D : p[x] \in D
Forest(p) ==
    \A D \in (SUBSET DOMAIN p) \ {{}} : ClosedUnder(p, D) => \E x \in D : p[x] = x
Reach(p, k) ==
    {y \in DOMAIN p : \A D \in SUBSET DOMAIN p : k \in D /\ ClosedUnder(p, D) => y \in D}
\* The equation of the function that FindPath chooses.
PathsOf(p, path) ==
    path = [x \in DOMAIN p |-> {x} \cup (IF p[x] = x THEN {} ELSE path[p[x]])]

LEMMA ReachClosed ==
    ASSUME NEW K, NEW p \in [K -> K], NEW k \in K
    PROVE  /\ k \in Reach(p, k) /\ Reach(p, k) \in SUBSET K /\ ClosedUnder(p, Reach(p, k))
           /\ \A D \in SUBSET K : k \in D /\ ClosedUnder(p, D) => Reach(p, k) \subseteq D
  BY DEF Reach, ClosedUnder

LEMMA ReachSteps ==
    ASSUME NEW K, NEW p \in [K -> K], NEW k \in K
    PROVE  Reach(p, k) = {k} \cup (IF p[k] = k THEN {} ELSE Reach(p, p[k]))
<1>1. p[k] \in K
  OBVIOUS
<1>2. CASE p[k] = k
  <2>1. {k} \in SUBSET K /\ ClosedUnder(p, {k})
    BY <1>2 DEF ClosedUnder
  <2> QED
    BY <1>2, <2>1, ReachClosed
<1>3. CASE p[k] # k
  <2>1. Reach(p, p[k]) \subseteq Reach(p, k)
    BY <1>1, ReachClosed DEF ClosedUnder
  <2>2. Reach(p, k) \subseteq {k} \cup Reach(p, p[k])
    <3> DEFINE D == {k} \cup Reach(p, p[k])
    <3>1. D \in SUBSET K /\ ClosedUnder(p, D)
      BY <1>1, ReachClosed DEF ClosedUnder
    <3> HIDE DEF D
    <3>2. k \in D => Reach(p, k) \subseteq D
      BY <3>1, ReachClosed
    <3> QED
      BY <3>2 DEF D
  <2> QED
    BY <1>3, <2>1, <2>2, ReachClosed
<1> QED
  BY <1>2, <1>3

LEMMA PathsExist ==
    ASSUME NEW K, NEW p \in [K -> K]
    PROVE  \E path : PathsOf(p, path)
<1> DEFINE c == [x \in K |-> Reach(p, x)]
<1>1. \A x \in K : c[x] = {x} \cup (IF p[x] = x THEN {} ELSE c[p[x]])
  BY ReachSteps
<1>2. c = [x \in K |-> c[x]]
  OBVIOUS
<1>3. PathsOf(p, c)
  <2> HIDE DEF c
  <2> QED
    BY <1>1, <1>2 DEF PathsOf
<1> QED
  BY <1>3

LEMMA FindPathIs ==
    ASSUME NEW K, NEW p \in [K -> K], Forest(p), NEW k \in K
    PROVE  FindPath(p, k) = Reach(p, k)
<1> DEFINE path == CHOOSE f : PathsOf(p, f)
<1>1. FindPath(p, k) = path[k]
  BY DEF FindPath, PathsOf
<1>2. PathsOf(p, path)
  BY PathsExist
<1> HIDE DEF path
<1>3. \A x \in K : path[x] = {x} \cup (IF p[x] = x THEN {} ELSE path[p[x]])
  BY <1>2 DEF PathsOf
<1> DEFINE D == {x \in K : path[x] # Reach(p, x)}
<1>4. ASSUME NEW x \in D PROVE p[x] # x /\ p[x] \in D
  <2>1. Reach(p, x) = {x} \cup (IF p[x] = x THEN {} ELSE Reach(p, p[x]))
    BY ReachSteps
  <2> QED
    BY <1>3, <2>1
<1>5. D = {}
  BY <1>4 DEF Forest, ClosedUnder
<1> QED
  BY <1>1, <1>5

LEMMA OneRoot ==
    ASSUME NEW K, NEW p \in [K -> K], Forest(p), NEW k \in K,
           NEW r \in Reach(p, k), NEW s \in Reach(p, k), p[r] = r, p[s] = s
    PROVE  r = s
<1> DEFINE D == {x \in K : r \in Reach(p, x) /\ s \in Reach(p, x)}
<1>1. ASSUME r # s PROVE \A x \in D : p[x] # x /\ p[x] \in D
  BY <1>1, ReachSteps
<1>2. k \in D
  OBVIOUS
<1> QED
  BY <1>1, <1>2 DEF Forest, ClosedUnder

LEMMA RootFacts ==
    ASSUME NEW K, NEW p \in [K -> K], Forest(p), NEW k \in K
    PROVE  /\ Root(p, k) \in FindPath(p, k) /\ FindPath(p, k) \in SUBSET K
           /\ Root(p, k) \in K /\ p[Root(p, k)] = Root(p, k)
           /\ Root(p, p[k]) = Root(p, k)
           /\ p[k] = k => Root(p, k) = k
<1>1. ASSUME NEW x \in K
      PROVE  Root(p, x) \in Reach(p, x) /\ p[Root(p, x)] = Root(p, x)
  <2>1. \E r \in Reach(p, x) : p[r] = r
    BY ReachClosed DEF Forest
  <2>2. Root(p, x) = CHOOSE r \in Reach(p, x) : p[r] = r
    BY FindPathIs DEF Root
  <2> QED
    BY <2>1, <2>2
<1>2. Reach(p, k) \in SUBSET K
  BY ReachClosed
<1>3. p[k] \in K /\ p[k] \in Reach(p, k)
  BY ReachClosed DEF ClosedUnder
<1>4. Reach(p, p[k]) \subseteq Reach(p, k)
  BY <1>3, ReachClosed
<1>5. Root(p, p[k]) = Root(p, k)
  BY <1>1, <1>3, <1>4, OneRoot
<1>6. p[k] = k => Root(p, k) = k
  BY <1>1, OneRoot, ReachClosed
<1> QED
  BY <1>1, <1>2, <1>5, <1>6, FindPathIs

\* What has its value at the roots and keeps it along the pointers is the root.
Labels(p, r) == \A x \in DOMAIN p : (p[x] = x => r[x] = x) /\ r[p[x]] = r[x]

LEMMA RootsAre ==
    ASSUME NEW K, NEW p \in [K -> K], Forest(p), NEW r, Labels(p, r)
    PROVE  \A k \in K : Root(p, k) = r[k]
<1> DEFINE D == {x \in K : Root(p, x) # r[x]}
<1>1. \A x \in D : p[x] # x /\ p[x] \in D
  BY RootFacts DEF Labels
<1>2. D = {}
  BY <1>1 DEF Forest, ClosedUnder
<1> QED
  BY <1>2

LEMMA PathHasRoot ==
    ASSUME NEW K, NEW p \in [K -> K], Forest(p), NEW k \in K, NEW x \in FindPath(p, k)
    PROVE  Root(p, x) = Root(p, k)
<1> DEFINE D == {y \in K : Root(p, y) = Root(p, k)}
<1>1. k \in D /\ D \in SUBSET K /\ ClosedUnder(p, D)
  BY RootFacts DEF ClosedUnder
<1> HIDE DEF D
<1>2. x \in D
  BY <1>1, ReachClosed, FindPathIs
<1> QED
  BY <1>2 DEF D

\* Path compression changes no root.
LEMMA FoundKeeps ==
    ASSUME NEW K, NEW p \in [K -> K], Forest(p), NEW k \in K
    PROVE  /\ Found(p, k) \in [K -> K] /\ Forest(Found(p, k))
           /\ \A x \in K : Root(Found(p, k), x) = Root(p, x)
<1> DEFINE q == Found(p, k)
           r == [x \in K |-> Root(p, x)]
<1>1. \A x \in K : q[x] = IF x \in FindPath(p, k) THEN Root(p, k) ELSE p[x]
  BY DEF Found
<1>2. q \in [K -> K]
  BY RootFacts DEF Found
<1> HIDE DEF q
<1>3. Forest(q)
  <2> SUFFICES ASSUME NEW D \in (SUBSET K) \ {{}}, ClosedUnder(q, D)
               PROVE  \E x \in D : q[x] = x
    BY <1>2 DEF Forest
  <2>1. CASE \E x \in D : x \in FindPath(p, k)
    <3>1. Root(p, k) \in D
      BY <1>1, <2>1 DEF ClosedUnder
    <3>2. q[Root(p, k)] = Root(p, k)
      BY <1>1, RootFacts
    <3> QED
      BY <3>1, <3>2
  <2>2. CASE \A x \in D : x \notin FindPath(p, k)
    <3>1. \A x \in D : q[x] = p[x]
      BY <1>1, <2>2
    <3>2. ClosedUnder(p, D)
      BY <3>1 DEF ClosedUnder
    <3> QED
      BY <3>1, <3>2 DEF Forest
  <2> QED
    BY <2>1, <2>2
<1>4. \A x \in K : (q[x] = x => r[x] = x) /\ r[q[x]] = r[x]
  <2> SUFFICES ASSUME NEW x \in K PROVE (q[x] = x => r[x] = x) /\ r[q[x]] = r[x]
    OBVIOUS
  <2>1. CASE x \in FindPath(p, k)
    <3>1. q[x] = Root(p, k) /\ Root(p, x) = Root(p, k) /\ Root(p, k) \in K
      BY <1>1, <2>1, PathHasRoot, RootFacts
    <3>2. p[Root(p, k)] = Root(p, k)
      BY RootFacts
    <3>3. Root(p, Root(p, k)) = Root(p, k)
      BY <3>1, <3>2, RootFacts
    <3> QED
      BY <3>1, <3>3
  <2>2. CASE x \notin FindPath(p, k)
    BY <1>1, <2>2, RootFacts
  <2> QED
    BY <2>1, <2>2
<1>5. Labels(q, r)
  BY <1>2, <1>4 DEF Labels
<1>6. \A x \in K : Root(q, x) = r[x]
  <2> HIDE DEF r
  <2> QED
    BY <1>2, <1>3, <1>5, RootsAre
<1> QED
  BY <1>2, <1>3, <1>6 DEF q

\* Union makes one class of two.
LEMMA UnionJoins ==
    ASSUME NEW K, NEW p \in [K -> K], Forest(p), NEW left \in K, NEW right \in K
    PROVE  /\ Union(p, left, right) \in [K -> K] /\ Forest(Union(p, left, right))
           /\ \A k \in K : Root(Union(p, left, right), k) =
                IF Root(p, k) = Root(p, right) THEN Root(p, left) ELSE Root(p, k)
<1> DEFINE q == Found(Found(p, left), right)
           rl == Root(q, left)
           rr == Root(q, right)
           u == [q EXCEPT ![rr] = rl]
           r == [k \in K |-> IF Root(q, k) = rr THEN rl ELSE Root(q, k)]
<1>1. /\ q \in [K -> K] /\ Forest(q)
      /\ \A x \in K : Root(q, x) = Root(p, x)
  BY FoundKeeps
<1> HIDE DEF q
<1>2. rl \in K /\ q[rl] = rl /\ rr \in K /\ q[rr] = rr
  BY <1>1, RootFacts
<1>3. Root(q, rl) = rl /\ Root(q, rr) = rr
  BY <1>1, <1>2, RootFacts
<1>4. \A x \in K : q[x] \in K /\ Root(q, q[x]) = Root(q, x) /\ (q[x] = x => Root(q, x) = x)
  BY <1>1, RootFacts
<1>0. Union(p, left, right) = u
  BY DEF Union, q
<1> HIDE DEF rl, rr
<1>5. /\ u \in [K -> K] /\ u[rr] = rl
      /\ \A x \in K : x # rr => u[x] = q[x]
  BY <1>1, <1>2
<1> HIDE DEF u
<1>6. Forest(u)
  <2> SUFFICES ASSUME NEW D \in (SUBSET K) \ {{}}, ClosedUnder(u, D)
               PROVE  \E x \in D : u[x] = x
    BY <1>5 DEF Forest
  <2>1. CASE rr \in D
    <3>1. rl \in D /\ u[rl] = rl
      BY <1>2, <1>5, <2>1 DEF ClosedUnder
    <3> QED
      BY <3>1
  <2>2. CASE rr \notin D
    <3>1. \A x \in D : u[x] = q[x]
      BY <1>5, <2>2
    <3>2. ClosedUnder(q, D)
      BY <3>1 DEF ClosedUnder
    <3> QED
      BY <1>1, <3>1, <3>2 DEF Forest
  <2> QED
    BY <2>1, <2>2
<1>7. \A x \in K : (u[x] = x => r[x] = x) /\ r[u[x]] = r[x]
  BY <1>2, <1>3, <1>4, <1>5
<1>8. Labels(u, r)
  BY <1>5, <1>7 DEF Labels
<1>9. \A x \in K : Root(u, x) = r[x]
  <2> HIDE DEF r
  <2> QED
    BY <1>5, <1>6, <1>8, RootsAre
<1> QED
  BY <1>0, <1>1, <1>5, <1>6, <1>9 DEF rl, rr

-----------------------------------------------------------------------------
(* The links are the components of the edges.                              *)

\* The ends an edge may have.
From == Names \cup {"input"}
To == Names \cup {"output"}
KeysOf(p, k) == {l \in Key : Root(p, l) = k}
Crossed(pairs, S) == \E e \in pairs : SourceKey(e[1]) \in S <=> DestKey(e[2]) \notin S

\* The two ends of a pair have one root, and no part of the keys with one root is
\* without a pair that leads out of it.
Linked(pairs, loose, p) ==
    /\ pairs \subseteq From \X To /\ loose \subseteq From
    /\ p \in [Key -> Key] /\ Forest(p)
    /\ \A e \in pairs : Root(p, SourceKey(e[1])) = Root(p, DestKey(e[2]))
    /\ \A k \in Key : \A S \in (SUBSET KeysOf(p, k)) \ {{}, KeysOf(p, k)} : Crossed(pairs, S)
LinkInv == Linked(edges, dangling, parent)

LEMMA EndsAreKeys ==
    (\A from \in From : SourceKey(from) \in Key) /\ (\A to \in To : DestKey(to) \in Key)
  BY DEF From, To, SourceKey, DestKey, Key

LEMMA LinkFresh == Linked({}, {}, [k \in Key |-> k])
<1> DEFINE p == [k \in Key |-> k]
<1>1. p \in [Key -> Key] /\ \A k \in Key : p[k] = k
  OBVIOUS
<1> HIDE DEF p
<1>2. Forest(p)
  BY <1>1 DEF Forest
<1>3. \A k \in Key : Root(p, k) = k
  BY <1>1, <1>2, RootFacts
<1>4. \A k \in Key : KeysOf(p, k) = {k}
  BY <1>3 DEF KeysOf
<1>5. Linked({}, {}, p)
  BY <1>1, <1>2, <1>4 DEF Linked
<1> QED
  BY <1>5 DEF p

LEMMA LinkJoins ==
    ASSUME LinkInv, NEW from, NEW to, DeclarePair(from, to)
    PROVE  LinkInv'
<1> DEFINE left == SourceKey(from)
           right == DestKey(to)
           u == Union(parent, left, right)
           rl == Root(parent, left)
           rr == Root(parent, right)
<1>1. from \in From /\ to \in To /\ edges' = edges \cup {<<from, to>>}
      /\ parent' = u /\ dangling' = dangling
  BY DEF DeclarePair, Known, From, To
<1>2. left \in Key /\ right \in Key
  BY <1>1, EndsAreKeys
<1>3. /\ u \in [Key -> Key] /\ Forest(u)
      /\ \A k \in Key : Root(u, k) = IF Root(parent, k) = rr THEN rl ELSE Root(parent, k)
  BY <1>2, UnionJoins DEF LinkInv, Linked
<1>4. rl \in Key /\ rr \in Key
  BY <1>2, RootFacts DEF LinkInv, Linked
<1> HIDE DEF u
<1>5. /\ edges' \subseteq From \X To /\ dangling' \subseteq From
      /\ \A e \in edges : SourceKey(e[1]) \in Key /\ DestKey(e[2]) \in Key
  BY <1>1, EndsAreKeys DEF LinkInv, Linked
<1>6. \A e \in edges' : Root(parent', SourceKey(e[1])) = Root(parent', DestKey(e[2]))
  <2>1. \A e \in edges : Root(u, SourceKey(e[1])) = Root(u, DestKey(e[2]))
    BY <1>3, <1>5 DEF LinkInv, Linked
  <2>2. Root(u, left) = Root(u, right)
    BY <1>2, <1>3
  <2> QED
    BY <1>1, <2>1, <2>2
<1>7. ASSUME NEW k \in Key, NEW S \in (SUBSET KeysOf(u, k)) \ {{}, KeysOf(u, k)}
      PROVE  Crossed(edges', S)
  <2> DEFINE A == KeysOf(parent, rl)
             B == KeysOf(parent, rr)
  <2>0. \A T : Crossed(edges, T) => Crossed(edges', T)
    BY <1>1 DEF Crossed
  <2>1. CASE k \notin {rl, rr}
    <3>1. KeysOf(u, k) = KeysOf(parent, k)
      BY <1>3, <2>1 DEF KeysOf
    <3> QED
      BY <1>7, <2>0, <3>1 DEF LinkInv, Linked
  <2>2. CASE k = rr /\ rl # rr
    BY <1>3, <2>2 DEF KeysOf
  <2>3. CASE k = rl
    <3>1. KeysOf(u, k) = A \cup B
      BY <1>3, <2>3 DEF KeysOf
    <3>2. ASSUME NEW C \in {A, B}, S \cap C \notin {{}, C} PROVE Crossed(edges', S)
      <4>1. PICK e \in edges : SourceKey(e[1]) \in S \cap C <=> DestKey(e[2]) \notin S \cap C
        <5>1. PICK c \in Key : C = KeysOf(parent, c)
          BY <1>4
        <5> HIDE DEF A, B
        <5>2. Crossed(edges, S \cap C)
          BY <3>2, <5>1 DEF LinkInv, Linked
        <5> QED
          BY <5>2 DEF Crossed
      <4>2. SourceKey(e[1]) \in C <=> DestKey(e[2]) \in C
        BY <1>5 DEF LinkInv, Linked, KeysOf
      <4>3. SourceKey(e[1]) \in S <=> DestKey(e[2]) \notin S
        BY <4>1, <4>2
      <4> QED
        BY <1>1, <4>3 DEF Crossed
    <3>3. CASE S \cap A \in {{}, A} /\ S \cap B \in {{}, B}
      <4>1. A # B /\ (S = A \/ S = B)
        BY <1>7, <3>1, <3>3
      <4>2. left \in A /\ right \in B /\ left \notin B /\ right \notin A
        BY <1>2, <4>1 DEF KeysOf
      <4>3. left \in S <=> right \notin S
        BY <4>1, <4>2
      <4> DEFINE e == <<from, to>>
      <4>4. e \in edges' /\ e[1] = from /\ e[2] = to
        BY <1>1
      <4> HIDE DEF e
      <4> QED
        BY <4>3, <4>4 DEF Crossed
    <3> QED
      BY <3>2, <3>3
  <2> QED
    BY <2>1, <2>2, <2>3
<1> QED
  BY <1>1, <1>3, <1>5, <1>6, <1>7 DEF LinkInv, Linked, KeysOf, Crossed

LEMMA LinkStep == LinkInv /\ [DeclareNext]_declareVars => LinkInv'
<1> SUFFICES ASSUME LinkInv, [DeclareNext]_declareVars PROVE LinkInv'
  OBVIOUS
<1>1. CASE \E from, to \in Endpoint : DeclarePair(from, to)
  BY <1>1, LinkJoins
<1>2. CASE \E from \in Endpoint : DeclareDangling(from)
  BY <1>2 DEF DeclareDangling, Known, LinkInv, Linked, From, KeysOf, Crossed
<1>3. CASE edges' = {} /\ dangling' = {} /\ parent' = [k \in Key |-> k]
  BY <1>3, LinkFresh DEF LinkInv
<1>4. CASE UNCHANGED macroVars
  BY <1>4 DEF macroVars, LinkInv, Crossed
<1> QED
  BY <1>1, <1>2, <1>3, <1>4
  DEF DeclareNext, declareVars, RefusePair, RefuseGraph, Refuse, Expand, ExpandLinear

LEMMA LinkInvariant == DeclareSpec => []LinkInv
<1>1. DeclareInit => LinkInv
  BY LinkFresh DEF DeclareInit, LinkInv
<1> QED
  BY <1>1, LinkStep, PTL DEF DeclareSpec

\* The links of pipeline! are the connected parts of its edges, for every set
\* of named nodes and however the edges are ordered.
THEOREM LinksAreTheComponents == DeclareSpec => []LinksAreComponents
<1>1. LinkInv => LinksAreComponents
  <2> SUFFICES ASSUME LinkInv PROVE LinksAreComponents
    OBVIOUS
  <2> DEFINE root == [k \in Key |-> Root(parent, k)]
             link(k) == {l \in Key : root[l] = k}
  <2>1. \A k \in Key : link(k) = KeysOf(parent, k)
    BY DEF KeysOf
  <2>2. \A e \in edges : root[SourceKey(e[1])] = root[DestKey(e[2])]
    BY EndsAreKeys DEF LinkInv, Linked
  <2>3. \A k \in Key : \A S \in (SUBSET link(k)) \ {{}, link(k)} :
           \E e \in edges : SourceKey(e[1]) \in S <=> DestKey(e[2]) \notin S
    BY <2>1 DEF LinkInv, Linked, Crossed
  <2> QED
    BY <2>2, <2>3 DEF LinksAreComponents
<1> QED
  BY <1>1, LinkInvariant, PTL

-----------------------------------------------------------------------------
(* The numbers of the links.                                               *)

\* The order in which Expand numbers the roots, and the number of a key's link.
Roots(p) == {Root(p, k) : k \in Key}
Order(p) ==
    <<Root(p, SourceKey("input"))>> \o SetToSeq(Roots(p) \ {Root(p, SourceKey("input"))})
Number(p, k) == (CHOOSE i \in DOMAIN Order(p) : Order(p)[i] = Root(p, k)) - 1

LEMMA PairFinite == ASSUME NEW a, NEW b PROVE IsFiniteSet({a, b})
<1>1. IsFiniteSet({a})
  BY FS_Singleton
<1>2. IsFiniteSet({a} \cup {b})
  BY <1>1, FS_AddElement
<1> QED
  BY <1>2

LEMMA KeysFinite == IsFiniteSet(Names) /\ IsFiniteSet(Key)
<1>1. IsFiniteSet(Names)
  <2> DEFINE f == [i \in 1..Len(Declared) |-> Declared[i].name]
  <2>1. Len(Declared) \in Nat /\ DOMAIN Declared = 1..Len(Declared)
    BY MacroAssumption
  <2>2. f \in Surjection(1..Len(Declared), Names)
    BY <2>1 DEF Surjection, Names
  <2>3. IsFiniteSet(1..Len(Declared))
    BY <2>1, FS_Interval
  <2> HIDE DEF f
  <2> QED
    BY <2>2, <2>3, FS_Surjection
<1> DEFINE ends == {"in", "out"}
<1>5. IsFiniteSet(ends)
  BY PairFinite
<1>2. IsFiniteSet(Names \X ends)
  <2> HIDE DEF ends
  <2> QED
    BY <1>1, <1>5, FS_Product
<1> DEFINE two == {SourceKey("input"), DestKey("output")}
<1>3. IsFiniteSet(two)
  BY PairFinite
<1> HIDE DEF two
<1>4. IsFiniteSet((Names \X {"in", "out"}) \cup two)
  BY <1>2, <1>3, FS_Union
<1> QED
  BY <1>1, <1>4 DEF Key, two

\* SetToSeq lists every element of a finite set once.
LEMMA Listed ==
    ASSUME NEW S, IsFiniteSet(S)
    PROVE  /\ SetToSeq(S) \in Seq(S) /\ IsInjective(SetToSeq(S))
           /\ \A s \in S : \E i \in DOMAIN SetToSeq(S) : SetToSeq(S)[i] = s
<1> DEFINE n == Cardinality(S)
           f == SetToSeq(S)
<1>1. n \in Nat /\ ExistsBijection(1..n, S)
  BY FS_CardinalityType
<1>2. PICK g \in [1..n -> S] : IsInjective(g)
  BY <1>1 DEF ExistsBijection, Bijection, Injection
<1>3. f \in [1..n -> S] /\ IsInjective(f)
  BY <1>2 DEF SetToSeq
<1> HIDE DEF f
<1>4. f \in Seq(S)
  BY <1>1, <1>3
<1> DEFINE T == {f[i] : i \in 1..n}
<1>5. f \in Surjection(1..n, T) /\ f \in Injection(1..n, T)
  BY <1>3 DEF Surjection, Injection
<1>6. IsFiniteSet(1..n) /\ Cardinality(1..n) = n
  BY <1>1, FS_Interval
<1>7. Cardinality(T) = n
  <2> HIDE DEF T, n
  <2> QED
    BY <1>5, <1>6, FS_Surjection
<1>8. T \in SUBSET S
  BY <1>3
<1>9. T = S
  <2> HIDE DEF T
  <2> QED
    BY <1>7, <1>8, FS_Subset
<1> QED
  BY <1>3, <1>4, <1>9 DEF f

\* Links are numbered one for one, from the input's link on.
LEMMA Numbers ==
    ASSUME NEW p \in [Key -> Key], Forest(p)
    PROVE  /\ Len(Order(p)) \in Nat \ {0}
           /\ \A k \in Key : Number(p, k) \in 0 .. Len(Order(p)) - 1
           /\ \A k, l \in Key : Number(p, k) = Number(p, l) <=> Root(p, k) = Root(p, l)
           /\ Number(p, SourceKey("input")) = 0
<1> DEFINE input == Root(p, SourceKey("input"))
           others == Roots(p) \ {input}
           tail == SetToSeq(others)
           order == <<input>> \o tail
<1>1. SourceKey("input") \in Key
  BY DEF Key
<1>2. \A k \in Key : Root(p, k) \in Key /\ Root(p, k) \in Roots(p)
  BY RootFacts DEF Roots
<1>3. IsFiniteSet(others)
  <2>1. others \in SUBSET Key
    BY <1>2 DEF Roots
  <2> HIDE DEF others
  <2> QED
    BY <2>1, KeysFinite, FS_Subset
<1>4. /\ tail \in Seq(others) /\ IsInjective(tail)
      /\ \A s \in others : \E i \in DOMAIN tail : tail[i] = s
  <2> HIDE DEF others
  <2> QED
    BY <1>3, Listed
<1> HIDE DEF tail
<1>5. /\ Len(order) = Len(tail) + 1 /\ DOMAIN order = 1..Len(order) /\ Len(tail) \in Nat
      /\ order[1] = input
      /\ DOMAIN tail = 1..Len(tail)
      /\ \A i \in 1..Len(tail) : order[i + 1] = tail[i] /\ tail[i] \in others
  BY <1>4
<1> HIDE DEF order
<1>6. \A k \in Key : \E i \in DOMAIN order : order[i] = Root(p, k)
  <2> SUFFICES ASSUME NEW k \in Key PROVE \E i \in DOMAIN order : order[i] = Root(p, k)
    OBVIOUS
  <2>1. CASE Root(p, k) = input
    BY <1>5, <2>1
  <2>2. CASE Root(p, k) # input
    <3>1. PICK i \in DOMAIN tail : tail[i] = Root(p, k)
      BY <1>2, <1>4, <2>2
    <3>2. i + 1 \in DOMAIN order /\ order[i + 1] = Root(p, k)
      BY <1>5, <3>1
    <3> QED
      BY <3>2
  <2> QED
    BY <2>1, <2>2
<1>7. Order(p) = order
  BY DEF Order, order, tail
<1>8. \A k \in Key : Number(p, k) + 1 \in DOMAIN order /\ order[Number(p, k) + 1] = Root(p, k)
  <2> SUFFICES ASSUME NEW k \in Key
               PROVE  Number(p, k) + 1 \in DOMAIN order /\ order[Number(p, k) + 1] = Root(p, k)
    OBVIOUS
  <2> DEFINE i == CHOOSE j \in DOMAIN order : order[j] = Root(p, k)
  <2>1. i \in DOMAIN order /\ order[i] = Root(p, k)
    BY <1>6
  <2>2. Number(p, k) = i - 1
    BY <1>7 DEF Number
  <2> HIDE DEF i
  <2>3. i \in Nat
    BY <1>5, <2>1
  <2>4. Number(p, k) + 1 = i
    BY <2>2, <2>3
  <2> QED
    BY <2>1, <2>4
<1>9. \A k \in Key : Number(p, k) \in 0 .. Len(order) - 1
  <2> SUFFICES ASSUME NEW k \in Key PROVE Number(p, k) \in 0 .. Len(order) - 1
    OBVIOUS
  <2> DEFINE i == CHOOSE j \in DOMAIN order : order[j] = Root(p, k)
  <2>1. i \in DOMAIN order
    BY <1>6
  <2>2. Number(p, k) = i - 1
    BY <1>7 DEF Number
  <2> HIDE DEF i
  <2> QED
    BY <1>5, <2>1, <2>2
<1>10. ASSUME NEW i \in DOMAIN order, NEW j \in DOMAIN order, order[i] = order[j]
       PROVE  i = j
  <2>1. \A m \in DOMAIN order : m # 1 =>
           m - 1 \in 1..Len(tail) /\ order[m] = tail[m - 1] /\ order[m] \in others
    <3> SUFFICES ASSUME NEW m \in DOMAIN order, m # 1
                 PROVE  m - 1 \in 1..Len(tail) /\ order[m] = tail[m - 1] /\ order[m] \in others
      OBVIOUS
    <3>1. m - 1 \in 1..Len(tail) /\ (m - 1) + 1 = m
      BY <1>5
    <3> QED
      BY <1>5, <3>1
  <2>2. i = 1 <=> j = 1
    BY <1>5, <1>10, <2>1
  <2>3. i # 1 => i - 1 = j - 1
    BY <1>4, <1>5, <1>10, <2>1, <2>2 DEF IsInjective
  <2> QED
    BY <1>5, <2>2, <2>3
<1>11. \A k, l \in Key : Number(p, k) = Number(p, l) <=> Root(p, k) = Root(p, l)
  <2> SUFFICES ASSUME NEW k \in Key, NEW l \in Key
               PROVE  Number(p, k) = Number(p, l) <=> Root(p, k) = Root(p, l)
    OBVIOUS
  <2>1. Number(p, k) = Number(p, l) => Root(p, k) = Root(p, l)
    BY <1>8
  <2>2. Root(p, k) = Root(p, l) => Number(p, k) + 1 = Number(p, l) + 1
    BY <1>8, <1>10
  <2>3. Number(p, k) \in Int /\ Number(p, l) \in Int
    BY <1>9
  <2> QED
    BY <2>1, <2>2, <2>3
<1>12. Number(p, SourceKey("input")) = 0
  <2>1. 1 \in DOMAIN order /\ order[1] = Root(p, SourceKey("input"))
    BY <1>5
  <2>2. Number(p, SourceKey("input")) + 1 = 1
    BY <1>1, <1>8, <1>10, <2>1
  <2> QED
    BY <1>1, <1>9, <2>2
<1> QED
  BY <1>5, <1>7, <1>9, <1>11, <1>12

-----------------------------------------------------------------------------
(* Type correctness.                                                       *)

\* The node that Expand makes of a declared one.
ExpandedNode(i) ==
    NodeSpec(Declared[i].kind, Number(parent, DestKey(Declared[i].name)),
             {Number(parent, SourceKey(Declared[i].name))})

LEMMA ExpandIs ==
    ASSUME NEW returns, Expand(returns)
    PROVE  /\ phase = "edges" /\ MacroRefusal(returns) = "none" /\ phase' = "built"
           /\ linkCount' = Len(Order(parent))
           /\ nodes' = [i \in DOMAIN Declared |-> ExpandedNode(i)]
           /\ outputLink' = Number(parent, DestKey("output"))
           /\ stateReturn' = CASE ~returns -> "none"
                               [] returns /\ \E n \in Feeding : LooksMerging(n) -> "merged"
                               [] OTHER -> "state"
           /\ UNCHANGED <<feeders, verdict, macroVars>>
  BY DEF Expand, ExpandedNode, Number, Order, Roots

GraphNode == [kind : Kinds \cup MacroKind, in : Nat, outs : SUBSET Nat]

LEMMA DeclaredIs ==
    /\ DOMAIN Declared = 1..Len(Declared) /\ Len(Declared) \in Nat \ {0}
    /\ \A i \in DOMAIN Declared :
          /\ Declared[i].kind \in MacroKind /\ Declared[i].name \in Names
          /\ SourceKey(Declared[i].name) \in Key /\ DestKey(Declared[i].name) \in Key
<1> DEFINE T == [name : STRING, kind : MacroKind, marked : BOOLEAN]
<1>0. Declared \in Seq(T) /\ Declared # <<>>
  BY MacroAssumption
<1>1. /\ DOMAIN Declared = 1..Len(Declared) /\ Len(Declared) \in Nat \ {0}
      /\ \A i \in DOMAIN Declared : Declared[i] \in T
  <2> HIDE DEF T
  <2> QED
    BY <1>0
<1>2. \A i \in DOMAIN Declared : Declared[i].kind \in MacroKind
  BY <1>1
<1>3. \A i \in DOMAIN Declared : Declared[i].name \in Names
  BY DEF Names
<1>4. \A n \in Names : SourceKey(n) \in Key /\ DestKey(n) \in Key
  BY EndsAreKeys DEF From, To
<1> QED
  BY <1>1, <1>2, <1>3, <1>4

\* No node has a fault that start looks for before it looks for cycles.
AllValid == \A n \in Index : ~Invalid(nodes[n])
GraphCyclic == Cyclic(Index, [n \in Index |-> Adjacent(n)])
LateVerdict == {"ReturnState", "MissingStateMerge", "WorkerCap", "ThreadHints", "ok"}

\* Why start refuses a return state, and why a merged one.
ReturnUnfit == stateReturn # "none" /\ ~ \E n \in Index : Producers = {n} /\ Returner(n)
MergeUnfit == stateReturn = "merged" /\ \E n \in Producers : nodes[n].kind # "merging"

LEMMA VerdictIs ==
    ASSUME NEW cap, NEW hintsOk
    PROVE  /\ Verdict(cap, hintsOk) \in {"NoNodes", "InvalidNode", "Cycle"} \cup LateVerdict
           /\ Verdict(cap, hintsOk) = "Cycle" => AllValid /\ GraphCyclic
           /\ Verdict(cap, hintsOk) \in LateVerdict => nodes # <<>> /\ AllValid /\ ~GraphCyclic
           /\ Verdict(cap, hintsOk) = "ReturnState" => ReturnUnfit
           /\ Verdict(cap, hintsOk) = "MissingStateMerge" => MergeUnfit
<1> DEFINE v == Verdict(cap, hintsOk)
<1>1. CASE nodes = <<>>
  <2>1. ~ \E n \in Index : Invalid(nodes[n])
    BY <1>1 DEF Index
  <2>2. v = "NoNodes"
    BY <1>1, <2>1 DEF Verdict
  <2> QED
    BY <2>2 DEF LateVerdict
<1>2. CASE nodes # <<>> /\ ~AllValid
  <2>1. v = "InvalidNode"
    BY <1>2 DEF Verdict, AllValid
  <2> QED
    BY <2>1 DEF LateVerdict
<1>3. CASE nodes # <<>> /\ AllValid
  <2>1. v = IF Cyclic(Index, [n \in Index |-> Adjacent(n)]) THEN "Cycle"
            ELSE IF stateReturn # "none" /\ ~ \E n \in Index : Producers = {n} /\ Returner(n)
                 THEN "ReturnState"
            ELSE IF stateReturn = "merged" /\ ~ \A n \in Producers : nodes[n].kind = "merging"
                 THEN "MissingStateMerge"
            ELSE IF cap = "zero" /\ \A n \in Index : nodes[n].kind # "anchor" THEN "WorkerCap"
            ELSE IF hintsOk THEN "ok" ELSE "ThreadHints"
    <3>1. ~ \E n \in Index : Invalid(nodes[n])
      BY <1>3 DEF AllValid
    <3> QED
      BY <1>3, <3>1, Zenon DEF Verdict
  <2>2. CASE GraphCyclic
    <3>1. v = "Cycle"
      BY <2>1, <2>2 DEF GraphCyclic
    <3> QED
      BY <1>3, <2>2, <3>1 DEF LateVerdict
  <2>3. CASE ~GraphCyclic
    <3>1. v \in LateVerdict
      BY <2>1, <2>3 DEF GraphCyclic, LateVerdict
    <3>2. /\ v = "ReturnState" => ReturnUnfit
          /\ v = "MissingStateMerge" => MergeUnfit
      BY <2>1, <2>3 DEF GraphCyclic, ReturnUnfit, MergeUnfit
    <3> QED
      BY <1>3, <2>3, <3>1, <3>2 DEF LateVerdict
  <2> QED
    BY <2>2, <2>3
<1> QED
  BY <1>1, <1>2, <1>3

LEMMA GraphTypeStep ==
    ASSUME LinkInv, LinkInv', GraphTypeOK, [DeclareNext]_declareVars
    PROVE  GraphTypeOK'
<1>1. /\ edges' \subseteq Endpoint \X Endpoint /\ dangling' \subseteq Endpoint
      /\ parent' \in [Key -> Key]
  BY DEF LinkInv, Linked, From, To, Endpoint
<1>b. repeated' \in BOOLEAN
  BY DEF GraphTypeOK, DeclareNext, declareVars, macroVars, DeclarePair, RefusePair,
         DeclareDangling, Expand, RefuseGraph, Refuse, ExpandLinear
<1>n. nodes \in Seq(GraphNode)
  BY DEF GraphTypeOK, GraphNode
<1> DEFINE Rest ==
      /\ phase \in {"edges", "edit", "built", "done"}
      /\ linkCount \in Nat \ {0} /\ outputLink \in Nat /\ feeders \subseteq FeederLinks
      /\ nodes \in Seq(GraphNode)
      /\ stateReturn \in {"none", "state", "merged"} /\ verdict \in Answer
<1>r. Rest
  BY <1>n DEF GraphTypeOK
<1> SUFFICES Rest'
  BY <1>1, <1>b DEF GraphTypeOK, GraphNode
<1>2. AnyLink \subseteq Nat
  BY GraphAssumption DEF AnyLink
<1>3. ASSUME NEW spec \in GraphNode, Add(spec), linkCount' \in Nat \ {0} PROVE Rest'
  <2>1. nodes' \in Seq(GraphNode)
    BY <1>3, <1>n DEF Add
  <2> QED
    BY <1>r, <1>3, <2>1 DEF Add
<1>4. CASE BuilderNext
  <2>1. CASE Link
    BY <1>r, <2>1 DEF Link
  <2>2. ASSUME NEW kind \in Kinds, NEW in \in AnyLink, NEW out \in AnyLink,
               AddNodeTo(kind, in, out)
        PROVE  Rest'
    <3>1. NodeSpec(kind, in, {out}) \in GraphNode
      BY <1>2 DEF NodeSpec, GraphNode
    <3> QED
      BY <1>3, <1>r, <2>2, <3>1 DEF AddNodeTo
  <2>3. ASSUME NEW kind \in Kinds, NEW in \in AnyLink, AddNode(kind, in)
        PROVE  Rest'
    <3>1. NodeSpec(kind, in, {linkCount}) \in GraphNode
      BY <1>2, <1>r DEF NodeSpec, GraphNode
    <3> QED
      BY <1>3, <1>r, <2>3, <3>1 DEF AddNode
  <2>4. ASSUME NEW kind \in Kinds, NEW in \in AnyLink, AddBranch(kind, in)
        PROVE  Rest'
    <3>1. NodeSpec(kind, in, {linkCount, linkCount + 1}) \in GraphNode
      BY <1>2, <1>r DEF NodeSpec, GraphNode
    <3> QED
      BY <1>3, <1>r, <2>4, <3>1 DEF AddBranch
  <2>5. ASSUME NEW kind \in Kinds, NEW in \in AnyLink, NEW left \in AnyLink,
               NEW right \in AnyLink, AddBranchTo(kind, in, left, right)
        PROVE  Rest'
    <3>1. NodeSpec(kind, in, {left, right}) \in GraphNode
      BY <1>2 DEF NodeSpec, GraphNode
    <3> QED
      BY <1>3, <1>r, <2>5, <3>1 DEF AddBranchTo
  <2>6. ASSUME NEW link \in FeederLinks, FeederLink(link) PROVE Rest'
    BY <1>r, <2>6 DEF FeederLink
  <2>7. ASSUME NEW out \in AnyLink, NEW return \in {"none", "state", "merged"},
               Finish(out, return)
        PROVE  Rest'
    <3>1. out + 1 \in Nat /\ out \in Nat
      BY <1>2
    <3>2. \E m \in {linkCount, out + 1} : \A y \in {linkCount, out + 1} : m >= y
      BY <1>r, <3>1
    <3>3. Max({linkCount, out + 1}) \in {linkCount, out + 1}
      BY <3>2 DEF Max
    <3>4. linkCount' \in Nat \ {0}
      BY <1>r, <2>7, <3>1, <3>3 DEF Finish
    <3> QED
      BY <1>r, <2>7, <3>1, <3>4 DEF Finish
  <2>8. ASSUME NEW cap, NEW hintsOk, Start(cap, hintsOk) PROVE Rest'
    <3>1. Verdict(cap, hintsOk) \in Answer
      BY VerdictIs DEF LateVerdict, Answer
    <3> QED
      BY <1>r, <2>8, <3>1 DEF Start
  <2> QED
    BY <1>4, <2>1, <2>2, <2>3, <2>4, <2>5, <2>6, <2>7, <2>8 DEF BuilderNext
<1>5. ASSUME NEW why \in Answer, Refuse(why) PROVE Rest'
  BY <1>r, <1>5 DEF Refuse
<1>6. CASE \E from, to \in Endpoint : DeclarePair(from, to) \/ RefusePair(from, to)
  <2>1. {"endpoint", "macro ReturnState"} \subseteq Answer
    BY DEF Answer
  <2> QED
    BY <1>r, <1>5, <1>6, <2>1 DEF DeclarePair, RefusePair, graphVars
<1>7. CASE \E from \in Endpoint : DeclareDangling(from)
  BY <1>r, <1>7 DEF DeclareDangling, graphVars
<1>8. ASSUME NEW returns \in BOOLEAN, Expand(returns) PROVE Rest'
  <2>1. /\ Len(Order(parent)) \in Nat \ {0}
        /\ \A k \in Key : Number(parent, k) \in Nat
    BY Numbers DEF LinkInv, Linked
  <2>2. DestKey("output") \in Key
    BY DEF Key
  <2>3. \A i \in DOMAIN Declared : ExpandedNode(i) \in GraphNode
    BY <2>1, DeclaredIs DEF ExpandedNode, NodeSpec, GraphNode
  <2>4. [i \in DOMAIN Declared |-> ExpandedNode(i)] \in Seq(GraphNode)
    BY <2>3, DeclaredIs
  <2> QED
    BY <1>r, <1>8, <2>1, <2>2, <2>4, ExpandIs
<1>9. ASSUME NEW returns \in BOOLEAN, RefuseGraph(returns) PROVE Rest'
  <2>1. MacroRefusal(returns) \in Answer
    BY DEF MacroRefusal, Answer
  <2> QED
    BY <1>5, <1>9, <2>1 DEF RefuseGraph
<1>10. ASSUME NEW n \in 0..2, NEW marked \in BOOLEAN, NEW returns \in BOOLEAN,
              NEW kinds \in [1..n -> {"managed", "merging"}],
              ExpandLinear(kinds, marked, returns)
       PROVE  Rest'
  <2>1. n \in Nat /\ kinds \in Seq({"managed", "merging"}) /\ Len(kinds) = n
    BY <1>10
  <2>2. \A i \in DOMAIN kinds : NodeSpec(kinds[i], i - 1, {i}) \in GraphNode
    BY <2>1 DEF NodeSpec, GraphNode, MacroKind
  <2>3. [i \in DOMAIN kinds |-> NodeSpec(kinds[i], i - 1, {i})] \in Seq(GraphNode)
    BY <2>1, <2>2
  <2> QED
    BY <1>r, <1>10, <2>1, <2>3 DEF ExpandLinear
<1>11. CASE UNCHANGED declareVars
  BY <1>r, <1>11 DEF declareVars, graphVars
<1> QED
  BY <1>4, <1>6, <1>7, <1>8, <1>9, <1>10, <1>11 DEF DeclareNext

LEMMA GraphTypeInvariant == DeclareSpec => []GraphTypeOK
<1>1. DeclareInit => GraphTypeOK
  <2> SUFFICES ASSUME DeclareInit PROVE GraphTypeOK
    OBVIOUS
  <2>1. LinkInv
    BY LinkFresh DEF DeclareInit, LinkInv
  <2>2. verdict \in Answer
    BY DEF DeclareInit, NewBuilder, Answer
  <2>3. nodes \in Seq(GraphNode)
    BY DEF DeclareInit, NewBuilder
  <2>4. /\ edges \subseteq Endpoint \X Endpoint /\ dangling \subseteq Endpoint
        /\ parent \in [Key -> Key]
    BY <2>1 DEF LinkInv, Linked, From, To, Endpoint
  <2>5. repeated \in BOOLEAN
    BY Zenon DEF DeclareInit
  <2> QED
    BY <2>2, <2>3, <2>4, <2>5 DEF DeclareInit, NewBuilder, GraphTypeOK, GraphNode
<1>2. LinkInv /\ LinkInv' /\ GraphTypeOK /\ [DeclareNext]_declareVars => GraphTypeOK'
  BY GraphTypeStep
<1> QED
  BY <1>1, <1>2, LinkInvariant, PTL DEF DeclareSpec

-----------------------------------------------------------------------------
(* The verdict on cycles.                                                  *)

LEMMA IndexIs ==
    ASSUME GraphTypeOK
    PROVE  /\ Index = 1..Len(nodes) /\ Len(nodes) \in Nat /\ IsFiniteSet(Index)
           /\ \A n \in Index : nodes[n] \in GraphNode
<1>1. nodes \in Seq(GraphNode)
  BY DEF GraphTypeOK, GraphNode
<1>2. Index = 1..Len(nodes) /\ Len(nodes) \in Nat /\ \A n \in Index : nodes[n] \in GraphNode
  BY <1>1 DEF Index
<1>3. IsFiniteSet(1..Len(nodes))
  BY <1>2, FS_Interval
<1> QED
  BY <1>2, <1>3

\* A cycle of nodes: some nodes each of which reads what another of them writes.
LEMMA CyclicIs ==
    ASSUME GraphTypeOK
    PROVE  GraphCyclic <=>
             \E T \in (SUBSET Index) \ {{}} :
               \A n \in T : \E m \in T : nodes[n].in \in nodes[m].outs
<1> DEFINE children == [n \in Index |-> Adjacent(n)]
<1>1. children \in [Index -> SUBSET Index]
  BY DEF Adjacent
<1>2. \A n, m \in Index : n \in children[m] <=> nodes[n].in \in nodes[m].outs
  BY DEF Adjacent
<1>3. GraphCyclic = Cyclic(Index, children)
  BY DEF GraphCyclic
<1> HIDE DEF children
<1>4. GraphCyclic <=> HasCycle(Index, Back(Index, children))
  BY <1>1, <1>3, IndexIs, SearchIsExact, TwoWays
<1>5. \A T \in SUBSET Index : \A n \in T :
         Back(Index, children)[n] \cap T # {} <=> \E m \in T : nodes[n].in \in nodes[m].outs
  BY <1>2 DEF Back
<1> QED
  BY <1>4, <1>5 DEF HasCycle, Turns

\* For nodes whose links exist it is a cycle of links, which LinkCycle says.
LEMMA CyclesAgree ==
    ASSUME GraphTypeOK, AllValid
    PROVE  GraphCyclic <=> LinkCycle
<1>0. \A n \in Index : nodes[n].in \in 0 .. linkCount
  <2>1. \A n \in Index : nodes[n].in \in Nat /\ ~(nodes[n].in >= linkCount)
    BY IndexIs DEF AllValid, Invalid, GraphNode
  <2> QED
    BY <2>1 DEF GraphTypeOK
<1>1. ASSUME NEW T \in (SUBSET Index) \ {{}},
             \A n \in T : \E m \in T : nodes[n].in \in nodes[m].outs
      PROVE  LinkCycle
  <2> DEFINE S == {nodes[n].in : n \in T}
  <2>1. S \in (SUBSET (0 .. linkCount)) \ {{}}
    BY <1>0
  <2>2. \A l \in S : \E n \in Index : nodes[n].in \in S /\ l \in nodes[n].outs
    BY <1>1
  <2> HIDE DEF S
  <2> QED
    BY <2>1, <2>2 DEF LinkCycle
<1>2. ASSUME LinkCycle
      PROVE  \E T \in (SUBSET Index) \ {{}} :
               \A n \in T : \E m \in T : nodes[n].in \in nodes[m].outs
  <2>1. PICK S \in (SUBSET (0 .. linkCount)) \ {{}} :
           \A l \in S : \E n \in Index : nodes[n].in \in S /\ l \in nodes[n].outs
    BY <1>2 DEF LinkCycle
  <2> DEFINE T == {n \in Index : nodes[n].in \in S /\ nodes[n].outs \cap S # {}}
  <2>2. T \in (SUBSET Index) \ {{}}
    BY <2>1
  <2>3. \A n \in T : \E m \in T : nodes[n].in \in nodes[m].outs
    BY <2>1
  <2> HIDE DEF T
  <2> QED
    BY <2>2, <2>3
<1> QED
  BY <1>1, <1>2, CyclicIs

\* There is a verdict only when nothing of the graph can change any more.
CycleInv == CycleVerdictExact /\ (verdict # "none" => phase = "done")

LEMMA CycleStep ==
    ASSUME GraphTypeOK, CycleInv, [DeclareNext]_declareVars
    PROVE  CycleInv'
<1>1. ASSUME UNCHANGED verdict, phase # "done" PROVE CycleInv'
  BY <1>1 DEF CycleInv, CycleVerdictExact
<1>2. ASSUME NEW cap, NEW hintsOk, Start(cap, hintsOk) PROVE CycleInv'
  <2>1. verdict' = Verdict(cap, hintsOk) /\ phase' = "done" /\ LinkCycle' = LinkCycle
    BY <1>2 DEF Start, LinkCycle, Index
  <2>2. verdict' = "Cycle" => LinkCycle
    BY <2>1, VerdictIs, CyclesAgree
  <2>3. verdict' \in LateVerdict => ~LinkCycle
    BY <2>1, VerdictIs, CyclesAgree
  <2> QED
    BY <2>1, <2>2, <2>3 DEF CycleInv, CycleVerdictExact, LateVerdict
<1>3. ASSUME NEW why, why \notin LateVerdict \cup {"Cycle", "none"}, Refuse(why)
      PROVE  CycleInv'
  BY <1>3 DEF Refuse, CycleInv, CycleVerdictExact, LateVerdict
<1>4. CASE UNCHANGED declareVars
  BY <1>4 DEF declareVars, graphVars, CycleInv, CycleVerdictExact, LinkCycle, Index
<1>5. CASE BuilderNext
  BY <1>1, <1>2, <1>5
  DEF BuilderNext, Link, AddNodeTo, AddNode, AddBranchTo, AddBranch, Add, FeederLink, Finish
<1>6. CASE \E from, to \in Endpoint : DeclarePair(from, to)
  BY <1>1, <1>6 DEF DeclarePair, graphVars
<1>7. CASE \E from, to \in Endpoint : RefusePair(from, to)
  BY <1>3, <1>7 DEF RefusePair, LateVerdict
<1>8. CASE \E from \in Endpoint : DeclareDangling(from)
  BY <1>1, <1>8 DEF DeclareDangling, graphVars
<1>9. ASSUME NEW returns, Expand(returns) PROVE CycleInv'
  BY <1>1, <1>9, ExpandIs
<1>10. ASSUME NEW returns, RefuseGraph(returns) PROVE CycleInv'
  <2>1. MacroRefusal(returns) \notin LateVerdict \cup {"Cycle"}
    BY DEF MacroRefusal, LateVerdict
  <2> QED
    BY <1>3, <1>10, <2>1 DEF RefuseGraph
<1>11. ASSUME NEW kinds, NEW marked, NEW returns, ExpandLinear(kinds, marked, returns)
       PROVE  CycleInv'
  BY <1>1, <1>11 DEF ExpandLinear
<1> QED
  BY <1>4, <1>5, <1>6, <1>7, <1>8, <1>9, <1>10, <1>11 DEF DeclareNext

LEMMA CycleInvariant == DeclareSpec => []CycleInv
<1>1. DeclareInit => CycleInv
  BY DEF DeclareInit, NewBuilder, CycleInv, CycleVerdictExact
<1>2. GraphTypeOK /\ CycleInv /\ [DeclareNext]_declareVars => CycleInv'
  BY CycleStep
<1> QED
  BY <1>1, <1>2, GraphTypeInvariant, PTL DEF DeclareSpec

\* start answers Cycle exactly for the graphs in which a link leads back to itself.
THEOREM CycleVerdictIsExact == DeclareSpec => []CycleVerdictExact
<1>1. CycleInv => CycleVerdictExact
  BY DEF CycleInv
<1> QED
  BY <1>1, CycleInvariant, PTL

-----------------------------------------------------------------------------
(* An accepted graph is plumbed.                                           *)

\* The graph is the one the edges ask for, and the macro found no fault with it.
Expanded ==
    /\ nodes = [i \in DOMAIN Declared |-> ExpandedNode(i)]
    /\ outputLink = Number(parent, DestKey("output"))
    /\ ~Disconnected
    /\ stateReturn # "none" => ~ReturnStateRefused
    /\ stateReturn = "merged" => \E n \in Feeding : LooksMerging(n)

PlumbInv ==
    /\ phase = "edit" => edges = {}
    /\ phase \in {"built", "done"} /\ edges # {} => Expanded
    /\ verdict # "none" => phase = "done"
    /\ verdict \in LateVerdict => AllValid /\ ~GraphCyclic
    /\ verdict = "ReturnState" => ReturnUnfit
    /\ verdict = "MissingStateMerge" => MergeUnfit

LEMMA PlumbStep ==
    ASSUME PlumbInv, [DeclareNext]_declareVars
    PROVE  PlumbInv'
<1>1. CASE UNCHANGED declareVars
  BY <1>1
  DEF declareVars, graphVars, macroVars, PlumbInv, Expanded, ExpandedNode, Disconnected,
      UsedOutputs, UsedInputs, Feeding, ReturnStateRefused, AllValid, Invalid, GraphCyclic,
      Adjacent, Index, Producers, Returner, ReturnUnfit, MergeUnfit
<1>2. ASSUME phase = "edit", phase' \in {"edit", "built"}, UNCHANGED <<verdict, macroVars>>
      PROVE  PlumbInv'
  BY <1>2 DEF PlumbInv, macroVars, LateVerdict
<1>3. ASSUME NEW cap, NEW hintsOk, Start(cap, hintsOk), UNCHANGED macroVars PROVE PlumbInv'
  <2>1. /\ phase = "built" /\ phase' = "done" /\ verdict' = Verdict(cap, hintsOk)
        /\ UNCHANGED <<linkCount, nodes, feeders, outputLink, stateReturn>>
    BY <1>3 DEF Start
  <2>2. Expanded' = Expanded /\ edges' = edges
    BY <1>3, <2>1
    DEF macroVars, Expanded, ExpandedNode, Disconnected, UsedOutputs, UsedInputs, Feeding,
        ReturnStateRefused
  <2>3. /\ AllValid' = AllValid /\ GraphCyclic' = GraphCyclic
        /\ ReturnUnfit' = ReturnUnfit /\ MergeUnfit' = MergeUnfit
    BY <2>1
    DEF AllValid, Invalid, GraphCyclic, Adjacent, Index, Producers, Returner, ReturnUnfit,
        MergeUnfit
  <2>4. verdict' \in LateVerdict => AllValid' /\ ~GraphCyclic'
    BY <2>1, <2>3, VerdictIs
  <2>5. /\ verdict' = "ReturnState" => ReturnUnfit'
        /\ verdict' = "MissingStateMerge" => MergeUnfit'
    BY <2>1, <2>3, VerdictIs
  <2> QED
    BY <2>1, <2>2, <2>4, <2>5 DEF PlumbInv
<1>4. ASSUME phase = "edges", phase' = "edges", UNCHANGED verdict PROVE PlumbInv'
  BY <1>4 DEF PlumbInv, LateVerdict
<1>5. ASSUME NEW why, why \notin LateVerdict, Refuse(why) PROVE PlumbInv'
  <2>1. {"ReturnState", "MissingStateMerge"} \subseteq LateVerdict
    BY DEF LateVerdict
  <2> QED
    BY <1>5, <2>1 DEF Refuse, PlumbInv
<1>6. CASE BuilderNext /\ UNCHANGED macroVars
  BY <1>2, <1>3, <1>6
  DEF BuilderNext, Link, AddNodeTo, AddNode, AddBranchTo, AddBranch, Add, FeederLink, Finish
<1>7. CASE \E from, to \in Endpoint : DeclarePair(from, to)
  BY <1>4, <1>7 DEF DeclarePair, graphVars
<1>8. CASE \E from, to \in Endpoint : RefusePair(from, to)
  BY <1>5, <1>8 DEF RefusePair, LateVerdict
<1>9. CASE \E from \in Endpoint : DeclareDangling(from)
  BY <1>4, <1>9 DEF DeclareDangling, graphVars
<1>10. ASSUME NEW returns \in BOOLEAN, Expand(returns) PROVE PlumbInv'
  <2>1. /\ phase = "edges" /\ phase' = "built" /\ MacroRefusal(returns) = "none"
        /\ UNCHANGED <<verdict, macroVars>>
        /\ nodes' = [i \in DOMAIN Declared |-> ExpandedNode(i)]
        /\ outputLink' = Number(parent, DestKey("output"))
    BY <1>10, ExpandIs
  <2>2. ~Disconnected /\ (returns => ~ReturnStateRefused)
    BY <2>1 DEF MacroRefusal
  <2>3. /\ stateReturn' # "none" => returns
        /\ stateReturn' = "merged" => \E n \in Feeding : LooksMerging(n)
    <3>1. CASE ~returns
      BY <1>10, <3>1, ExpandIs, Zenon
    <3>2. CASE returns /\ ~ \E n \in Feeding : LooksMerging(n)
      BY <1>10, <3>2, ExpandIs, Zenon
    <3> QED
      BY <3>1, <3>2
  <2>5. Expanded'
    BY <2>1, <2>2, <2>3
    DEF macroVars, Expanded, ExpandedNode, Disconnected, UsedOutputs, UsedInputs, Feeding,
        ReturnStateRefused
  <2> QED
    BY <2>1, <2>5 DEF PlumbInv, LateVerdict
<1>11. ASSUME NEW returns, RefuseGraph(returns) PROVE PlumbInv'
  <2>1. MacroRefusal(returns) \notin LateVerdict
    BY DEF MacroRefusal, LateVerdict
  <2> QED
    BY <1>5, <1>11, <2>1 DEF RefuseGraph
<1>12. ASSUME NEW kinds, NEW marked, NEW returns, ExpandLinear(kinds, marked, returns)
       PROVE  PlumbInv'
  BY <1>12 DEF ExpandLinear, macroVars, PlumbInv, LateVerdict
<1> QED
  BY <1>1, <1>6, <1>7, <1>8, <1>9, <1>10, <1>11, <1>12 DEF DeclareNext

LEMMA PlumbInvariant == DeclareSpec => []PlumbInv
<1>1. DeclareInit => PlumbInv
  BY DEF DeclareInit, NewBuilder, PlumbInv, LateVerdict
<1> QED
  BY <1>1, PlumbStep, PTL DEF DeclareSpec

\* Every link a node reads comes from the input or is written, and every link
\* a node writes goes to the output or is read.
LEMMA ExpandedJoins ==
    ASSUME GraphTypeOK, LinkInv, Expanded, dangling = {}
    PROVE  /\ \A n \in Index : nodes[n].in = 0 \/ \E m \in Index : nodes[n].in \in nodes[m].outs
           /\ \A n \in Index : \A l \in nodes[n].outs :
                l = outputLink \/ \E m \in Index : nodes[m].in = l
<1>1. /\ Index = DOMAIN Declared
      /\ \A n \in Index :
           /\ nodes[n].in = Number(parent, DestKey(Declared[n].name))
           /\ nodes[n].outs = {Number(parent, SourceKey(Declared[n].name))}
           /\ Declared[n].name \in Names
  BY DeclaredIs DEF Expanded, ExpandedNode, NodeSpec, Index
<1>2. \A a \in Names : \E n \in Index : Declared[n].name = a
  BY <1>1 DEF Names
<1>3. \A e \in edges : /\ e[1] \in From /\ e[2] \in To
                       /\ Number(parent, SourceKey(e[1])) = Number(parent, DestKey(e[2]))
  <2>1. \A e \in edges : e[1] \in From /\ e[2] \in To
    BY DEF LinkInv, Linked
  <2>2. \A e \in edges : SourceKey(e[1]) \in Key /\ DestKey(e[2]) \in Key
    BY <2>1, EndsAreKeys
  <2>3. \A e \in edges : Root(parent, SourceKey(e[1])) = Root(parent, DestKey(e[2]))
    BY DEF LinkInv, Linked
  <2>4. \A k, l \in Key :
           Number(parent, k) = Number(parent, l) <=> Root(parent, k) = Root(parent, l)
    BY Numbers DEF LinkInv, Linked
  <2> QED
    BY <2>1, <2>2, <2>3, <2>4
<1>4. \A a \in Names : (\E e \in edges : e[2] = a) /\ (\E e \in edges : e[1] = a)
  BY DEF Expanded, Disconnected, UsedInputs, UsedOutputs
<1>5. Number(parent, SourceKey("input")) = 0
  BY Numbers DEF LinkInv, Linked
<1>6. ASSUME NEW n \in Index
      PROVE  nodes[n].in = 0 \/ \E m \in Index : nodes[n].in \in nodes[m].outs
  <2>1. PICK e \in edges : e[2] = Declared[n].name
    BY <1>1, <1>4
  <2>2. nodes[n].in = Number(parent, SourceKey(e[1]))
    BY <1>1, <1>3, <2>1
  <2>3. e[1] = "input" \/ \E m \in Index : Declared[m].name = e[1]
    BY <1>2, <1>3 DEF From
  <2> QED
    BY <1>1, <1>5, <2>2, <2>3
<1>7. ASSUME NEW n \in Index, NEW l \in nodes[n].outs
      PROVE  l = outputLink \/ \E m \in Index : nodes[m].in = l
  <2>1. PICK e \in edges : e[1] = Declared[n].name
    BY <1>1, <1>4
  <2>2. l = Number(parent, DestKey(e[2]))
    BY <1>1, <1>3, <2>1
  <2>3. e[2] = "output" \/ \E m \in Index : Declared[m].name = e[2]
    BY <1>2, <1>3 DEF To
  <2> QED
    BY <1>1, <2>2, <2>3 DEF Expanded
<1> QED
  BY <1>6, <1>7

\* Without a cycle nobody writes the input link, and nobody reads the output link.
LEMMA ExpandedEnds ==
    ASSUME GraphTypeOK, LinkInv, Expanded, dangling = {}, ~GraphCyclic, NEW n \in Index
    PROVE  0 \notin nodes[n].outs /\ nodes[n].in # outputLink
<1>1. ASSUME 0 \in nodes[n].outs PROVE FALSE
  <2>1. \A i \in Index : \E m \in Index : nodes[i].in \in nodes[m].outs
    BY <1>1, ExpandedJoins
  <2> QED
    BY <2>1, CyclicIs
<1>2. ASSUME nodes[n].in = outputLink PROVE FALSE
  <2> DEFINE children == [i \in Index |-> Adjacent(i)]
  <2>1. \A i \in Index : nodes[i].outs # {}
    BY DEF Expanded, ExpandedNode, NodeSpec, Index
  <2>2. \A i \in Index : \E m \in Index : nodes[m].in \in nodes[i].outs
    BY <1>2, <2>1, ExpandedJoins
  <2>3. Turns(children, Index) /\ children \in [Index -> SUBSET Index]
    BY <2>2 DEF Turns, Adjacent
  <2>4. HasCycle(Index, children)
    BY <2>3 DEF HasCycle
  <2>5. GraphCyclic = Cyclic(Index, children)
    BY DEF GraphCyclic
  <2> HIDE DEF children
  <2> QED
    BY <2>3, <2>4, <2>5, IndexIs, SearchIsExact
<1> QED
  BY <1>1, <1>2

\* A graph that pipeline! expands and start accepts strands nothing, for every
\* set of named nodes and whatever edges connect them: every link that is written is
\* read, every link that is read is written, and the two ends are ends.
THEOREM AcceptedGraphIsPlumbed == DeclareSpec => []AcceptedIsPlumbed
<1>1. GraphTypeOK /\ LinkInv /\ PlumbInv => AcceptedIsPlumbed
  <2> SUFFICES ASSUME GraphTypeOK, LinkInv, PlumbInv,
                      phase = "done", verdict = "ok", edges # {}, dangling = {}
               PROVE  \A n \in Index :
                        /\ 0 \notin nodes[n].outs /\ nodes[n].in # outputLink
                        /\ nodes[n].in # 0 => \E m \in Index : nodes[n].in \in nodes[m].outs
                        /\ \A l \in nodes[n].outs \ {outputLink} :
                             \E m \in Index : nodes[m].in = l
    BY DEF AcceptedIsPlumbed
  <2>1. Expanded /\ ~GraphCyclic
    BY DEF PlumbInv, LateVerdict
  <2> QED
    BY <2>1, ExpandedEnds, ExpandedJoins
<1> QED
  BY <1>1, GraphTypeInvariant, LinkInvariant, PlumbInvariant, PTL

-----------------------------------------------------------------------------
(* The macro and start agree on return states.                             *)

NamesDiffer == \A i, j \in DOMAIN Declared : Declared[i].name = Declared[j].name => i = j

LEMMA NodeOfIs ==
    ASSUME NEW a \in Names
    PROVE  \E i \in DOMAIN Declared : Declared[i].name = a /\ NodeOf(a) = Declared[i]
<1> DEFINE I == {i \in 1..Len(Declared) : Declared[i].name = a}
<1>1. DOMAIN Declared = 1..Len(Declared) /\ I # {} /\ I \subseteq Nat
  BY DeclaredIs DEF Names
<1>2. NodeOf(a) = Declared[IF I # {} THEN Min(I) ELSE 0]
  BY DEF NodeOf, SelectInSeq
<1> HIDE DEF I
<1>3. \E n \in I : \A m \in I : n <= m
  BY <1>1, SmallestExists
<1>4. Min(I) \in I
  BY <1>3 DEF Min
<1> QED
  BY <1>1, <1>2, <1>4 DEF I

\* Of the nodes the output link has exactly the one that the macro allowed to return
\* its state: another node on it would be followed by a node that reads it.
LEMMA OneReturner ==
    ASSUME GraphTypeOK, LinkInv, Expanded, NamesDiffer, dangling = {}, ~GraphCyclic,
           stateReturn # "none"
    PROVE  \E a \in Names : \E m \in Index :
             /\ Feeding = {a} /\ Producers = {m} /\ Returner(m)
             /\ nodes[m].kind = NodeOf(a).kind
<1>1. PICK a \in Names : Feeding = {a} /\ NodeOf(a).kind # "external"
  BY DEF Expanded, ReturnStateRefused
<1>2. PICK m \in DOMAIN Declared : Declared[m].name = a /\ NodeOf(a) = Declared[m]
  BY NodeOfIs
<1>3. /\ Index = DOMAIN Declared
      /\ \A n \in Index :
           /\ nodes[n].kind = Declared[n].kind /\ Declared[n].kind \in MacroKind
           /\ nodes[n].in = Number(parent, DestKey(Declared[n].name))
           /\ nodes[n].outs = {Number(parent, SourceKey(Declared[n].name))}
           /\ Declared[n].name \in Names
  BY DeclaredIs DEF Expanded, ExpandedNode, NodeSpec, Index
<1>4. \A e \in edges : Number(parent, SourceKey(e[1])) = Number(parent, DestKey(e[2]))
  <2>1. \A e \in edges : SourceKey(e[1]) \in Key /\ DestKey(e[2]) \in Key
    BY EndsAreKeys DEF LinkInv, Linked
  <2>2. \A e \in edges : Root(parent, SourceKey(e[1])) = Root(parent, DestKey(e[2]))
    BY DEF LinkInv, Linked
  <2>3. \A k, l \in Key :
           Number(parent, k) = Number(parent, l) <=> Root(parent, k) = Root(parent, l)
    BY Numbers DEF LinkInv, Linked
  <2> QED
    BY <2>1, <2>2, <2>3
<1>5. outputLink = Number(parent, DestKey("output"))
  BY DEF Expanded
<1>6. m \in Producers
  <2>1. PICK e \in edges : e[1] = a /\ e[2] = "output"
    BY <1>1 DEF Feeding
  <2> QED
    BY <1>2, <1>3, <1>4, <1>5, <2>1 DEF Producers
<1>7. ASSUME NEW n \in Producers PROVE n = m
  <2>1. n \in Index /\ outputLink = Number(parent, SourceKey(Declared[n].name))
    BY <1>3 DEF Producers
  <2>2. PICK e \in edges : e[1] = Declared[n].name
    BY <1>3, <2>1 DEF Expanded, Disconnected, UsedOutputs
  <2>3. CASE e[2] = "output"
    <3>1. Declared[n].name \in Feeding
      BY <2>2, <2>3 DEF Feeding
    <3> QED
      BY <1>1, <1>2, <1>3, <2>1, <3>1 DEF NamesDiffer
  <2>4. CASE e[2] # "output"
    <3>1. e[2] \in Names
      BY <2>4 DEF LinkInv, Linked, To
    <3>2. PICK k \in Index : Declared[k].name = e[2]
      BY <1>3, <3>1 DEF Names
    <3>3. nodes[k].in = outputLink
      BY <1>3, <1>4, <2>1, <2>2, <3>2
    <3> QED
      BY <3>3, ExpandedEnds
  <2> QED
    BY <2>3, <2>4
<1>8. Producers = {m} /\ Returner(m) /\ nodes[m].kind = NodeOf(a).kind
  BY <1>1, <1>2, <1>3, <1>6, <1>7 DEF Returner, MacroKind
<1> QED
  BY <1>1, <1>2, <1>3, <1>8

\* Start refuses no return state that pipeline! let through, but for a merge the
\* macro read into an expression, for every set of nodes and whatever edges there are.
THEOREM ReturnStatesAgreeAlways == DeclareSpec => []ReturnStatesAgree
<1>1. GraphTypeOK /\ LinkInv /\ PlumbInv => ReturnStatesAgree
  <2> SUFFICES ASSUME GraphTypeOK, LinkInv, PlumbInv, NamesDiffer,
                      phase = "done", edges # {}, dangling = {}
               PROVE  /\ verdict # "ReturnState"
                      /\ verdict = "MissingStateMerge" =>
                           \E n \in Names :
                             Feeding = {n} /\ LooksMerging(n) /\ NodeOf(n).kind # "merging"
    BY DEF ReturnStatesAgree, NamesDiffer
  <2>1. Expanded
    BY DEF PlumbInv
  <2>2. ASSUME verdict \in {"ReturnState", "MissingStateMerge"}
        PROVE  \E n \in Names :
                 /\ verdict = "MissingStateMerge"
                 /\ Feeding = {n} /\ LooksMerging(n) /\ NodeOf(n).kind # "merging"
    <3>1. ~GraphCyclic /\ stateReturn # "none"
      BY <2>2 DEF PlumbInv, LateVerdict, ReturnUnfit, MergeUnfit
    <3>2. PICK a \in Names : \E m \in Index :
             /\ Feeding = {a} /\ Producers = {m} /\ Returner(m)
             /\ nodes[m].kind = NodeOf(a).kind
      BY <2>1, <3>1, OneReturner
    <3>3. verdict = "MissingStateMerge" /\ MergeUnfit
      BY <2>2, <3>2 DEF PlumbInv, ReturnUnfit
    <3>4. LooksMerging(a) /\ NodeOf(a).kind # "merging"
      BY <2>1, <3>2, <3>3 DEF MergeUnfit, Expanded
    <3> QED
      BY <3>2, <3>3, <3>4
  <2> QED
    BY <2>2
<1> QED
  BY <1>1, GraphTypeInvariant, LinkInvariant, PlumbInvariant, PTL

============================================================================
