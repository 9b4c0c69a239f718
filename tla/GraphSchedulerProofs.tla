------------------------ MODULE GraphSchedulerProofs ------------------------
(***************************************************************************)
(* The Step graph and the scheduler that advances it, for every graph a    *)
(* Task may be planned with.                                               *)
(***************************************************************************)
EXTENDS GraphScheduler, FiniteSetTheorems, WellFoundedInduction, TLAPS

(***************************************************************************)
(* Induction over the naturals, said of sets.                              *)
(***************************************************************************)
LEMMA LeastNatural ==
  ASSUME NEW T \in SUBSET Nat, T # {}
  PROVE  \E x \in T : \A y \in T : x <= y
<1> DEFINE Less == OpToRel(<, Nat)
<1>1. Less = {ss \in Nat \X Nat : ss[1] < ss[2]}
  BY DEF OpToRel
<1>2. IsWellFoundedOn(Less, Nat)
  BY NatLessThanWellFounded
<1> HIDE DEF Less
<1>3. PICK x \in T : \A y \in T : ~(<<y, x>> \in Less)
  BY <1>2, WFMin
<1>4. ASSUME NEW y \in T PROVE x <= y
  <2>1. x \in Nat /\ y \in Nat /\ <<y, x>> \notin Less
    BY <1>3
  <2>2. ~(y < x)
    BY <1>1, <2>1
  <2> QED
    BY <2>1, <2>2
<1> QED
  BY <1>4

LEMMA UpTo ==
  ASSUME NEW k \in Nat, NEW S, 0 \in S, \A n \in 0..(k - 1) : n \in S => n + 1 \in S
  PROVE  0..k \subseteq S
<1> DEFINE T == {n \in 0..k : n \notin S}
<1>1. SUFFICES ASSUME T # {} PROVE FALSE
  OBVIOUS
<1>2. PICK x \in T : \A y \in T : x <= y
  <2>1. T \in SUBSET Nat
    OBVIOUS
  <2> QED
    BY <1>1, <2>1, LeastNatural
<1>3. x # 0 /\ x - 1 \in 0..(k - 1)
  BY <1>2
<1>4. x - 1 \in S
  BY <1>2, <1>3
<1> QED
  BY <1>2, <1>3, <1>4

(***************************************************************************)
(* The topological order.                                                  *)
(***************************************************************************)
AvailableAfter(steps, deps, done) ==
  {s \in steps \ ToSet(done) : deps[s] \subseteq ToSet(done)}
Grown(steps, deps, done) ==
  IF AvailableAfter(steps, deps, done) = {} THEN done
  ELSE Append(done, First(AvailableAfter(steps, deps, done)))

(* Grows(f, steps, deps, k): f lists the k first rounds of the algorithm. *)
Grows(f, steps, deps, k) ==
  f = [n \in 0..k |-> IF n = 0 THEN <<>> ELSE Grown(steps, deps, f[n - 1])]

LEMMA RoundsExist ==
  ASSUME NEW steps, NEW deps, NEW k \in Nat
  PROVE  \E f : Grows(f, steps, deps, k)
<1> DEFINE S == {n \in 0..k : \E f : Grows(f, steps, deps, n)}
<1>1. 0 \in S
  <2>1. Grows([n \in 0..0 |-> <<>>], steps, deps, 0)
    BY DEF Grows
  <2> QED
    BY <2>1
<1>2. ASSUME NEW n \in 0..(k - 1), n \in S PROVE n + 1 \in S
  <2>1. PICK f : Grows(f, steps, deps, n)
    BY <1>2
  <2> DEFINE h == [i \in 0..(n + 1) |-> IF i <= n THEN f[i] ELSE Grown(steps, deps, f[n])]
  <2>2. \A i \in 0..(n + 1) : i # 0 => h[i - 1] = f[i - 1]
    OBVIOUS
  <2>3. \A i \in 0..n : f[i] = IF i = 0 THEN <<>> ELSE Grown(steps, deps, f[i - 1])
    BY <2>1 DEF Grows
  <2>4. ASSUME NEW i \in 0..(n + 1)
        PROVE  h[i] = IF i = 0 THEN <<>> ELSE Grown(steps, deps, h[i - 1])
    <3>1. CASE i \in 0..n
      BY <2>2, <2>3, <3>1
    <3>2. CASE i = n + 1
      BY <2>2, <3>2
    <3> QED
      BY <3>1, <3>2
  <2>5. h = [i \in 0..(n + 1) |-> h[i]]
    OBVIOUS
  <2> HIDE DEF h
  <2>6. Grows(h, steps, deps, n + 1)
    BY <2>4, <2>5 DEF Grows
  <2> QED
    BY <2>6
<1> HIDE DEF S
<1>3. 0..k \subseteq S
  BY <1>1, <1>2, UpTo
<1> QED
  BY <1>3 DEF S

LEMMA OrderIsTheLastRound ==
  ASSUME NEW steps, IsFiniteSet(steps), NEW deps
  PROVE  \E f : /\ Grows(f, steps, deps, Cardinality(steps))
                /\ TopologicalOrder(steps, deps) = f[Cardinality(steps)]
<1> DEFINE f == CHOOSE f : Grows(f, steps, deps, Cardinality(steps))
<1>1. Cardinality(steps) \in Nat
  BY FS_CardinalityType
<1>2. Grows(f, steps, deps, Cardinality(steps))
  BY <1>1, RoundsExist
<1>3. TopologicalOrder(steps, deps) = f[Cardinality(steps)]
  BY DEF TopologicalOrder, Grows, Grown, AvailableAfter
<1> QED
  BY <1>2, <1>3

(* A list of Steps without repetition, each after all that it waits for.   *)
Ordered(steps, deps, q) ==
  /\ q \in Seq(steps)
  /\ \A i, j \in 1..Len(q) : q[i] = q[j] => i = j
  /\ \A i \in 1..Len(q) : deps[q[i]] \subseteq {q[j] : j \in 1..(i - 1)}

LEMMA GrownIsOrdered ==
  ASSUME NEW steps \in SUBSET Nat, NEW deps, NEW q, Ordered(steps, deps, q)
  PROVE  /\ Ordered(steps, deps, Grown(steps, deps, q))
         /\ Len(Grown(steps, deps, q))
              = IF AvailableAfter(steps, deps, q) = {} THEN Len(q) ELSE Len(q) + 1
<1>1. CASE AvailableAfter(steps, deps, q) = {}
  BY <1>1 DEF Grown
<1>2. CASE AvailableAfter(steps, deps, q) # {}
  <2>1. PICK x : x = First(AvailableAfter(steps, deps, q))
    OBVIOUS
  <2>2. AvailableAfter(steps, deps, q) \in SUBSET Nat
    BY DEF AvailableAfter
  <2>3. x \in AvailableAfter(steps, deps, q)
    BY <1>2, <2>1, <2>2, LeastNatural DEF First
  <2>4. x \in steps /\ q \in Seq(steps) /\ Len(q) \in Nat
    BY <2>3 DEF AvailableAfter, Ordered
  <2>5. /\ \A i \in 1..Len(q) : q[i] # x
        /\ deps[x] \subseteq {q[j] : j \in 1..Len(q)}
    BY <2>3, <2>4 DEF AvailableAfter, ToSet
  <2>6. PICK r : r = Append(q, x)
    OBVIOUS
  <2>7. /\ r \in Seq(steps) /\ Len(r) = Len(q) + 1 /\ r[Len(q) + 1] = x
        /\ \A i \in 1..Len(q) : r[i] = q[i]
    BY <2>4, <2>6
  <2>8. \A i, j \in 1..Len(r) : r[i] = r[j] => i = j
    BY <2>4, <2>5, <2>7 DEF Ordered
  <2>9. ASSUME NEW i \in 1..Len(r)
        PROVE  deps[r[i]] \subseteq {r[j] : j \in 1..(i - 1)}
    <3>1. CASE i \in 1..Len(q)
      <4>1. deps[q[i]] \subseteq {q[j] : j \in 1..(i - 1)}
        BY <3>1 DEF Ordered
      <4>2. \A j \in 1..(i - 1) : r[j] = q[j]
        BY <2>4, <2>7, <3>1
      <4> QED
        BY <2>7, <3>1, <4>1, <4>2
    <3>2. CASE i = Len(q) + 1
      <4>1. \A j \in 1..Len(q) : r[j] = q[j]
        BY <2>7
      <4>2. i - 1 = Len(q) /\ r[i] = x
        BY <2>4, <2>7, <3>2
      <4> QED
        BY <2>5, <4>1, <4>2
    <3> QED
      BY <2>4, <2>7, <3>1, <3>2
  <2>10. Grown(steps, deps, q) = r
    BY <1>2, <2>1, <2>6 DEF Grown
  <2>11. Ordered(steps, deps, r)
    BY <2>7, <2>8, <2>9 DEF Ordered
  <2> QED
    BY <1>2, <2>7, <2>10, <2>11
<1> QED
  BY <1>1, <1>2

(* An ordered list of Steps that is as long as the graph has them all.     *)
LEMMA OrderedAndFull ==
  ASSUME NEW steps, IsFiniteSet(steps), NEW deps, NEW q, Ordered(steps, deps, q)
  PROVE  /\ Len(q) <= Cardinality(steps)
         /\ Len(q) = Cardinality(steps) => \A s \in steps : \E i \in 1..Len(q) : q[i] = s
         /\ (\A s \in steps : \E i \in 1..Len(q) : q[i] = s) => Len(q) = Cardinality(steps)
<1>1. Len(q) \in Nat /\ q \in [1..Len(q) -> steps]
  BY DEF Ordered
<1>2. q \in Injection(1..Len(q), steps)
  BY <1>1 DEF Ordered, Injection, IsInjective
<1>3. IsFiniteSet(1..Len(q)) /\ Cardinality(1..Len(q)) = Len(q)
  BY <1>1, FS_Interval
<1>4. /\ Len(q) <= Cardinality(steps)
      /\ Len(q) = Cardinality(steps) <=> q \in Surjection(1..Len(q), steps)
  BY <1>2, <1>3, FS_Injection
<1>5. q \in Surjection(1..Len(q), steps) <=> \A s \in steps : \E i \in 1..Len(q) : q[i] = s
  BY <1>1 DEF Surjection
<1> QED
  BY <1>4, <1>5

(* Every round of the algorithm, and so what it ends with, is ordered; and  *)
(* it falls behind only when some Steps all wait for one another.           *)
Acyclic(steps, deps) ==
  \A T \in SUBSET steps : T # {} => \E s \in T : deps[s] \cap T = {}

LEMMA RoundIsOrdered ==
  ASSUME NEW steps \in SUBSET Nat, IsFiniteSet(steps), NEW deps, NEW f,
         Grows(f, steps, deps, Cardinality(steps))
  PROVE  \A n \in 0..Cardinality(steps) : Ordered(steps, deps, f[n])
<1>1. PICK k \in Nat : k = Cardinality(steps)
  BY FS_CardinalityType
<1>2. \A n \in 0..k : f[n] = IF n = 0 THEN <<>> ELSE Grown(steps, deps, f[n - 1])
  BY <1>1 DEF Grows
<1> DEFINE S == {n \in 0..k : Ordered(steps, deps, f[n])}
<1>3. 0 \in S
  <2>1. f[0] = <<>>
    BY <1>2
  <2>2. <<>> \in Seq(steps) /\ Len(<<>>) = 0 /\ 1..0 = {}
    OBVIOUS
  <2>3. Ordered(steps, deps, <<>>)
    BY <2>2 DEF Ordered
  <2> QED
    BY <2>1, <2>3
<1>4. ASSUME NEW n \in 0..(k - 1), n \in S PROVE n + 1 \in S
  <2>1. n + 1 \in 0..k /\ n + 1 # 0 /\ (n + 1) - 1 = n
    OBVIOUS
  <2>2. f[n + 1] = Grown(steps, deps, f[n])
    BY <1>2, <2>1
  <2>3. Ordered(steps, deps, f[n + 1])
    BY <1>4, <2>2, GrownIsOrdered
  <2> QED
    BY <2>1, <2>3
<1> HIDE DEF S
<1>5. 0..k \subseteq S
  BY <1>3, <1>4, UpTo
<1> QED
  BY <1>1, <1>5 DEF S

LEMMA NobodyIsLeft ==
  ASSUME NEW steps \in SUBSET Nat, IsFiniteSet(steps), NEW deps, NEW f,
         Grows(f, steps, deps, Cardinality(steps)),
         \A s \in steps : deps[s] \subseteq steps, Acyclic(steps, deps)
  PROVE  Len(f[Cardinality(steps)]) = Cardinality(steps)
<1>1. PICK k \in Nat : k = Cardinality(steps)
  BY FS_CardinalityType
<1>2. \A n \in 0..k : f[n] = IF n = 0 THEN <<>> ELSE Grown(steps, deps, f[n - 1])
  BY <1>1 DEF Grows
<1>3. \A n \in 0..k : Ordered(steps, deps, f[n])
  BY <1>1, RoundIsOrdered
<1> DEFINE S == {n \in 0..k : Len(f[n]) = n}
<1>4. 0 \in S
  BY <1>2
<1>5. ASSUME NEW n \in 0..(k - 1), n \in S PROVE n + 1 \in S
  <2>1. n + 1 \in 0..k /\ n + 1 # 0 /\ (n + 1) - 1 = n /\ n \in 0..k /\ n # k
    OBVIOUS
  <2>2. f[n + 1] = Grown(steps, deps, f[n])
    BY <1>2, <2>1
  <2>3. PICK q : q = f[n]
    OBVIOUS
  <2>4. Ordered(steps, deps, q) /\ Len(q) = n
    BY <1>3, <1>5, <2>1, <2>3
  <2> DEFINE T == steps \ ToSet(q)
  <2>5. T # {}
    <3>1. PICK s \in steps : \A i \in 1..Len(q) : q[i] # s
      BY <1>1, <2>1, <2>4, OrderedAndFull
    <3>2. q \in Seq(steps)
      BY <2>4 DEF Ordered
    <3>3. s \notin ToSet(q)
      BY <3>1, <3>2 DEF ToSet
    <3> QED
      BY <3>3
  <2>6. PICK s \in T : deps[s] \cap T = {}
    BY <2>5 DEF Acyclic
  <2>7. s \in AvailableAfter(steps, deps, q)
    BY <2>6 DEF AvailableAfter
  <2>8. Len(f[n + 1]) = n + 1
    BY <2>2, <2>3, <2>4, <2>7, GrownIsOrdered
  <2> QED
    BY <2>1, <2>8
<1> HIDE DEF S
<1>6. 0..k \subseteq S
  BY <1>4, <1>5, UpTo
<1> QED
  BY <1>1, <1>6 DEF S

LEMMA OrderIsOrdered ==
  ASSUME NEW steps \in SUBSET Nat, IsFiniteSet(steps), NEW deps
  PROVE  Ordered(steps, deps, TopologicalOrder(steps, deps))
<1>1. PICK f : /\ Grows(f, steps, deps, Cardinality(steps))
               /\ TopologicalOrder(steps, deps) = f[Cardinality(steps)]
  BY OrderIsTheLastRound
<1>2. Cardinality(steps) \in 0..Cardinality(steps)
  BY FS_CardinalityType
<1> QED
  BY <1>1, <1>2, RoundIsOrdered

(* validateTaskGraph refuses a graph exactly when some of its Steps all     *)
(* wait for one another: Kahn's algorithm loses no Step of another graph,   *)
(* and lists no two Steps of a cycle.                                       *)
THEOREM CyclesAreRefused ==
  ASSUME NEW g \in Graphs, \A s \in g.steps : g.deps[s] \subseteq g.steps
  PROVE  ValidGraph(g) <=> Acyclic(g.steps, g.deps)
<1>1. /\ g.steps \in SUBSET Nat /\ IsFiniteSet(g.steps)
      /\ g.order = TopologicalOrder(g.steps, g.deps)
  BY GraphsAssumption
<1>2. ValidGraph(g) <=> Len(g.order) = Cardinality(g.steps)
  BY DEF ValidGraph
<1>3. ASSUME Acyclic(g.steps, g.deps) PROVE Len(g.order) = Cardinality(g.steps)
  BY <1>1, <1>3, OrderIsTheLastRound, NobodyIsLeft
<1>4. ASSUME Len(g.order) = Cardinality(g.steps) PROVE Acyclic(g.steps, g.deps)
  <2>1. PICK q : q = g.order /\ Ordered(g.steps, g.deps, q)
    BY <1>1, OrderIsOrdered
  <2>2. \A s \in g.steps : \E i \in 1..Len(q) : q[i] = s
    BY <1>1, <1>4, <2>1, OrderedAndFull
  <2>3. SUFFICES ASSUME NEW T \in SUBSET g.steps, T # {}
                 PROVE  \E s \in T : g.deps[s] \cap T = {}
    BY DEF Acyclic
  <2> DEFINE Places == {i \in 1..Len(q) : q[i] \in T}
  <2>4. Len(q) \in Nat /\ Places \in SUBSET Nat
    BY <2>1 DEF Ordered
  <2>5. Places # {}
    BY <2>2, <2>3
  <2>6. PICK i \in Places : \A j \in Places : i <= j
    BY <2>4, <2>5, LeastNatural
  <2>7. g.deps[q[i]] \subseteq {q[j] : j \in 1..(i - 1)}
    BY <2>1, <2>6 DEF Ordered
  <2>8. \A j \in 1..(i - 1) : q[j] \notin T
    BY <2>4, <2>6
  <2> QED
    BY <2>6, <2>7, <2>8
<1> QED
  BY <1>2, <1>3, <1>4

(***************************************************************************)
(* One evaluation of the dependency policies.                              *)
(***************************************************************************)
StepStates == {"pending", "ready", "running", "waiting", "blocked", "review"} \cup Settled
Fallible   == {"pending", "ready"}

(* A graph that validateTaskGraph lets pass.                               *)
LEMMA GoodGraph ==
  ASSUME NEW g \in Graphs, ValidGraph(g)
  PROVE  /\ IsFiniteSet(g.steps) /\ g.steps \subseteq Nat
         /\ \A s \in g.steps : g.deps[s] \subseteq g.steps
         /\ \A s \in g.steps : g.policy[s] \in [Fallen -> Outcomes]
         /\ g.maxReady \in Nat \ {0} /\ g.maxParallel \in Nat \ {0} /\ g.maxRedo \in Nat
BY GraphsAssumption DEF ValidGraph

(* The strongest outcome of what is seen of the dependencies.              *)
LEMMA OutcomeIsStrongest ==
  ASSUME NEW g \in Graphs, ValidGraph(g), NEW seen, NEW s \in g.steps
  PROVE  LET o == TerminalDependencyOutcome(g, seen, s)
             F == {d \in g.deps[s] : seen[d] \in Fallen}
         IN  /\ o \in Outcomes
             /\ \A d \in F : Priority[g.policy[s][seen[d]]] <= Priority[o]
             /\ o # "continue" => \E d \in F : g.policy[s][seen[d]] = o
             /\ o = "continue" => \A d \in F : g.policy[s][seen[d]] = "continue"
<1> DEFINE F == {d \in g.deps[s] : seen[d] \in Fallen}
           fired == {g.policy[s][seen[d]] : d \in F}
<1>1. PICK o : o = TerminalDependencyOutcome(g, seen, s)
  OBVIOUS
<1>2. g.policy[s] \in [Fallen -> Outcomes]
  BY GoodGraph
<1>3. fired \subseteq Outcomes
  BY <1>2
<1>4. o = IF fired = {} THEN "continue"
          ELSE CHOOSE o1 \in fired : \A q \in fired : Priority[q] <= Priority[o1]
  BY <1>1 DEF TerminalDependencyOutcome
<1>5. \A d \in F : g.policy[s][seen[d]] \in fired
  OBVIOUS
<1>6. \A q \in fired : \E d \in F : g.policy[s][seen[d]] = q
  OBVIOUS
<1> HIDE DEF fired, F
<1>7. /\ Priority["continue"] = 0 /\ Priority["block"] = 1
      /\ Priority["skip"] = 2 /\ Priority["cancel"] = 3
  BY DEF Priority, Outcomes
<1>8. fired # {} => \E o1 \in fired : \A q \in fired : Priority[q] <= Priority[o1]
  <2>1. CASE "cancel" \in fired
    BY <1>3, <1>7, <2>1 DEF Outcomes
  <2>2. CASE "cancel" \notin fired /\ "skip" \in fired
    BY <1>3, <1>7, <2>2 DEF Outcomes
  <2>3. CASE "cancel" \notin fired /\ "skip" \notin fired /\ "block" \in fired
    BY <1>3, <1>7, <2>3 DEF Outcomes
  <2>4. CASE "cancel" \notin fired /\ "skip" \notin fired /\ "block" \notin fired
    <3>1. \A q \in fired : q = "continue"
      BY <1>3, <2>4 DEF Outcomes
    <3> QED
      BY <1>7, <3>1
  <2> QED
    BY <2>1, <2>2, <2>3, <2>4
<1>9. /\ o \in Outcomes
      /\ \A q \in fired : Priority[q] <= Priority[o]
      /\ fired # {} => o \in fired
      /\ fired = {} => o = "continue"
  BY <1>3, <1>4, <1>8 DEF Outcomes
<1>10. o = "continue" => \A q \in fired : q = "continue"
  BY <1>3, <1>7, <1>9 DEF Outcomes
<1> QED
  BY <1>1, <1>5, <1>6, <1>9, <1>10 DEF F

(* What a Step is seen as depends on its own dependencies alone.           *)
LEMMA OutcomeThroughDeps ==
  ASSUME NEW g, NEW seen, NEW other, NEW s, \A d \in g.deps[s] : seen[d] = other[d]
  PROVE  TerminalDependencyOutcome(g, seen, s) = TerminalDependencyOutcome(g, other, s)
<1>1. {d \in g.deps[s] : seen[d] \in Fallen} = {d \in g.deps[s] : other[d] \in Fallen}
  OBVIOUS
<1>2. {g.policy[s][seen[d]] : d \in {d \in g.deps[s] : seen[d] \in Fallen}}
      = {g.policy[s][other[d]] : d \in {d \in g.deps[s] : other[d] \in Fallen}}
  BY <1>1
<1> DEFINE Strongest(F) == IF F = {} THEN "continue"
                           ELSE CHOOSE o \in F : \A q \in F : Priority[q] <= Priority[o]
<1>3. /\ TerminalDependencyOutcome(g, seen, s)
           = Strongest({g.policy[s][seen[d]] : d \in {d \in g.deps[s] : seen[d] \in Fallen}})
      /\ TerminalDependencyOutcome(g, other, s)
           = Strongest({g.policy[s][other[d]] : d \in {d \in g.deps[s] : other[d] \in Fallen}})
  BY Zenon DEF TerminalDependencyOutcome
<1> HIDE DEF Strongest
<1> QED
  BY <1>2, <1>3

LEMMA SeenThroughDeps ==
  ASSUME NEW g, NEW st, NEW seen, NEW other, NEW s, \A d \in g.deps[s] : seen[d] = other[d]
  PROVE  SeenAs(g, st, seen, s) = SeenAs(g, st, other, s)
<1>1. TerminalDependencyOutcome(g, seen, s) = TerminalDependencyOutcome(g, other, s)
  BY OutcomeThroughDeps
<1> QED
  BY <1>1 DEF SeenAs

(* The evaluation of a whole graph, Step after Step in its order, is well   *)
(* defined: every Step is seen as its dependencies, as they are seen, have  *)
(* it.                                                                     *)
LEMMA EveryStepIsSeen ==
  ASSUME NEW g \in Graphs, ValidGraph(g), NEW st
  PROVE  EffectiveStatus(g, st) = [s \in g.steps |-> SeenAs(g, st, EffectiveStatus(g, st), s)]
<1> DEFINE Seen(f, i) == f[g.order[i]] = SeenAs(g, st, f, g.order[i])
           N == Cardinality(g.steps)
           S == {n \in 0..N : \E f : f = [s \in g.steps |-> f[s]] /\ \A i \in 1..n : Seen(f, i)}
<1>1. PICK q : q = g.order /\ Ordered(g.steps, g.deps, q)
  BY GraphsAssumption, OrderIsOrdered
<1>2. N \in Nat /\ Len(q) = N
  BY <1>1, GoodGraph, FS_CardinalityType DEF ValidGraph
<1>3. \A s \in g.steps : \E i \in 1..N : q[i] = s
  BY <1>1, <1>2, GoodGraph, OrderedAndFull
<1>4. 0 \in S
  <2>1. PICK f : f = [s \in g.steps |-> s]
    OBVIOUS
  <2>2. f = [s \in g.steps |-> f[s]] /\ 0 \in 0..N /\ 1..0 = {}
    BY <1>2, <2>1
  <2> QED
    BY <2>2
<1>5. ASSUME NEW n \in 0..(N - 1), n \in S PROVE n + 1 \in S
  <2>1. PICK f : f = [s \in g.steps |-> f[s]] /\ \A i \in 1..n : Seen(f, i)
    BY <1>5
  <2>2. PICK x : x = q[n + 1] /\ n + 1 \in 1..N /\ x \in g.steps
    BY <1>1, <1>2 DEF Ordered
  <2>3. PICK v : v = SeenAs(g, st, f, x)
    OBVIOUS
  <2>4. PICK h : h = [s \in g.steps |-> IF s = x THEN v ELSE f[s]]
    OBVIOUS
  <2>5. \A i \in 1..n : q[i] \in g.steps /\ q[i] # x
    BY <1>1, <1>2, <2>2 DEF Ordered
  <2>6. ASSUME NEW i \in 1..(n + 1) PROVE \A d \in g.deps[q[i]] : h[d] = f[d]
    <3>1. g.deps[q[i]] \subseteq {q[j] : j \in 1..(i - 1)}
      BY <1>1, <1>2, <2>6 DEF Ordered
    <3>2. \A j \in 1..(i - 1) : j \in 1..n
      BY <2>6
    <3> QED
      BY <2>4, <2>5, <3>1, <3>2
  <2>7. ASSUME NEW i \in 1..(n + 1) PROVE Seen(h, i)
    <3>1. SeenAs(g, st, h, q[i]) = SeenAs(g, st, f, q[i])
      BY <2>6, SeenThroughDeps
    <3>2. CASE i \in 1..n
      <4>1. h[q[i]] = f[q[i]]
        BY <2>4, <2>5, <3>2
      <4>2. Seen(f, i)
        BY <2>1, <3>2
      <4> QED
        BY <1>1, <3>1, <4>1, <4>2
    <3>3. CASE i = n + 1
      BY <1>1, <2>2, <2>3, <2>4, <3>1, <3>3
    <3> QED
      BY <3>2, <3>3
  <2>8. h = [s \in g.steps |-> h[s]] /\ n + 1 \in 0..N
    BY <1>2, <2>4
  <2> QED
    BY <2>7, <2>8
<1> HIDE DEF S
<1>6. N \in S
  BY <1>2, <1>4, <1>5, UpTo
<1>7. PICK f : f = [s \in g.steps |-> f[s]] /\ \A i \in 1..N : Seen(f, i)
  BY <1>6 DEF S
<1>8. \A s \in g.steps : f[s] = SeenAs(g, st, f, s)
  BY <1>1, <1>3, <1>7
<1>9. f = [s \in g.steps |-> SeenAs(g, st, f, s)]
  BY <1>7, <1>8
<1> QED
  BY <1>9 DEF EffectiveStatus

(***************************************************************************)
(* One pass of advance.  Given are a graph, the statuses and the joins.    *)
(***************************************************************************)
Statuses(g) == [g.steps -> StepStates]

LEMMA BlockedSeenFailed ==
  ASSUME NEW g, NEW st \in Statuses(g), NEW s \in g.steps
  PROVE  /\ BlockedAsFailed(g, st)[s] = IF st[s] = "blocked" THEN "failed" ELSE st[s]
         /\ BlockedAsFailed(g, st)[s] \in StepStates \ {"blocked"}
         /\ BlockedAsFailed(g, st)[s] \in Fallible <=> st[s] \in Fallible
         /\ BlockedAsFailed(g, st)[s] \in Settled <=> st[s] \in Over
BY DEF BlockedAsFailed, Statuses, StepStates, Settled, Fallible, Over

(* How the scheduler sees the Steps, and what they fall for.               *)
View(g, st) == EffectiveStatus(g, BlockedAsFailed(g, st))
Fallers(g, st) == {s \in g.steps : st[s] \in Fallible /\ View(g, st)[s] # st[s]}

LEMMA ViewIs ==
  ASSUME NEW g \in Graphs, ValidGraph(g), NEW st \in Statuses(g), NEW s \in g.steps
  PROVE  LET o == TerminalDependencyOutcome(g, View(g, st), s)
         IN  View(g, st)[s] = IF st[s] \in Fallible /\ o # "continue" THEN Becomes[o]
                              ELSE BlockedAsFailed(g, st)[s]
<1>1. View(g, st)[s] = SeenAs(g, BlockedAsFailed(g, st), View(g, st), s)
  BY EveryStepIsSeen DEF View
<1>2. BlockedAsFailed(g, st)[s] \in Fallible <=> st[s] \in Fallible
  BY BlockedSeenFailed
<1> QED
  BY <1>1, <1>2 DEF SeenAs, Fallible

LEMMA FallIs ==
  ASSUME NEW g \in Graphs, ValidGraph(g), NEW st \in Statuses(g), NEW s \in g.steps
  PROVE  LET o == TerminalDependencyOutcome(g, View(g, st), s)
         IN  /\ s \in Fallers(g, st) <=> st[s] \in Fallible /\ o # "continue"
             /\ s \in Fallers(g, st)
                  => View(g, st)[s] = Becomes[o] /\ Becomes[o] \in {"blocked", "skipped", "cancelled"}
             /\ s \notin Fallers(g, st) => View(g, st)[s] = BlockedAsFailed(g, st)[s]
<1>1. PICK o : o = TerminalDependencyOutcome(g, View(g, st), s)
  OBVIOUS
<1>2. o \in Outcomes
  BY <1>1, OutcomeIsStrongest
<1>3. o # "continue" => Becomes[o] \in {"blocked", "skipped", "cancelled"}
  BY <1>2 DEF Outcomes, Becomes
<1>4. View(g, st)[s] = IF st[s] \in Fallible /\ o # "continue" THEN Becomes[o]
                       ELSE BlockedAsFailed(g, st)[s]
  BY <1>1, ViewIs
<1>5. st[s] \in Fallible => BlockedAsFailed(g, st)[s] = st[s] /\ st[s] \notin {"blocked", "skipped", "cancelled"}
  BY BlockedSeenFailed DEF Fallible
<1> QED
  BY <1>1, <1>3, <1>4, <1>5 DEF Fallers

Entering(g, st) == Admitted(g, BlockedAsFailed(g, st), View(g, st))

(* A Step is made ready only when all its dependencies are seen settled.   *)
LEMMA EntrantIs ==
  ASSUME NEW g \in Graphs, ValidGraph(g), NEW st \in Statuses(g), NEW s \in Entering(g, st)
  PROVE  /\ s \in g.steps /\ st[s] = "pending" /\ s \notin Fallers(g, st)
         /\ \A d \in g.deps[s] : View(g, st)[d] \in Settled
<1>1. s \in Eligible(g, BlockedAsFailed(g, st), View(g, st), {"pending"})
  BY DEF Entering, Admitted, Earliest
<1>2. /\ s \in g.steps /\ BlockedAsFailed(g, st)[s] = "pending"
      /\ View(g, st)[s] = BlockedAsFailed(g, st)[s]
      /\ \A d \in g.deps[s] : View(g, st)[d] \in Settled
  BY <1>1 DEF Eligible, InStatus
<1>3. st[s] = "pending"
  BY <1>2, BlockedSeenFailed
<1> QED
  BY <1>2, <1>3 DEF Fallers

LEMMA MovesAre ==
  ASSUME NEW g \in Graphs, ValidGraph(g), NEW st \in Statuses(g)
  PROVE  Proposed(g, st) = {<<s, View(g, st)[s]>> : s \in Fallers(g, st)}
                           \cup (Entering(g, st) \X {"ready"})
<1>1. {s \in InStatus(g, BlockedAsFailed(g, st), Fallible) :
         View(g, st)[s] # BlockedAsFailed(g, st)[s]} = Fallers(g, st)
  BY BlockedSeenFailed DEF InStatus, Fallers, Fallible
<1> QED
  BY <1>1 DEF Proposed, Transitions, View, Entering, Fallible

LEMMA MovedIs ==
  ASSUME NEW g \in Graphs, ValidGraph(g), NEW st \in Statuses(g), NEW s \in g.steps
  PROVE  Moved(g, st)[s] = IF s \in Fallers(g, st) THEN View(g, st)[s]
                             ELSE IF s \in Entering(g, st) THEN "ready" ELSE st[s]
<1>1. PICK moves : moves = Proposed(g, st)
  OBVIOUS
<1>2. Moved(g, st)[s] = IF \E m \in moves : m[1] = s
                        THEN (CHOOSE m \in moves : m[1] = s)[2] ELSE st[s]
  BY <1>1 DEF Moved
<1>3. moves = {<<t, View(g, st)[t]>> : t \in Fallers(g, st)} \cup (Entering(g, st) \X {"ready"})
  BY <1>1, MovesAre
<1>4. \A m \in moves : \/ m[1] \in Fallers(g, st) /\ m = <<m[1], View(g, st)[m[1]]>>
                       \/ m[1] \in Entering(g, st) /\ m = <<m[1], "ready">>
  BY <1>3
<1>5. s \in Entering(g, st) => s \notin Fallers(g, st)
  BY EntrantIs
<1>6. CASE s \in Fallers(g, st)
  <2>1. <<s, View(g, st)[s]>> \in moves
    BY <1>3, <1>6
  <2>2. \E m \in moves : m[1] = s
    BY <2>1
  <2>3. \A m \in moves : m[1] = s => m[2] = View(g, st)[s]
    BY <1>4, <1>5, <1>6
  <2>4. Moved(g, st)[s] = View(g, st)[s]
    BY <1>2, <2>2, <2>3
  <2> QED
    BY <1>6, <2>4
<1>7. CASE s \in Entering(g, st)
  <2>1. <<s, "ready">> \in moves
    BY <1>3, <1>7
  <2>2. \E m \in moves : m[1] = s
    BY <2>1
  <2>3. \A m \in moves : m[1] = s => m[2] = "ready"
    BY <1>4, <1>5, <1>7
  <2>4. Moved(g, st)[s] = "ready"
    BY <1>2, <2>2, <2>3
  <2> QED
    BY <1>5, <1>7, <2>4
<1>8. CASE s \notin Fallers(g, st) /\ s \notin Entering(g, st)
  BY <1>2, <1>4, <1>8
<1> QED
  BY <1>6, <1>7, <1>8

(* Nothing that is over changes in a pass, and a Step that is seen settled *)
(* is over afterwards, as it was seen.                                     *)
Opened(g, st, joins) == OpenJoins(g, Moved(g, st), joins)

LEMMA PassIs ==
  ASSUME NEW g \in Graphs, ValidGraph(g), NEW st \in Statuses(g), NEW joins \in SUBSET g.steps,
         NEW s \in g.steps
  PROVE  AdvancePass(g, st, joins)[s] = IF s \in Opened(g, st, joins) THEN "succeeded"
                                        ELSE Moved(g, st)[s]
BY DEF AdvancePass, Opened

LEMMA OverStays ==
  ASSUME NEW g \in Graphs, ValidGraph(g), NEW st \in Statuses(g), NEW joins \in SUBSET g.steps,
         NEW d \in g.steps
  PROVE  /\ st[d] \in Over => Moved(g, st)[d] = st[d] /\ AdvancePass(g, st, joins)[d] = st[d]
         /\ d \in Fallers(g, st) => /\ Moved(g, st)[d] = View(g, st)[d]
                                    /\ AdvancePass(g, st, joins)[d] = View(g, st)[d]
         /\ View(g, st)[d] \in Settled =>
              /\ Moved(g, st)[d] \in Over
              /\ AdvancePass(g, st, joins)[d] = Moved(g, st)[d]
              /\ BlockedAsFailed(g, AdvancePass(g, st, joins))[d] = View(g, st)[d]
              /\ st[d] # "blocked" => AdvancePass(g, st, joins)[d] # "blocked"
<1>1. PICK p : p = AdvancePass(g, st, joins)
  OBVIOUS
<1>2. p[d] = IF d \in Opened(g, st, joins) THEN "succeeded" ELSE Moved(g, st)[d]
  BY <1>1, PassIs
<1>3. d \in Opened(g, st, joins) => Moved(g, st)[d] \in {"ready", "running"}
  BY DEF Opened, OpenJoins
<1>4. d \in Entering(g, st) => d \notin Fallers(g, st) /\ st[d] = "pending"
  BY EntrantIs
<1>5. d \in Fallers(g, st) => View(g, st)[d] \in {"blocked", "skipped", "cancelled"} /\ st[d] \in Fallible
  BY FallIs
<1>6. d \notin Fallers(g, st) => View(g, st)[d] = BlockedAsFailed(g, st)[d]
  BY FallIs
<1>7. Moved(g, st)[d] = IF d \in Fallers(g, st) THEN View(g, st)[d]
                          ELSE IF d \in Entering(g, st) THEN "ready" ELSE st[d]
  BY MovedIs
<1>8. BlockedAsFailed(g, st)[d] = IF st[d] = "blocked" THEN "failed" ELSE st[d]
  BY BlockedSeenFailed
<1>9. BlockedAsFailed(g, p)[d] = IF p[d] = "blocked" THEN "failed" ELSE p[d]
  BY DEF BlockedAsFailed
<1>10. st[d] \in Over => Moved(g, st)[d] = st[d] /\ p[d] = st[d]
  <2>1. SUFFICES ASSUME st[d] \in Over PROVE Moved(g, st)[d] = st[d] /\ p[d] = st[d]
    OBVIOUS
  <2>2. d \notin Fallers(g, st) /\ d \notin Entering(g, st) /\ st[d] \notin {"ready", "running"}
    BY <1>4, <1>5, <2>1 DEF Over, Settled, Fallible
  <2>3. Moved(g, st)[d] = st[d]
    BY <1>7, <2>2
  <2> QED
    BY <1>2, <1>3, <2>2, <2>3
<1>11. d \in Fallers(g, st) => Moved(g, st)[d] = View(g, st)[d] /\ p[d] = View(g, st)[d]
  <2>1. SUFFICES ASSUME d \in Fallers(g, st)
                 PROVE  Moved(g, st)[d] = View(g, st)[d] /\ p[d] = View(g, st)[d]
    OBVIOUS
  <2>2. Moved(g, st)[d] = View(g, st)[d]
    BY <1>7, <2>1
  <2> QED
    BY <1>2, <1>3, <1>5, <2>1, <2>2
<1>12. ASSUME View(g, st)[d] \in Settled
       PROVE  /\ Moved(g, st)[d] \in Over /\ p[d] = Moved(g, st)[d]
              /\ BlockedAsFailed(g, p)[d] = View(g, st)[d]
              /\ st[d] # "blocked" => p[d] # "blocked"
  <2>1. CASE d \in Fallers(g, st)
    BY <1>5, <1>9, <1>11, <1>12, <2>1 DEF Over, Settled
  <2>2. CASE d \notin Fallers(g, st)
    <3>1. st[d] \in Over
      BY <1>6, <1>12, <2>2, BlockedSeenFailed
    <3> QED
      BY <1>6, <1>8, <1>9, <1>10, <2>2, <3>1
  <2> QED
    BY <2>1, <2>2
<1> QED
  BY <1>1, <1>10, <1>11, <1>12

(* A pass keeps the statuses statuses; it makes no Step run.               *)
LEMMA PassIsTyped ==
  ASSUME NEW g \in Graphs, ValidGraph(g), NEW st \in Statuses(g), NEW joins \in SUBSET g.steps
  PROVE  /\ AdvancePass(g, st, joins) \in Statuses(g)
         /\ \A s \in g.steps :
              \/ AdvancePass(g, st, joins)[s] = st[s]
              \/ AdvancePass(g, st, joins)[s] \in {"blocked", "skipped", "cancelled", "ready"}
                 /\ st[s] \in Fallible
              \/ AdvancePass(g, st, joins)[s] = "succeeded" /\ s \in joins
                 /\ st[s] \in Fallible \cup {"running"}
<1>1. PICK p : p = AdvancePass(g, st, joins)
  OBVIOUS
<1>2. ASSUME NEW s \in g.steps
      PROVE  \/ p[s] = st[s]
             \/ p[s] \in {"blocked", "skipped", "cancelled", "ready"} /\ st[s] \in Fallible
             \/ p[s] = "succeeded" /\ s \in joins /\ st[s] \in Fallible \cup {"running"}
  <2>1. p[s] = IF s \in Opened(g, st, joins) THEN "succeeded" ELSE Moved(g, st)[s]
    BY <1>1, PassIs
  <2>2. s \in Opened(g, st, joins) => s \in joins /\ Moved(g, st)[s] \in {"ready", "running"}
    BY DEF Opened, OpenJoins
  <2>3. Moved(g, st)[s] = IF s \in Fallers(g, st) THEN View(g, st)[s]
                            ELSE IF s \in Entering(g, st) THEN "ready" ELSE st[s]
    BY MovedIs
  <2>4. s \in Entering(g, st) => s \notin Fallers(g, st) /\ st[s] = "pending"
    BY EntrantIs
  <2>5. s \in Fallers(g, st) => View(g, st)[s] \in {"blocked", "skipped", "cancelled"} /\ st[s] \in Fallible
    BY FallIs
  <2>6. \/ Moved(g, st)[s] = st[s]
        \/ Moved(g, st)[s] \in {"blocked", "skipped", "cancelled", "ready"} /\ st[s] \in Fallible
    BY <2>3, <2>4, <2>5 DEF Fallible
  <2> QED
    BY <2>1, <2>2, <2>6 DEF Fallible
<1>3. p = [s \in g.steps |-> p[s]]
  BY <1>1 DEF AdvancePass
<1>4. \A s \in g.steps : st[s] \in StepStates
  BY DEF Statuses
<1>5. {"blocked", "skipped", "cancelled", "ready", "succeeded"} \subseteq StepStates
  BY DEF StepStates, Settled
<1>6. \A s \in g.steps : p[s] \in StepStates
  BY <1>2, <1>4, <1>5
<1>7. p \in Statuses(g)
  BY <1>3, <1>6 DEF Statuses
<1> QED
  BY <1>1, <1>2, <1>7

(***************************************************************************)
(* What a pass does to a Step agrees with what its dependencies mean.      *)
(***************************************************************************)
LEMMA MeansAsSeen ==
  ASSUME graph \in Graphs, ValidGraph(graph), NEW st \in Statuses(graph),
         NEW joins \in SUBSET graph.steps, NEW p, p = AdvancePass(graph, st, joins),
         NEW s \in graph.steps, NEW d \in graph.deps[s], View(graph, st)[d] \in Settled
  PROVE  /\ p[d] \in Over
         /\ p[d] = "blocked" => st[d] = "blocked"
         /\ Means(s, d, p) = IF View(graph, st)[d] = "succeeded" THEN "continue"
                             ELSE graph.policy[s][View(graph, st)[d]]
<1>1. d \in graph.steps
  BY GoodGraph
<1>2. /\ p[d] \in Over
      /\ BlockedAsFailed(graph, p)[d] = View(graph, st)[d]
      /\ st[d] # "blocked" => p[d] # "blocked"
  BY <1>1, OverStays
<1>3. BlockedAsFailed(graph, p)[d] = IF p[d] = "blocked" THEN "failed" ELSE p[d]
  BY <1>1 DEF BlockedAsFailed
<1>4. PICK x : x = p[d]
  OBVIOUS
<1>5. x \in {"succeeded", "failed", "blocked", "cancelled", "skipped"}
  BY <1>2, <1>4 DEF Over, Settled
<1>6. View(graph, st)[d] = IF x = "blocked" THEN "failed" ELSE x
  BY <1>2, <1>3, <1>4
<1>7. Means(s, d, p) = CASE x = "succeeded" -> "continue"
                         [] x \in {"failed", "blocked"} -> graph.policy[s]["failed"]
                         [] OTHER -> graph.policy[s][x]
  BY <1>4 DEF Means
<1>8. Means(s, d, p) = IF x = "succeeded" THEN "continue"
                       ELSE IF x \in {"failed", "blocked"} THEN graph.policy[s]["failed"]
                       ELSE graph.policy[s][x]
  <2>1. CASE x = "succeeded"
    BY <1>7, <2>1
  <2>2. CASE x \in {"failed", "blocked"}
    BY <1>7, <2>2
  <2>3. CASE x \notin {"succeeded", "failed", "blocked"}
    BY <1>7, <2>3
  <2> QED
    BY <2>1, <2>2, <2>3
<1>9. Means(s, d, p) = IF View(graph, st)[d] = "succeeded" THEN "continue"
                       ELSE graph.policy[s][View(graph, st)[d]]
  BY <1>5, <1>6, <1>8
<1> QED
  BY <1>2, <1>9

LEMMA CountedIsSeen ==
  ASSUME NEW g \in Graphs, ValidGraph(g), NEW st \in Statuses(g), NEW joins \in SUBSET g.steps,
         NEW d \in g.steps, AdvancePass(g, st, joins)[d] \in Over \ {"succeeded"},
         AdvancePass(g, st, joins)[d] = "blocked" => st[d] = "blocked"
  PROVE  View(g, st)[d] \in Settled
<1>1. PICK p : p = AdvancePass(g, st, joins)
  OBVIOUS
<1>2. CASE st[d] \in Over
  <2>1. d \notin Fallers(g, st)
    BY <1>2 DEF Fallers, Fallible, Over, Settled
  <2> QED
    BY <1>2, <2>1, FallIs, BlockedSeenFailed
<1>3. CASE st[d] \notin Over
  <2>1. p[d] = IF d \in Opened(g, st, joins) THEN "succeeded" ELSE Moved(g, st)[d]
    BY <1>1, PassIs
  <2>2. p[d] = Moved(g, st)[d] /\ p[d] \notin {"ready", "succeeded"} /\ p[d] # st[d]
    BY <1>1, <1>3, <2>1 DEF Over, Settled
  <2>3. d \in Fallers(g, st)
    BY <2>2, MovedIs
  <2>4. p[d] = View(g, st)[d]
    BY <2>2, <2>3, MovedIs
  <2> QED
    BY <1>1, <1>3, <2>4 DEF Over
<1> QED
  BY <1>2, <1>3

LEMMA PassDecides ==
  ASSUME graph \in Graphs, ValidGraph(graph), NEW st \in Statuses(graph),
         NEW joins \in SUBSET graph.steps, NEW p, p = AdvancePass(graph, st, joins),
         NEW s \in graph.steps, st[s] = "pending", p[s] # "pending"
  PROVE  LET over    == {d \in graph.deps[s] : p[d] \in Over}
             counted == {d \in over : p[d] = "blocked" => st[d] = "blocked"}
             means   == {Means(s, d, p) : d \in counted}
         IN  IF p[s] \in {"ready", "succeeded"}
             THEN over = graph.deps[s] /\ \A d \in over : Means(s, d, p) = "continue"
             ELSE \E o \in means : /\ o # "continue" /\ Becomes[o] = p[s]
                                   /\ \A q \in means : Priority[q] <= Priority[o]
<1> DEFINE over    == {d \in graph.deps[s] : p[d] \in Over}
           counted == {d \in over : p[d] = "blocked" => st[d] = "blocked"}
           means   == {Means(s, d, p) : d \in counted}
<1>1. PICK seen : seen = View(graph, st)
  OBVIOUS
<1>2. PICK o : o = TerminalDependencyOutcome(graph, seen, s)
  OBVIOUS
<1>3. p[s] = IF s \in Opened(graph, st, joins) THEN "succeeded" ELSE Moved(graph, st)[s]
  BY PassIs
<1>4. s \in Opened(graph, st, joins) => Moved(graph, st)[s] \in {"ready", "running"}
  BY DEF Opened, OpenJoins
<1>5. Moved(graph, st)[s] = IF s \in Fallers(graph, st) THEN seen[s]
                            ELSE IF s \in Entering(graph, st) THEN "ready" ELSE st[s]
  BY <1>1, MovedIs
<1>6. graph.deps[s] \subseteq graph.steps /\ graph.policy[s] \in [Fallen -> Outcomes]
  BY GoodGraph
<1>7. /\ o \in Outcomes
      /\ \A d \in graph.deps[s] : seen[d] \in Fallen => Priority[graph.policy[s][seen[d]]] <= Priority[o]
      /\ o # "continue" => \E d \in graph.deps[s] : seen[d] \in Fallen /\ graph.policy[s][seen[d]] = o
      /\ o = "continue" => \A d \in graph.deps[s] : seen[d] \in Fallen => graph.policy[s][seen[d]] = "continue"
  BY <1>2, OutcomeIsStrongest
<1>8. /\ s \in Fallers(graph, st) <=> o # "continue"
      /\ s \in Fallers(graph, st) => seen[s] = Becomes[o] /\ Becomes[o] \in {"blocked", "skipped", "cancelled"}
  <2>1. st[s] \in Fallible
    BY DEF Fallible
  <2> QED
    BY <1>1, <1>2, <2>1, FallIs
<1>9. \A d \in graph.deps[s] : seen[d] \in Settled =>
        /\ p[d] \in Over
        /\ p[d] = "blocked" => st[d] = "blocked"
        /\ Means(s, d, p) = IF seen[d] = "succeeded" THEN "continue" ELSE graph.policy[s][seen[d]]
  BY <1>1, MeansAsSeen
<1>10. Settled = Fallen \cup {"succeeded"} /\ "succeeded" \notin Fallen
  BY DEF Settled, Fallen
<1>11. CASE s \in Fallers(graph, st)
  <2>1. p[s] = Becomes[o] /\ p[s] \notin {"ready", "succeeded"} /\ o # "continue"
    BY <1>3, <1>4, <1>5, <1>8, <1>11
  <2>2. PICK d \in graph.deps[s] : seen[d] \in Fallen /\ graph.policy[s][seen[d]] = o
    BY <1>7, <2>1
  <2>3. d \in counted /\ Means(s, d, p) = o
    BY <1>9, <1>10, <2>2
  <2>4. ASSUME NEW c \in counted PROVE Priority[Means(s, c, p)] <= Priority[o]
    <3>1. CASE p[c] = "succeeded"
      <4>1. Means(s, c, p) = "continue"
        BY <3>1 DEF Means
      <4>2. Priority["continue"] = 0 /\ Priority[o] \in {0, 1, 2, 3}
        BY <1>7 DEF Priority, Outcomes
      <4> QED
        BY <4>1, <4>2
    <3>2. CASE p[c] # "succeeded"
      <4>1. c \in graph.steps /\ c \in graph.deps[s]
        BY <1>6
      <4>2. p[c] \in Over \ {"succeeded"} /\ (p[c] = "blocked" => st[c] = "blocked")
        BY <3>2
      <4>3. seen[c] \in Settled
        BY <1>1, <4>1, <4>2, CountedIsSeen
      <4>4. seen[c] # "succeeded"
        <5>1. BlockedAsFailed(graph, p)[c] = seen[c]
          BY <1>1, <4>1, <4>3, OverStays
        <5> QED
          BY <3>2, <4>1, <5>1 DEF BlockedAsFailed
      <4>5. Means(s, c, p) = graph.policy[s][seen[c]] /\ seen[c] \in Fallen
        BY <1>9, <1>10, <4>1, <4>3, <4>4
      <4> QED
        BY <1>7, <4>1, <4>5
    <3> QED
      BY <3>1, <3>2
  <2>5. o \in means /\ \A q \in means : Priority[q] <= Priority[o]
    BY <2>3, <2>4
  <2> QED
    BY <2>1, <2>5
<1>12. CASE s \notin Fallers(graph, st)
  <2>1. s \in Entering(graph, st)
    BY <1>3, <1>4, <1>5, <1>12
  <2>2. p[s] \in {"ready", "succeeded"}
    BY <1>3, <1>5, <1>12, <2>1
  <2>3. \A d \in graph.deps[s] : seen[d] \in Settled
    BY <1>1, <2>1, EntrantIs
  <2>4. o = "continue"
    BY <1>8, <1>12
  <2>5. \A d \in graph.deps[s] : p[d] \in Over /\ Means(s, d, p) = "continue"
    BY <1>7, <1>9, <1>10, <2>3, <2>4
  <2>6. over = graph.deps[s] /\ \A d \in over : Means(s, d, p) = "continue"
    BY <2>5
  <2> QED
    BY <2>2, <2>6
<1> QED
  BY <1>11, <1>12

(***************************************************************************)
(* How many passes.  A Step is decided when no further pass can change it: *)
(* it is neither pending nor ready, or it is a ready one, not a barrier,   *)
(* whose dependencies are all over and let it continue.                    *)
(***************************************************************************)
Decided(g, st, joins) ==
  {s \in g.steps :
     \/ st[s] \notin Fallible
     \/ /\ st[s] = "ready" /\ s \notin joins
        /\ \A d \in g.deps[s] : st[d] \in Over
        /\ TerminalDependencyOutcome(g, BlockedAsFailed(g, st), s) = "continue"}

NoJoinRuns(st, joins) == \A s \in joins : st[s] # "running"

LEMMA DecidedStays ==
  ASSUME NEW g \in Graphs, ValidGraph(g), NEW st \in Statuses(g), NEW joins \in SUBSET g.steps,
         NoJoinRuns(st, joins), NEW s \in Decided(g, st, joins)
  PROVE  /\ AdvancePass(g, st, joins)[s] = st[s]
         /\ s \in Decided(g, AdvancePass(g, st, joins), joins)
<1>1. PICK p : p = AdvancePass(g, st, joins)
  OBVIOUS
<1>2. s \in g.steps /\ g.deps[s] \subseteq g.steps
  BY GoodGraph DEF Decided
<1>3. p[s] = IF s \in Opened(g, st, joins) THEN "succeeded" ELSE Moved(g, st)[s]
  BY <1>1, <1>2, PassIs
<1>4. s \in Opened(g, st, joins) => s \in joins /\ Moved(g, st)[s] \in {"ready", "running"}
  BY DEF Opened, OpenJoins
<1>5. s \notin Fallers(g, st) /\ s \notin Entering(g, st) => Moved(g, st)[s] = st[s]
  BY <1>2, MovedIs
<1>6. s \in Entering(g, st) => st[s] = "pending"
  BY EntrantIs
<1>7. CASE st[s] \notin Fallible
  <2>1. s \notin Fallers(g, st) /\ s \notin Entering(g, st) /\ st[s] # "ready"
    BY <1>6, <1>7 DEF Fallers, Fallible
  <2>2. Moved(g, st)[s] = st[s]
    BY <1>5, <2>1
  <2>3. p[s] = st[s]
    BY <1>3, <1>4, <2>1, <2>2 DEF NoJoinRuns
  <2>4. s \in Decided(g, p, joins)
    BY <1>2, <1>7, <2>3 DEF Decided
  <2> QED
    BY <1>1, <2>3, <2>4
<1>8. CASE st[s] \in Fallible
  <2>1. /\ st[s] = "ready" /\ s \notin joins
        /\ \A d \in g.deps[s] : st[d] \in Over
        /\ TerminalDependencyOutcome(g, BlockedAsFailed(g, st), s) = "continue"
    BY <1>8 DEF Decided
  <2>2. ASSUME NEW d \in g.deps[s]
        PROVE  View(g, st)[d] = BlockedAsFailed(g, st)[d] /\ p[d] = st[d]
    <3>1. d \in g.steps /\ st[d] \in Over
      BY <1>2, <2>1
    <3>2. d \notin Fallers(g, st)
      BY <3>1 DEF Fallers, Fallible, Over, Settled
    <3> QED
      BY <1>1, <3>1, <3>2, FallIs, OverStays
  <2>3. TerminalDependencyOutcome(g, View(g, st), s) = "continue"
    BY <2>1, <2>2, OutcomeThroughDeps
  <2>4. s \notin Fallers(g, st)
    BY <1>2, <2>3, FallIs
  <2>5. Moved(g, st)[s] = st[s]
    BY <1>5, <1>6, <2>1, <2>4
  <2>6. p[s] = st[s]
    BY <1>3, <1>4, <2>1, <2>5
  <2>7. \A d \in g.deps[s] : BlockedAsFailed(g, p)[d] = BlockedAsFailed(g, st)[d]
    BY <1>2, <2>2 DEF BlockedAsFailed
  <2>8. TerminalDependencyOutcome(g, BlockedAsFailed(g, p), s) = "continue"
    BY <2>1, <2>7, OutcomeThroughDeps
  <2>9. s \in Decided(g, p, joins)
    BY <1>2, <2>1, <2>2, <2>6, <2>8 DEF Decided
  <2> QED
    BY <1>1, <2>6, <2>9
<1> QED
  BY <1>7, <1>8

LEMMA ChangedIsDecided ==
  ASSUME NEW g \in Graphs, ValidGraph(g), NEW st \in Statuses(g), NEW joins \in SUBSET g.steps,
         NEW s \in g.steps, AdvancePass(g, st, joins)[s] # st[s]
  PROVE  s \in Decided(g, AdvancePass(g, st, joins), joins)
<1>1. PICK p : p = AdvancePass(g, st, joins)
  OBVIOUS
<1>2. g.deps[s] \subseteq g.steps
  BY GoodGraph
<1>3. p[s] = IF s \in Opened(g, st, joins) THEN "succeeded" ELSE Moved(g, st)[s]
  BY <1>1, PassIs
<1>4. Moved(g, st)[s] = IF s \in Fallers(g, st) THEN View(g, st)[s]
                        ELSE IF s \in Entering(g, st) THEN "ready" ELSE st[s]
  BY MovedIs
<1>5. CASE s \in Opened(g, st, joins)
  BY <1>1, <1>3, <1>5 DEF Decided, Fallible
<1>6. CASE s \notin Opened(g, st, joins) /\ s \in Fallers(g, st)
  <2>1. p[s] \in {"blocked", "skipped", "cancelled"}
    BY <1>3, <1>4, <1>6, FallIs
  <2> QED
    BY <1>1, <2>1 DEF Decided, Fallible
<1>7. CASE s \notin Opened(g, st, joins) /\ s \notin Fallers(g, st)
  <2>1. s \in Entering(g, st) /\ p[s] = "ready" /\ Moved(g, st)[s] = "ready"
    BY <1>1, <1>3, <1>4, <1>7
  <2>2. st[s] = "pending" /\ \A d \in g.deps[s] : View(g, st)[d] \in Settled
    BY <2>1, EntrantIs
  <2>3. \A d \in g.deps[s] : /\ Moved(g, st)[d] \in Over /\ p[d] \in Over
                             /\ BlockedAsFailed(g, p)[d] = View(g, st)[d]
    BY <1>1, <1>2, <2>2, OverStays
  <2>4. s \notin joins
    BY <1>7, <2>1, <2>3 DEF Opened, OpenJoins, Over
  <2>5. TerminalDependencyOutcome(g, View(g, st), s) = "continue"
    BY <1>7, <2>2, FallIs DEF Fallible
  <2>6. TerminalDependencyOutcome(g, BlockedAsFailed(g, p), s) = "continue"
    BY <2>3, <2>5, OutcomeThroughDeps
  <2>7. s \in Decided(g, p, joins)
    BY <2>1, <2>3, <2>4, <2>6 DEF Decided
  <2> QED
    BY <1>1, <2>7
<1> QED
  BY <1>5, <1>6, <1>7

(* Every pass that changes something decides a Step more.                  *)
LEMMA PassDecidesOneMore ==
  ASSUME NEW g \in Graphs, ValidGraph(g), NEW st \in Statuses(g), NEW joins \in SUBSET g.steps,
         NoJoinRuns(st, joins), AdvancePass(g, st, joins) # st
  PROVE  Cardinality(Decided(g, st, joins)) + 1
           <= Cardinality(Decided(g, AdvancePass(g, st, joins), joins))
<1>1. PICK p : p = AdvancePass(g, st, joins)
  OBVIOUS
<1>2. p \in Statuses(g)
  BY <1>1, PassIsTyped
<1>3. PICK s \in g.steps : p[s] # st[s]
  BY <1>1, <1>2 DEF Statuses
<1>4. PICK A, B : A = Decided(g, st, joins) /\ B = Decided(g, p, joins)
  OBVIOUS
<1>5. s \notin A /\ s \in B /\ A \subseteq B
  BY <1>1, <1>3, <1>4, DecidedStays, ChangedIsDecided
<1>6. IsFiniteSet(g.steps) /\ A \subseteq g.steps /\ B \subseteq g.steps
  BY <1>4, GoodGraph DEF Decided
<1>7. IsFiniteSet(A) /\ IsFiniteSet(B)
  BY <1>6, FS_Subset
<1>8. Cardinality(A \cup {s}) = Cardinality(A) + 1
  BY <1>5, <1>7, FS_AddElement
<1>9. Cardinality(A \cup {s}) <= Cardinality(B)
  <2>1. A \cup {s} \in SUBSET B
    BY <1>5
  <2> QED
    BY <1>7, <2>1, FS_Subset
<1> QED
  BY <1>1, <1>4, <1>8, <1>9

(***************************************************************************)
(* The Task's life.  Barriers never run, so no pass takes a running Step   *)
(* from its Attempt; a quarantined Step stays blocked.                     *)
(***************************************************************************)
Running == Cardinality(InStatus(graph, status, {"running"}))

SchedulerIInv ==
  /\ graph \in Graphs /\ TypeOK
  /\ \A s \in held : status[s] = "blocked" /\ s \notin Joins
  /\ \A s \in Joins : status[s] \notin {"running", "waiting", "review"}
  /\ passes <= Cardinality(Decided(graph, status, Joins))
  /\ Running <= graph.maxParallel

LEMMA RunningIsCounted ==
  ASSUME NEW g \in Graphs, ValidGraph(g), NEW st
  PROVE  /\ IsFiniteSet(InStatus(g, st, {"running"}))
         /\ Cardinality(InStatus(g, st, {"running"})) \in Nat
<1>1. InStatus(g, st, {"running"}) \in SUBSET g.steps
  BY DEF InStatus
<1> QED
  BY <1>1, GoodGraph, FS_Subset, FS_CardinalityType

LEMMA DecidedIsCounted ==
  ASSUME NEW g \in Graphs, ValidGraph(g), NEW st, NEW joins
  PROVE  /\ Cardinality(Decided(g, st, joins)) \in Nat
         /\ Cardinality(g.steps) \in Nat
         /\ Cardinality(Decided(g, st, joins)) <= Cardinality(g.steps)
<1>1. Decided(g, st, joins) \in SUBSET g.steps
  BY DEF Decided
<1> QED
  BY <1>1, GoodGraph, FS_Subset, FS_CardinalityType

(* A Step among the first n is there only when n is not zero.              *)
LEMMA EarliestNeedsRoom ==
  ASSUME NEW g \in Graphs, ValidGraph(g), NEW S \in SUBSET g.steps, NEW n \in Int,
         NEW s \in Earliest(g, S, n)
  PROVE  s \in S /\ n > 0
<1> DEFINE Rank(t) == CHOOSE i \in 1..Len(g.order) : g.order[i] = t
           E == {t \in S : Rank(t) < Rank(s)}
<1>1. s \in S /\ Cardinality(E) < n
  BY DEF Earliest
<1>2. E \in SUBSET g.steps
  OBVIOUS
<1> HIDE DEF E
<1>3. Cardinality(E) \in Nat
  BY <1>2, GoodGraph, FS_Subset, FS_CardinalityType
<1> QED
  BY <1>1, <1>3

(* What the finished advance lets run is a ready Step, no barrier, and     *)
(* leaves the limit on parallel Steps room.                                *)
LEMMA RunnableIs ==
  ASSUME NEW g \in Graphs, ValidGraph(g), NEW st \in Statuses(g), NEW joins \in SUBSET g.steps,
         AdvancePass(g, st, joins) = st, NEW s \in ToRun(g, st)
  PROVE  /\ s \in g.steps \ joins /\ st[s] = "ready"
         /\ Cardinality(InStatus(g, st, {"running"})) < g.maxParallel
<1>1. PICK n : n = g.maxParallel - Cardinality(InStatus(g, st, {"running"}))
  OBVIOUS
<1>2. InStatus(g, BlockedAsFailed(g, st), {"running"}) = InStatus(g, st, {"running"})
  BY BlockedSeenFailed DEF InStatus
<1>3. PICK S : S = Eligible(g, BlockedAsFailed(g, st), View(g, st), {"ready"}) \cup Entering(g, st)
  OBVIOUS
<1>4. s \in Earliest(g, S, n)
  BY <1>1, <1>2, <1>3 DEF ToRun, Runnable, View, Entering
<1>5. n \in Int /\ g.maxParallel \in Nat /\ Cardinality(InStatus(g, st, {"running"})) \in Nat
  BY <1>1, GoodGraph, RunningIsCounted
<1>6. S \in SUBSET g.steps
  BY <1>3, EntrantIs DEF Eligible, InStatus
<1>7. s \in S /\ n > 0
  BY <1>4, <1>5, <1>6, EarliestNeedsRoom
<1>8. s \in g.steps /\ g.deps[s] \subseteq g.steps
  BY <1>6, <1>7, GoodGraph
<1>9. st[s] = IF s \in Opened(g, st, joins) THEN "succeeded" ELSE Moved(g, st)[s]
  BY <1>8, PassIs
<1>10. Moved(g, st)[s] = IF s \in Fallers(g, st) THEN View(g, st)[s]
                         ELSE IF s \in Entering(g, st) THEN "ready" ELSE st[s]
  BY <1>8, MovedIs
<1>11. s \notin Entering(g, st)
  <2>1. SUFFICES ASSUME s \in Entering(g, st) PROVE FALSE
    OBVIOUS
  <2>2. st[s] = "pending" /\ s \notin Fallers(g, st)
    BY <2>1, EntrantIs
  <2> QED
    BY <1>9, <1>10, <2>1, <2>2
<1>12. /\ BlockedAsFailed(g, st)[s] = "ready" /\ View(g, st)[s] = "ready"
       /\ \A d \in g.deps[s] : View(g, st)[d] \in Settled
  BY <1>3, <1>7, <1>11 DEF Eligible, InStatus
<1>13. st[s] = "ready" /\ s \notin Fallers(g, st)
  BY <1>8, <1>12, BlockedSeenFailed DEF Fallers
<1>14. \A d \in g.deps[s] : Moved(g, st)[d] \in Over
  BY <1>8, <1>12, OverStays
<1>15. Moved(g, st)[s] = "ready" /\ s \notin Opened(g, st, joins)
  BY <1>9, <1>10, <1>11, <1>13
<1>16. s \notin joins
  BY <1>14, <1>15 DEF Opened, OpenJoins, Over
<1> QED
  BY <1>1, <1>5, <1>7, <1>8, <1>13, <1>16

(* What every action but Advance does: one Step that is no barrier and not *)
(* pending gets another status.                                            *)
Turns(s) ==
  /\ s \in Steps \ Joins /\ status[s] # "pending"
  /\ \E v \in StepStates \ {"pending"} :
       /\ status' = [status EXCEPT ![s] = v]
       /\ v = "running" => Running < graph.maxParallel
       /\ \/ held' = held \ {s}
          \/ held' = held \cup {s} /\ v = "blocked"
          \/ held' = held /\ s \notin held
  /\ passes' = 0 /\ graph' = graph /\ redo' \in 0..graph.maxRedo

LEMMA StepTurns ==
  ASSUME SchedulerIInv, NEW s \in Steps,
         Claim(s) \/ Settle(s) \/ Reconcile(s) \/ Accept(s) \/ ScheduleRetry(s) \/ Rework(s) \/ FireRetry(s)
  PROVE  Turns(s)
<1> USE DEF StepStates, Settled
<1>1. /\ graph \in Graphs /\ ValidGraph(graph) /\ Joins \in SUBSET graph.steps
      /\ status \in Statuses(graph) /\ redo \in 0..graph.maxRedo /\ graph.maxRedo \in Nat
  BY GoodGraph DEF SchedulerIInv, TypeOK, Statuses, Steps, Joins
<1>2. s \in held => status[s] = "blocked" /\ s \notin Joins
  BY DEF SchedulerIInv
<1>3. s \in Joins => status[s] \notin {"running", "waiting", "review"}
  BY DEF SchedulerIInv
<1>4. CASE Claim(s)
  <2>1. s \in graph.steps \ Joins /\ status[s] = "ready" /\ Running < graph.maxParallel
    BY <1>1, <1>4, RunnableIs DEF Claim, Running
  <2>2. s \notin held
    BY <1>2, <2>1
  <2> QED
    BY <1>1, <1>4, <2>1, <2>2 DEF Claim, Turns, Steps
<1>5. CASE Settle(s)
  <2>1. s \notin Joins /\ s \notin held /\ status[s] = "running"
    BY <1>2, <1>3, <1>5 DEF Settle
  <2> QED
    BY <1>1, <1>5, <2>1 DEF Settle, Turns
<1>6. CASE Reconcile(s)
  BY <1>1, <1>2, <1>6 DEF Reconcile, Turns
<1>7. CASE Accept(s)
  <2>1. s \notin Joins /\ s \notin held /\ status[s] = "review"
    BY <1>2, <1>3, <1>7 DEF Accept
  <2> QED
    BY <1>1, <1>7, <2>1 DEF Accept, Turns
<1>8. CASE ScheduleRetry(s)
  <2>1. s \notin Joins /\ s \notin held /\ status[s] = "running"
    BY <1>2, <1>3, <1>8 DEF ScheduleRetry
  <2>2. redo' \in 0..graph.maxRedo
    BY <1>1, <1>8 DEF ScheduleRetry, Redo
  <2> QED
    BY <1>1, <1>8, <2>1, <2>2 DEF ScheduleRetry, Redo, Turns
<1>9. CASE Rework(s)
  <2>1. s \notin Joins /\ s \notin held /\ status[s] = "review"
    BY <1>2, <1>3, <1>9 DEF Rework
  <2>2. redo' \in 0..graph.maxRedo
    BY <1>1, <1>9 DEF Rework, Redo
  <2> QED
    BY <1>1, <1>9, <2>1, <2>2 DEF Rework, Redo, Turns
<1>10. CASE FireRetry(s)
  <2>1. s \notin Joins /\ s \notin held /\ status[s] = "waiting"
    BY <1>2, <1>3, <1>10 DEF FireRetry
  <2> QED
    BY <1>1, <1>10, <2>1 DEF FireRetry, Turns
<1> QED
  BY <1>4, <1>5, <1>6, <1>7, <1>8, <1>9, <1>10

LEMMA TurnKeeps ==
  ASSUME SchedulerIInv, NEW s, Turns(s)
  PROVE  SchedulerIInv'
<1>1. /\ graph \in Graphs /\ ValidGraph(graph) /\ Joins \in SUBSET graph.steps
      /\ status \in Statuses(graph) /\ held \subseteq graph.steps
  BY DEF SchedulerIInv, TypeOK, Statuses, Steps, Joins, StepStates
<1>2. PICK v \in StepStates \ {"pending"} :
        /\ status' = [status EXCEPT ![s] = v]
        /\ v = "running" => Running < graph.maxParallel
        /\ \/ held' = held \ {s}
           \/ held' = held \cup {s} /\ v = "blocked"
           \/ held' = held /\ s \notin held
  BY DEF Turns
<1>3. /\ s \in graph.steps \ Joins /\ graph' = graph /\ passes' = 0 /\ redo' \in 0..graph.maxRedo
  BY DEF Turns, Steps
<1>4. /\ status' \in Statuses(graph) /\ status'[s] = v
      /\ \A t \in graph.steps \ {s} : status'[t] = status[t]
  BY <1>1, <1>2, <1>3 DEF Statuses
<1>5. TypeOK'
  BY <1>1, <1>2, <1>3, <1>4 DEF TypeOK, Steps, Joins, Statuses, StepStates
<1>6. \A t \in held' : status'[t] = "blocked" /\ t \notin Joins'
  <2>1. \A t \in held : status[t] = "blocked" /\ t \notin Joins
    BY DEF SchedulerIInv
  <2> QED
    BY <1>1, <1>2, <1>3, <1>4, <2>1 DEF Joins
<1>7. \A t \in Joins' : status'[t] \notin {"running", "waiting", "review"}
  <2>1. \A t \in Joins : status[t] \notin {"running", "waiting", "review"}
    BY DEF SchedulerIInv
  <2>2. Joins' = Joins
    BY <1>3 DEF Joins
  <2> QED
    BY <1>1, <1>3, <1>4, <2>1, <2>2
<1>8. (passes <= Cardinality(Decided(graph, status, Joins)))'
  <2>1. Cardinality(Decided(graph, status', Joins)) \in Nat
    BY <1>1, DecidedIsCounted
  <2> QED
    BY <1>3, <2>1 DEF Joins
<1>9. Running' <= graph.maxParallel
  <2>1. PICK R, Q : R = InStatus(graph, status, {"running"}) /\ Q = InStatus(graph, status', {"running"})
    OBVIOUS
  <2>2. IsFiniteSet(R) /\ Cardinality(R) \in Nat /\ IsFiniteSet(Q) /\ Cardinality(Q) \in Nat
    BY <1>1, <2>1, RunningIsCounted
  <2>3. Running = Cardinality(R) /\ Running' = Cardinality(Q) /\ Cardinality(R) <= graph.maxParallel
    BY <1>3, <2>1 DEF Running, SchedulerIInv
  <2>4. graph.maxParallel \in Nat
    BY <1>1, GoodGraph
  <2>5. CASE v = "running"
    <3>1. Q \in SUBSET (R \cup {s})
      BY <1>1, <1>4, <2>1 DEF InStatus
    <3>2. IsFiniteSet(R \cup {s}) /\ Cardinality(R \cup {s}) <= Cardinality(R) + 1
      BY <2>2, FS_AddElement
    <3>3. Cardinality(Q) <= Cardinality(R \cup {s}) /\ Cardinality(R \cup {s}) \in Nat
      BY <3>1, <3>2, FS_Subset, FS_CardinalityType
    <3> QED
      BY <1>2, <2>2, <2>3, <2>4, <2>5, <3>2, <3>3
  <2>6. CASE v # "running"
    <3>1. Q \in SUBSET R
      BY <1>1, <1>4, <2>1, <2>6 DEF InStatus
    <3>2. Cardinality(Q) <= Cardinality(R)
      BY <2>2, <3>1, FS_Subset
    <3> QED
      BY <2>2, <2>3, <2>4, <3>2
  <2> QED
    BY <2>5, <2>6
<1> QED
  BY <1>1, <1>3, <1>5, <1>6, <1>7, <1>8, <1>9 DEF SchedulerIInv

LEMMA AdvanceKeeps ==
  ASSUME SchedulerIInv, Advance
  PROVE  SchedulerIInv'
<1>1. /\ graph \in Graphs /\ ValidGraph(graph) /\ Joins \in SUBSET graph.steps
      /\ status \in Statuses(graph) /\ held \subseteq graph.steps /\ passes \in Nat
  BY DEF SchedulerIInv, TypeOK, Statuses, Steps, Joins, StepStates
<1>2. PICK p : p = AdvancePass(graph, status, Joins)
  OBVIOUS
<1>3. /\ status' = p /\ p # status /\ passes' = passes + 1
      /\ graph' = graph /\ held' = held /\ redo' = redo /\ Joins' = Joins
  BY <1>2 DEF Advance, Joins
<1>4. /\ p \in Statuses(graph)
      /\ \A s \in graph.steps :
           \/ p[s] = status[s]
           \/ p[s] \in {"blocked", "skipped", "cancelled", "ready"} /\ status[s] \in Fallible
           \/ p[s] = "succeeded" /\ s \in Joins /\ status[s] \in Fallible \cup {"running"}
  BY <1>1, <1>2, PassIsTyped
<1>5. TypeOK'
  <2>1. /\ ValidGraph(graph) /\ Joins \subseteq Steps /\ held \subseteq Steps /\ passes \in Nat
        /\ redo \in 0..graph.maxRedo
    BY DEF SchedulerIInv, TypeOK
  <2> QED
    BY <1>3, <1>4, <2>1 DEF TypeOK, Steps, Joins, Statuses, StepStates
<1>6. \A t \in held' : status'[t] = "blocked" /\ t \notin Joins'
  <2>1. \A t \in held : status[t] = "blocked" /\ t \notin Joins
    BY DEF SchedulerIInv
  <2> QED
    BY <1>1, <1>3, <1>4, <2>1 DEF Fallible
<1>7. \A t \in Joins' : status'[t] \notin {"running", "waiting", "review"}
  <2>1. \A t \in Joins : status[t] \notin {"running", "waiting", "review"}
    BY DEF SchedulerIInv
  <2> QED
    BY <1>1, <1>3, <1>4, <2>1
<1>8. (passes <= Cardinality(Decided(graph, status, Joins)))'
  <2>1. NoJoinRuns(status, Joins)
    BY DEF SchedulerIInv, NoJoinRuns
  <2>2. Cardinality(Decided(graph, status, Joins)) + 1 <= Cardinality(Decided(graph, p, Joins))
    BY <1>1, <1>2, <1>3, <2>1, PassDecidesOneMore
  <2>3. /\ Cardinality(Decided(graph, status, Joins)) \in Nat
        /\ Cardinality(Decided(graph, p, Joins)) \in Nat
    BY <1>1, DecidedIsCounted
  <2>4. passes <= Cardinality(Decided(graph, status, Joins))
    BY DEF SchedulerIInv
  <2>5. passes + 1 <= Cardinality(Decided(graph, p, Joins))
    BY <1>1, <2>2, <2>3, <2>4
  <2> QED
    BY <1>3, <2>5
<1>9. Running' <= graph.maxParallel
  <2>1. PICK R, Q : R = InStatus(graph, status, {"running"}) /\ Q = InStatus(graph, p, {"running"})
    OBVIOUS
  <2>2. IsFiniteSet(R) /\ Cardinality(R) \in Nat /\ Cardinality(Q) \in Nat
    BY <1>1, <2>1, RunningIsCounted
  <2>3. Running = Cardinality(R) /\ Running' = Cardinality(Q) /\ Cardinality(R) <= graph.maxParallel
    BY <1>3, <2>1 DEF Running, SchedulerIInv
  <2>4. Q \in SUBSET R
    BY <1>4, <2>1 DEF InStatus
  <2>5. Cardinality(Q) <= Cardinality(R)
    BY <2>2, <2>4, FS_Subset
  <2>6. graph.maxParallel \in Nat
    BY <1>1, GoodGraph
  <2> QED
    BY <2>2, <2>3, <2>5, <2>6
<1> QED
  BY <1>1, <1>3, <1>5, <1>6, <1>7, <1>8, <1>9 DEF SchedulerIInv

LEMMA SchedulerBegins == GraphInit => SchedulerIInv
<1>1. SUFFICES ASSUME GraphInit PROVE SchedulerIInv
  OBVIOUS
<1>2. /\ graph \in Graphs /\ ValidGraph(graph) /\ status = [s \in graph.steps |-> "pending"]
      /\ held = {} /\ passes = 0 /\ redo = 0 /\ Joins \subseteq graph.steps
  BY <1>1, GraphsAssumption DEF GraphInit, Steps, Joins
<1>3. graph.maxRedo \in Nat /\ graph.maxParallel \in Nat
  BY <1>2, GoodGraph
<1>4. TypeOK
  BY <1>2, <1>3 DEF TypeOK, Steps
<1>5. Cardinality(Decided(graph, status, Joins)) \in Nat
  BY <1>2, DecidedIsCounted
<1>6. Running = 0
  <2>1. InStatus(graph, status, {"running"}) = {}
    BY <1>2 DEF InStatus
  <2> QED
    BY <2>1, FS_EmptySet DEF Running
<1>7. \A s \in Joins : status[s] = "pending"
  BY <1>2
<1> QED
  BY <1>2, <1>3, <1>4, <1>5, <1>6, <1>7 DEF SchedulerIInv

LEMMA SchedulerStep == SchedulerIInv /\ [GraphNext]_gVars => SchedulerIInv'
<1>1. SUFFICES ASSUME SchedulerIInv, [GraphNext]_gVars PROVE SchedulerIInv'
  OBVIOUS
<1>2. CASE Advance
  BY <1>1, <1>2, AdvanceKeeps
<1>3. ASSUME NEW s \in Steps,
             \/ Claim(s) \/ Settle(s) \/ Reconcile(s) \/ Accept(s)
             \/ ScheduleRetry(s) \/ Rework(s) \/ FireRetry(s)
      PROVE  SchedulerIInv'
  <2>1. Turns(s)
    BY <1>1, <1>3, StepTurns
  <2> QED
    BY <1>1, <2>1, TurnKeeps
<1>4. CASE UNCHANGED gVars
  BY <1>1, <1>4 DEF SchedulerIInv, TypeOK, Running, Steps, Joins, gVars
<1> QED
  BY <1>1, <1>2, <1>3, <1>4 DEF GraphNext

LEMMA SchedulerInvariant == GraphSpec => []SchedulerIInv
<1> QED
  BY SchedulerBegins, SchedulerStep, PTL DEF GraphSpec

(* advance ends: whatever graph a Task is planned with and whatever its     *)
(* owner does between two calls, at most as many passes as there are Steps  *)
(* change anything, so the code never throws for having made maxSteps + 1   *)
(* of them; and never do more Steps run than the limit on parallel ones.    *)
THEOREM LimitsAreKept == GraphSpec => []AdvanceKeepsItsLimits
<1>1. SchedulerIInv => AdvanceKeepsItsLimits
  <2>1. SUFFICES ASSUME SchedulerIInv PROVE AdvanceKeepsItsLimits
    OBVIOUS
  <2>2. graph \in Graphs /\ ValidGraph(graph) /\ passes \in Nat
    BY <2>1 DEF SchedulerIInv, TypeOK
  <2>3. /\ Cardinality(Decided(graph, status, Joins)) \in Nat /\ Cardinality(graph.steps) \in Nat
        /\ Cardinality(Decided(graph, status, Joins)) <= Cardinality(graph.steps)
    BY <2>2, DecidedIsCounted
  <2> QED
    BY <2>1, <2>2, <2>3 DEF SchedulerIInv, AdvanceKeepsItsLimits, Running, Steps
<1> QED
  BY <1>1, SchedulerInvariant, PTL

(* What dependencies decide, for every graph and every policy.              *)
THEOREM DependenciesAreObeyed == GraphSpec => DependenciesDecide
<1> DEFINE Decides ==
      \A s \in Steps : status[s] = "pending" /\ status'[s] # "pending" =>
        LET over    == {d \in graph.deps[s] : status'[d] \in Over}
            counted == {d \in over : status'[d] = "blocked" => status[d] = "blocked"}
            means   == {Means(s, d, status') : d \in counted}
        IN  IF status'[s] \in {"ready", "succeeded"}
            THEN over = graph.deps[s] /\ \A d \in over : Means(s, d, status') = "continue"
            ELSE \E o \in means : /\ o # "continue" /\ Becomes[o] = status'[s]
                                  /\ \A q \in means : Priority[q] <= Priority[o]
<1>1. SchedulerIInv /\ [GraphNext]_gVars => [Decides]_gVars
  <2>1. SUFFICES ASSUME SchedulerIInv, GraphNext PROVE Decides
    OBVIOUS
  <2>2. /\ graph \in Graphs /\ ValidGraph(graph) /\ Joins \in SUBSET graph.steps
        /\ status \in Statuses(graph)
    BY <2>1 DEF SchedulerIInv, TypeOK, Statuses, Steps, Joins, StepStates
  <2>3. CASE Advance
    <3>1. PICK p : p = status' /\ p = AdvancePass(graph, status, Joins)
      BY <2>3 DEF Advance
    <3>2. ASSUME NEW s \in graph.steps, status[s] = "pending", p[s] # "pending"
          PROVE  LET over    == {d \in graph.deps[s] : p[d] \in Over}
                     counted == {d \in over : p[d] = "blocked" => status[d] = "blocked"}
                     means   == {Means(s, d, p) : d \in counted}
                 IN  IF p[s] \in {"ready", "succeeded"}
                     THEN over = graph.deps[s] /\ \A d \in over : Means(s, d, p) = "continue"
                     ELSE \E o \in means : /\ o # "continue" /\ Becomes[o] = p[s]
                                           /\ \A q \in means : Priority[q] <= Priority[o]
      BY <2>2, <3>1, <3>2, PassDecides
    <3> QED
      BY <3>1, <3>2 DEF Steps
  <2>4. ASSUME NEW s \in Steps,
               \/ Claim(s) \/ Settle(s) \/ Reconcile(s) \/ Accept(s)
               \/ ScheduleRetry(s) \/ Rework(s) \/ FireRetry(s)
        PROVE  Decides
    <3>1. Turns(s)
      BY <2>1, <2>4, StepTurns
    <3>2. \A t \in Steps : status[t] = "pending" => status'[t] = "pending"
      BY <2>2, <3>1 DEF Turns, Statuses, Steps
    <3> QED
      BY <3>2
  <2> QED
    BY <2>1, <2>3, <2>4 DEF GraphNext
<1> QED
  BY <1>1, SchedulerInvariant, PTL DEF GraphSpec, DependenciesDecide

(***************************************************************************)
(* The limit on ready Steps.  The first n members of a set are at most n.  *)
(***************************************************************************)
RankIn(g, s) == CHOOSE i \in 1..Len(g.order) : g.order[i] = s

LEMMA Ranks ==
  ASSUME NEW g \in Graphs, ValidGraph(g)
  PROVE  /\ Len(g.order) \in Nat
         /\ \A s \in g.steps : RankIn(g, s) \in 1..Len(g.order) /\ g.order[RankIn(g, s)] = s
<1>1. Ordered(g.steps, g.deps, g.order)
  BY GraphsAssumption, OrderIsOrdered
<1>2. \A s \in g.steps : \E i \in 1..Len(g.order) : g.order[i] = s
  BY <1>1, GoodGraph, OrderedAndFull DEF ValidGraph
<1>3. Len(g.order) \in Nat
  BY <1>1 DEF Ordered
<1> QED
  BY <1>2, <1>3 DEF RankIn

LEMMA EarliestAreFew ==
  ASSUME NEW g \in Graphs, ValidGraph(g), NEW S \in SUBSET g.steps, NEW n \in Int
  PROVE  /\ IsFiniteSet(Earliest(g, S, n))
         /\ Cardinality(Earliest(g, S, n)) \in Nat
         /\ Earliest(g, S, n) # {} => Cardinality(Earliest(g, S, n)) <= n
<1>1. PICK E : E = Earliest(g, S, n)
  OBVIOUS
<1>2. E = {s \in S : Cardinality({t \in S : RankIn(g, t) < RankIn(g, s)}) < n}
  BY <1>1 DEF Earliest, RankIn
<1>3. /\ IsFiniteSet(S) /\ E \in SUBSET S /\ IsFiniteSet(E)
  BY <1>2, GoodGraph, FS_Subset
<1>4. Cardinality(E) \in Nat
  BY <1>3, FS_CardinalityType
<1>5. ASSUME E # {} PROVE Cardinality(E) <= n
  <2>1. PICK N \in Nat : N = Len(g.order) /\ \A s \in E : RankIn(g, s) \in 1..N
    BY <1>3, Ranks
  <2> DEFINE T == {N - RankIn(g, s) : s \in E}
  <2>2. T \in SUBSET Nat /\ T # {}
    BY <1>5, <2>1
  <2>3. PICK x \in T : \A y \in T : x <= y
    BY <2>2, LeastNatural
  <2>4. PICK m \in E : x = N - RankIn(g, m)
    BY <2>3
  <2>5. ASSUME NEW s \in E PROVE RankIn(g, s) <= RankIn(g, m)
    <3>1. N - RankIn(g, s) \in T
      OBVIOUS
    <3>2. N - RankIn(g, m) <= N - RankIn(g, s)
      BY <2>3, <2>4, <3>1
    <3> QED
      BY <2>1, <3>2
  <2>6. \A s \in E \ {m} : RankIn(g, s) < RankIn(g, m)
    <3>1. ASSUME NEW s \in E, s # m PROVE RankIn(g, s) # RankIn(g, m)
      BY <1>3, <3>1, Ranks
    <3> QED
      BY <2>1, <2>5, <3>1
  <2> DEFINE Before == {t \in S : RankIn(g, t) < RankIn(g, m)}
  <2>7. E \ {m} \in SUBSET Before
    BY <1>3, <2>6
  <2>8. IsFiniteSet(Before) /\ Cardinality(Before) < n
    BY <1>2, <1>3, FS_Subset
  <2>9. Cardinality(E \ {m}) <= Cardinality(Before) /\ Cardinality(Before) \in Nat
    BY <2>7, <2>8, FS_Subset, FS_CardinalityType
  <2>10. Cardinality(E \ {m}) = Cardinality(E) - 1
    BY <1>3, FS_RemoveElement
  <2> QED
    BY <1>4, <2>8, <2>9, <2>10
<1> QED
  BY <1>1, <1>3, <1>4, <1>5

ReadyOf(st) == InStatus(graph, st, {"ready"})

(* advance itself keeps the limit on ready Steps, for every graph; only the *)
(* retry timer and the owner's rework take a Task over it, as the finding   *)
(* about ReadyLimitHolds has it.                                            *)
OnlyRetriesExceed ==
  [][ReadyLimitHolds /\ ~ReadyLimitHolds' => \E s \in Steps : Rework(s) \/ FireRetry(s)]_gVars

LEMMA AdvanceKeepsReadyLimit ==
  ASSUME SchedulerIInv, Advance
  PROVE  ReadyLimitHolds'
<1>1. /\ graph \in Graphs /\ ValidGraph(graph) /\ Joins \in SUBSET graph.steps
      /\ status \in Statuses(graph)
  BY DEF SchedulerIInv, TypeOK, Statuses, Steps, Joins, StepStates
<1>2. PICK p : p = AdvancePass(graph, status, Joins)
  OBVIOUS
<1>3. status' = p /\ graph' = graph /\ ProgressDefined(graph, status)
  BY <1>2 DEF Advance
<1>4. PICK R, Q, E : R = ReadyOf(status) /\ Q = ReadyOf(p) /\ E = Entering(graph, status)
  OBVIOUS
<1>5. PICK n : n = graph.maxReady - Cardinality(R)
  OBVIOUS
<1>6. R \in SUBSET graph.steps /\ Q \in SUBSET graph.steps /\ E \in SUBSET graph.steps
  BY <1>1, <1>4, EntrantIs DEF ReadyOf, InStatus
<1>7. /\ IsFiniteSet(R) /\ IsFiniteSet(E) /\ Cardinality(R) \in Nat /\ Cardinality(E) \in Nat
      /\ graph.maxReady \in Nat
  BY <1>1, <1>6, GoodGraph, FS_Subset, FS_CardinalityType
<1>8. n \in Nat
  BY <1>3, <1>4, <1>5, <1>7 DEF ProgressDefined, ReadyOf
<1>9. Cardinality(E) <= n
  <2>1. InStatus(graph, BlockedAsFailed(graph, status), {"ready"}) = R
    BY <1>1, <1>4, BlockedSeenFailed DEF InStatus, ReadyOf
  <2>2. PICK S : S = Eligible(graph, BlockedAsFailed(graph, status), View(graph, status), {"pending"})
    OBVIOUS
  <2>3. E = Earliest(graph, S, n)
    BY <1>4, <1>5, <2>1, <2>2 DEF Entering, Admitted
  <2>4. S \in SUBSET graph.steps
    BY <2>2 DEF Eligible, InStatus
  <2>5. E # {} => Cardinality(E) <= n
    BY <1>1, <1>8, <2>3, <2>4, EarliestAreFew
  <2> QED
    BY <1>8, <2>5, FS_EmptySet
<1>10. Q \in SUBSET (R \cup E)
  <2>1. ASSUME NEW s \in graph.steps, p[s] = "ready" PROVE status[s] = "ready" \/ s \in E
    <3>1. p[s] = IF s \in Opened(graph, status, Joins) THEN "succeeded" ELSE Moved(graph, status)[s]
      BY <1>1, <1>2, PassIs
    <3>2. Moved(graph, status)[s] = IF s \in Fallers(graph, status) THEN View(graph, status)[s]
                                    ELSE IF s \in E THEN "ready" ELSE status[s]
      BY <1>1, <1>4, MovedIs
    <3>3. s \in Fallers(graph, status) => View(graph, status)[s] \in {"blocked", "skipped", "cancelled"}
      BY <1>1, FallIs
    <3> QED
      BY <2>1, <3>1, <3>2, <3>3
  <2> QED
    BY <1>4, <1>6, <2>1 DEF ReadyOf, InStatus
<1>11. Cardinality(Q) <= Cardinality(R \cup E) /\ Cardinality(R \cup E) <= Cardinality(R) + Cardinality(E)
  <2>1. /\ IsFiniteSet(R \cup E) /\ Cardinality(R \cup E) = Cardinality(R) + Cardinality(E) - Cardinality(R \cap E)
    BY <1>7, FS_Union
  <2>2. Cardinality(R \cap E) \in Nat
    BY <1>7, FS_Intersection, FS_CardinalityType
  <2> QED
    BY <1>7, <1>10, <2>1, <2>2, FS_Subset
<1>12. Cardinality(Q) \in Nat /\ Cardinality(R \cup E) \in Nat
  BY <1>1, <1>6, <1>7, GoodGraph, FS_Subset, FS_Union, FS_CardinalityType
<1>13. Cardinality(Q) <= graph.maxReady
  BY <1>5, <1>7, <1>8, <1>9, <1>11, <1>12
<1> QED
  BY <1>3, <1>4, <1>13 DEF ReadyLimitHolds, ProgressDefined, ReadyOf

THEOREM ReadyLimitIsOnlyExceededByRetries == GraphSpec => OnlyRetriesExceed
<1>1. SchedulerIInv /\ [GraphNext]_gVars =>
        [ReadyLimitHolds /\ ~ReadyLimitHolds' => \E s \in Steps : Rework(s) \/ FireRetry(s)]_gVars
  <2>1. SUFFICES ASSUME SchedulerIInv, GraphNext, ReadyLimitHolds, ~ReadyLimitHolds'
                 PROVE  \E s \in Steps : Rework(s) \/ FireRetry(s)
    OBVIOUS
  <2>2. ~Advance
    BY <2>1, AdvanceKeepsReadyLimit
  <2>3. PICK s \in Steps : \/ Claim(s) \/ Settle(s) \/ Reconcile(s) \/ Accept(s)
                           \/ ScheduleRetry(s) \/ Rework(s) \/ FireRetry(s)
    BY <2>1, <2>2 DEF GraphNext
  <2>4. SUFFICES ASSUME Claim(s) \/ Settle(s) \/ Reconcile(s) \/ Accept(s) \/ ScheduleRetry(s)
                 PROVE  FALSE
    BY <2>3
  <2>5. /\ graph \in Graphs /\ ValidGraph(graph) /\ status \in Statuses(graph)
    BY <2>1 DEF SchedulerIInv, TypeOK, Statuses, Steps, Joins, StepStates
  <2>6. /\ graph' = graph
        /\ \E v \in {"running", "review", "failed", "blocked", "succeeded", "waiting"} :
             status' = [status EXCEPT ![s] = v]
    BY <2>4 DEF Claim, Settle, Reconcile, Accept, ScheduleRetry, Redo
  <2>7. PICK R, Q : R = ReadyOf(status) /\ Q = InStatus(graph, status', {"ready"})
    OBVIOUS
  <2>8. Q \in SUBSET R /\ R \in SUBSET graph.steps
    BY <2>3, <2>5, <2>6, <2>7 DEF ReadyOf, InStatus, Statuses, Steps
  <2>9. /\ Cardinality(Q) <= Cardinality(R) /\ Cardinality(R) \in Nat /\ Cardinality(Q) \in Nat
        /\ graph.maxReady \in Nat
    BY <2>5, <2>8, GoodGraph, FS_Subset, FS_CardinalityType
  <2>10. Cardinality(R) <= graph.maxReady
    BY <2>1, <2>7 DEF ReadyLimitHolds, ProgressDefined, ReadyOf
  <2>11. Cardinality(Q) <= graph.maxReady
    BY <2>9, <2>10
  <2> QED
    BY <2>1, <2>6, <2>7, <2>11 DEF ReadyLimitHolds, ProgressDefined
<1> QED
  BY <1>1, SchedulerInvariant, PTL DEF GraphSpec, OnlyRetriesExceed

(***************************************************************************)
(* Getting on.  The Steps whose dependencies have been looked at:          *)
(***************************************************************************)
Active == {"ready", "running", "waiting", "review"}
DepsHavePassed ==
  \A s \in Steps : status[s] \in Active \/ s \in held
                     => \A d \in graph.deps[s] : status[d] # "pending"

(* advance has ended without throwing, and the Activity has nothing to     *)
(* claim, no outcome to record and nothing to wait for.                    *)
NothingGoesOn ==
  /\ ProgressDefined(graph, status)
  /\ AdvancePass(graph, status, Joins) = status
  /\ \A s \in Steps : /\ status[s] \notin {"running", "waiting", "review"}
                      /\ s \notin ToRun(graph, status)

(* A Task whose scheduler rests and of which no Step is on its way has     *)
(* only Steps that are settled, or blocked for their owner.                *)
NobodyIsForgotten == NothingGoesOn => \A s \in Steps : status[s] \in Over

LEMMA DepsHavePassedBegins == GraphInit => DepsHavePassed
BY DEF GraphInit, DepsHavePassed, Active

LEMMA DepsHavePassedKept ==
  ASSUME SchedulerIInv, DepsHavePassed, [GraphNext]_gVars
  PROVE  DepsHavePassed'
<1>1. /\ graph \in Graphs /\ ValidGraph(graph) /\ Joins \in SUBSET graph.steps
      /\ status \in Statuses(graph) /\ held \subseteq graph.steps
  BY DEF SchedulerIInv, TypeOK, Statuses, Steps, Joins, StepStates
<1>2. \A s \in graph.steps : graph.deps[s] \subseteq graph.steps
  BY <1>1, GoodGraph
<1>3. \A s \in graph.steps : status[s] \in Active \/ s \in held
                               => \A d \in graph.deps[s] : status[d] # "pending"
  BY DEF DepsHavePassed, Steps
<1>4. CASE Advance
  <2>1. PICK p : p = AdvancePass(graph, status, Joins)
    OBVIOUS
  <2>2. status' = p /\ graph' = graph /\ held' = held
    BY <1>4, <2>1 DEF Advance
  <2>3. \A s \in graph.steps :
           \/ p[s] = status[s]
           \/ p[s] \in {"blocked", "skipped", "cancelled", "ready"} /\ status[s] \in Fallible
           \/ p[s] = "succeeded" /\ s \in Joins /\ status[s] \in Fallible \cup {"running"}
    BY <1>1, <2>1, PassIsTyped
  <2>4. \A d \in graph.steps : status[d] # "pending" => p[d] # "pending"
    BY <2>3
  <2>5. ASSUME NEW s \in graph.steps, p[s] \in Active \/ s \in held, NEW d \in graph.deps[s]
        PROVE  p[d] # "pending"
    <3>1. CASE status[s] \in Active \/ s \in held
      BY <1>2, <1>3, <2>4, <2>5, <3>1
    <3>2. CASE status[s] \notin Active /\ s \notin held
      <4>1. p[s] = "ready" /\ status[s] = "pending"
        BY <2>3, <2>5, <3>2 DEF Active, Fallible
      <4>2. s \in Entering(graph, status)
        <5>1. p[s] = IF s \in Opened(graph, status, Joins) THEN "succeeded" ELSE Moved(graph, status)[s]
          BY <1>1, <2>1, PassIs
        <5>2. Moved(graph, status)[s] = IF s \in Fallers(graph, status) THEN View(graph, status)[s]
                                        ELSE IF s \in Entering(graph, status) THEN "ready" ELSE status[s]
          BY <1>1, MovedIs
        <5>3. s \in Fallers(graph, status) => View(graph, status)[s] \in {"blocked", "skipped", "cancelled"}
          BY <1>1, FallIs
        <5> QED
          BY <4>1, <5>1, <5>2, <5>3
      <4>3. View(graph, status)[d] \in Settled /\ d \in graph.steps
        BY <1>1, <1>2, <4>2, EntrantIs
      <4>4. p[d] \in Over
        BY <1>1, <2>1, <4>3, OverStays
      <4> QED
        BY <4>4 DEF Over, Settled
    <3> QED
      BY <3>1, <3>2
  <2> QED
    BY <2>2, <2>5 DEF DepsHavePassed, Steps
<1>5. ASSUME NEW x \in Steps,
             \/ Claim(x) \/ Settle(x) \/ Reconcile(x) \/ Accept(x)
             \/ ScheduleRetry(x) \/ Rework(x) \/ FireRetry(x)
      PROVE  DepsHavePassed'
  <2>1. Turns(x)
    BY <1>5, StepTurns
  <2>2. /\ graph' = graph /\ x \in graph.steps
        /\ \A t \in graph.steps \ {x} : status'[t] = status[t]
        /\ status'[x] # "pending"
    BY <1>1, <2>1 DEF Turns, Statuses, Steps
  <2>3. held' \subseteq held \cup {x}
    BY <2>1 DEF Turns
  <2>4. \A d \in graph.steps : status[d] # "pending" => status'[d] # "pending"
    BY <2>2
  <2>5. status[x] \in Active \/ x \in held
    <3>1. CASE Claim(x)
      BY <1>1, <3>1, RunnableIs DEF Claim, Active
    <3>2. CASE ~Claim(x)
      BY <1>5, <3>2 DEF Settle, Reconcile, Accept, ScheduleRetry, Rework, FireRetry, Active
    <3> QED
      BY <3>1, <3>2
  <2> QED
    BY <1>2, <1>3, <2>2, <2>3, <2>4, <2>5 DEF DepsHavePassed, Steps
<1>6. CASE UNCHANGED gVars
  BY <1>6 DEF DepsHavePassed, Steps, gVars
<1> QED
  BY <1>4, <1>5, <1>6 DEF GraphNext

(* The first, in the order, of some Steps waits for none of them.          *)
LEMMA FirstWaitsForNone ==
  ASSUME NEW g \in Graphs, ValidGraph(g), NEW T \in SUBSET g.steps, T # {}
  PROVE  \E s \in T : g.deps[s] \cap T = {}
BY GoodGraph, CyclesAreRefused DEF Acyclic

(* When some Steps may run and one slot is free, one of them does.         *)
LEMMA SomeIsEarliest ==
  ASSUME NEW g \in Graphs, ValidGraph(g), NEW S \in SUBSET g.steps, NEW n \in Nat \ {0}, S # {}
  PROVE  Earliest(g, S, n) # {}
<1>1. PICK N \in Nat : N = Len(g.order) /\ \A s \in S : RankIn(g, s) \in 1..N
  BY Ranks
<1> DEFINE T == {RankIn(g, s) : s \in S}
<1>2. T \in SUBSET Nat /\ T # {}
  BY <1>1
<1>3. PICK x \in T : \A y \in T : x <= y
  BY <1>2, LeastNatural
<1>4. PICK m \in S : x = RankIn(g, m)
  BY <1>3
<1>5. {t \in S : RankIn(g, t) < RankIn(g, m)} = {}
  <2>1. ASSUME NEW t \in S PROVE ~(RankIn(g, t) < RankIn(g, m))
    <3>1. RankIn(g, t) \in T
      OBVIOUS
    <3>2. RankIn(g, m) <= RankIn(g, t)
      BY <1>3, <1>4, <3>1
    <3>3. RankIn(g, m) \in Nat /\ RankIn(g, t) \in Nat
      BY <1>1
    <3> QED
      BY <3>2, <3>3
  <2> QED
    BY <2>1
<1>6. Cardinality({t \in S : RankIn(g, t) < RankIn(g, m)}) < n
  BY <1>5, FS_EmptySet
<1>7. m \in {s \in S : Cardinality({t \in S : RankIn(g, t) < RankIn(g, s)}) < n}
  BY <1>6
<1> QED
  BY <1>7 DEF Earliest, RankIn

(* When advance rests, a Step whose dependencies are all over does not      *)
(* fall; if it is ready it is no barrier.                                  *)
LEMMA RestIs ==
  ASSUME NEW g \in Graphs, ValidGraph(g), NEW st \in Statuses(g), NEW joins \in SUBSET g.steps,
         AdvancePass(g, st, joins) = st, NEW s \in g.steps, st[s] \in Fallible,
         \A d \in g.deps[s] : st[d] \in Over
  PROVE  /\ s \in Eligible(g, BlockedAsFailed(g, st), View(g, st), {st[s]})
         /\ s \notin Entering(g, st)
<1>1. g.deps[s] \subseteq g.steps
  BY GoodGraph
<1>2. st[s] = IF s \in Opened(g, st, joins) THEN "succeeded" ELSE Moved(g, st)[s]
  BY PassIs
<1>3. Moved(g, st)[s] = IF s \in Fallers(g, st) THEN View(g, st)[s]
                        ELSE IF s \in Entering(g, st) THEN "ready" ELSE st[s]
  BY MovedIs
<1>4. s \notin Fallers(g, st)
  BY <1>2, <1>3, FallIs DEF Fallible
<1>5. s \notin Entering(g, st)
  BY <1>2, <1>3, <1>4, EntrantIs DEF Fallible
<1>6. View(g, st)[s] = st[s] /\ BlockedAsFailed(g, st)[s] = st[s]
  BY <1>4, FallIs, BlockedSeenFailed DEF Fallible
<1>7. ASSUME NEW d \in g.deps[s] PROVE View(g, st)[d] \in Settled
  <2>1. d \in g.steps /\ st[d] \in Over
    BY <1>1
  <2>2. d \notin Fallers(g, st)
    BY <2>1 DEF Fallers, Fallible, Over, Settled
  <2> QED
    BY <2>1, <2>2, FallIs, BlockedSeenFailed
<1> QED
  BY <1>5, <1>6, <1>7 DEF Eligible, InStatus

LEMMA RestForgetsNobody ==
  ASSUME SchedulerIInv, DepsHavePassed, NothingGoesOn
  PROVE  \A s \in Steps : status[s] \in Over
<1>1. /\ graph \in Graphs /\ ValidGraph(graph) /\ Joins \in SUBSET graph.steps
      /\ status \in Statuses(graph)
  BY DEF SchedulerIInv, TypeOK, Statuses, Steps, Joins, StepStates
<1>2. \A s \in graph.steps : graph.deps[s] \subseteq graph.steps
  BY <1>1, GoodGraph
<1>3. /\ AdvancePass(graph, status, Joins) = status
      /\ \A s \in graph.steps : status[s] \in Over \cup Fallible
  BY <1>1 DEF NothingGoesOn, Statuses, StepStates, Steps, Over, Fallible
<1>4. ToRun(graph, status) = {}
  <2>1. \A s \in ToRun(graph, status) : s \in graph.steps
    BY <1>1, <1>3, RunnableIs
  <2> QED
    BY <2>1 DEF NothingGoesOn, Steps
<1>5. PICK View1, Failed : View1 = View(graph, status) /\ Failed = BlockedAsFailed(graph, status)
  OBVIOUS
<1>6. {s \in graph.steps : status[s] = "running"} = {}
  BY DEF NothingGoesOn, Steps
<1>7. \A s \in graph.steps : status[s] # "ready"
  <2> DEFINE T == {s \in graph.steps : status[s] = "ready"}
  <2>1. SUFFICES ASSUME T # {} PROVE FALSE
    OBVIOUS
  <2>2. PICK s \in T : graph.deps[s] \cap T = {}
    BY <1>1, <2>1, FirstWaitsForNone
  <2>3. \A d \in graph.deps[s] : status[d] # "pending"
    BY <2>2 DEF DepsHavePassed, Active, Steps
  <2>4. \A d \in graph.deps[s] : status[d] \in Over
    BY <1>2, <1>3, <2>2, <2>3 DEF Fallible
  <2>5. s \in Eligible(graph, Failed, View1, {"ready"})
    BY <1>1, <1>3, <1>5, <2>2, <2>4, RestIs DEF Fallible
  <2>6. PICK S : S = Eligible(graph, Failed, View1, {"ready"}) \cup Admitted(graph, Failed, View1)
    OBVIOUS
  <2>7. S \in SUBSET graph.steps /\ S # {}
    BY <2>5, <2>6 DEF Eligible, Admitted, Earliest, InStatus
  <2>8. graph.maxParallel - Cardinality(InStatus(graph, Failed, {"running"})) \in Nat \ {0}
    <3>1. InStatus(graph, Failed, {"running"}) = {}
      BY <1>1, <1>5, <1>6, BlockedSeenFailed DEF InStatus
    <3>2. Cardinality(InStatus(graph, Failed, {"running"})) = 0
      BY <3>1, FS_EmptySet
    <3>3. graph.maxParallel \in Nat \ {0}
      BY <1>1, GoodGraph
    <3> QED
      BY <3>2, <3>3
  <2>9. ToRun(graph, status)
          = Earliest(graph, S, graph.maxParallel - Cardinality(InStatus(graph, Failed, {"running"})))
    BY <1>5, <2>6 DEF ToRun, Runnable, View
  <2> QED
    BY <1>1, <1>4, <2>7, <2>8, <2>9, SomeIsEarliest
<1>8. \A s \in graph.steps : status[s] # "pending"
  <2> DEFINE T == {s \in graph.steps : status[s] = "pending"}
  <2>1. SUFFICES ASSUME T # {} PROVE FALSE
    OBVIOUS
  <2>2. PICK s \in T : graph.deps[s] \cap T = {}
    BY <1>1, <2>1, FirstWaitsForNone
  <2>3. \A d \in graph.deps[s] : status[d] \in Over
    BY <1>2, <1>3, <1>7, <2>2 DEF Fallible
  <2>4. s \in Eligible(graph, Failed, View1, {"pending"})
    BY <1>1, <1>3, <1>5, <2>2, <2>3, RestIs DEF Fallible
  <2>5. PICK S : S = Eligible(graph, Failed, View1, {"pending"})
    OBVIOUS
  <2>6. S \in SUBSET graph.steps /\ S # {}
    BY <2>4, <2>5 DEF Eligible, InStatus
  <2>7. graph.maxReady - Cardinality(InStatus(graph, Failed, {"ready"})) \in Nat \ {0}
    <3>1. InStatus(graph, Failed, {"ready"}) = {}
      BY <1>1, <1>5, <1>7, BlockedSeenFailed DEF InStatus
    <3>2. Cardinality(InStatus(graph, Failed, {"ready"})) = 0
      BY <3>1, FS_EmptySet
    <3>3. graph.maxReady \in Nat \ {0}
      BY <1>1, GoodGraph
    <3> QED
      BY <3>2, <3>3
  <2>8. Entering(graph, status)
          = Earliest(graph, S, graph.maxReady - Cardinality(InStatus(graph, Failed, {"ready"})))
    BY <1>5, <2>5 DEF Entering, Admitted
  <2>9. PICK t \in Entering(graph, status) : TRUE
    BY <1>1, <2>6, <2>7, <2>8, SomeIsEarliest
  <2>10. /\ t \in graph.steps /\ status[t] = "pending"
         /\ t \in Eligible(graph, Failed, View1, {"pending"}) /\ t \notin Fallers(graph, status)
    BY <1>1, <1>5, <2>9, EntrantIs DEF Entering, Admitted, Earliest
  <2>11. status[t] = IF t \in Opened(graph, status, Joins) THEN "succeeded" ELSE Moved(graph, status)[t]
    BY <1>1, <1>3, <2>10, PassIs
  <2>12. Moved(graph, status)[t] = "ready"
    BY <1>1, <2>9, <2>10, MovedIs
  <2> QED
    BY <2>10, <2>11, <2>12
<1> QED
  BY <1>3, <1>7, <1>8 DEF Fallible, Steps

(* Whatever the graph, the policies and the limits: as long as not too      *)
(* many Steps are ready, a Task cannot come to rest with a Step that is     *)
(* pending or ready.  What is left of EveryStepIsDecided is fairness.       *)
THEOREM NobodyIsEverForgotten == GraphSpec => []NobodyIsForgotten
<1>1. SchedulerIInv /\ DepsHavePassed => NobodyIsForgotten
  BY RestForgetsNobody DEF NobodyIsForgotten
<1>2. GraphSpec => []DepsHavePassed
  <2>1. SchedulerIInv /\ DepsHavePassed /\ [GraphNext]_gVars => DepsHavePassed'
    BY DepsHavePassedKept
  <2> QED
    BY <2>1, DepsHavePassedBegins, SchedulerInvariant, PTL DEF GraphSpec
<1> QED
  BY <1>1, <1>2, SchedulerInvariant, PTL
=============================================================================
