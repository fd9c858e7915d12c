------------------------------- MODULE EcsProofs -------------------------------
(***************************************************************************)
(* Proofs about the ECS core: SystemScheduler, for any number of systems,  *)
(* stages, dependencies and sync points, and EntityManager, for any number *)
(* of entity ids, versions and storages.                                   *)
(*                                                                         *)
(* Kahn's loop keeps the in-degrees equal to the number of predecessors    *)
(* that are not sorted yet (SortInv), which is why it ends with everything *)
(* sorted exactly when there is no cycle.  The plan of a stage is final    *)
(* once Build() has moved on (OrderInv, BatchInv), and Execute() goes      *)
(* through its groups in order (ExecInv).                                  *)
(*                                                                         *)
(* A slot's version is the number of its entities so far, modulo the       *)
(* version count (SlotsInv).  The storages' versions never go back, so a   *)
(* query whose fingerprint is the same has seen no change (CacheTracks).   *)
(***************************************************************************)
EXTENDS SystemScheduler, EntityManager, FiniteSetTheorems, SequenceTheorems, NaturalsInduction, TLAPS

(***************************************************************************)
(* The invariant.                                                          *)
(***************************************************************************)

\* Every system of a list comes behind its predecessors.
Topological(s) == \A b \in DOMAIN s : \A p \in Before(s[b]) : \E a \in 1..(b - 1) : s[a] = p

\* AddDependency() refuses systems of different stages, and a system keeps its stage.
DepsInv == \A d \in deps : systems[d[1]].stage = systems[d[2]].stage

\* Nothing is built while a build is on, and only a finished plan is executed.
ModeInv ==
  /\ build.stage # 0 => ~built /\ build.degree \in [Systems -> Nat]
  /\ build.stage = 0 => build = NoBuild
  /\ exec.stage # 0 => built

\* Kahn's loop: the in-degrees count the predecessors that are not sorted yet, and the
\* systems without are those in the queue or behind it.
SortInv ==
  build.stage # 0 /\ build.placing = 0 =>
    /\ ToSet(build.ready) \subseteq InStage(build.stage)
    /\ ToSet(build.sorted) \subseteq InStage(build.stage)
    /\ IsInjective(build.ready) /\ IsInjective(build.sorted)
    /\ ToSet(build.ready) \cap ToSet(build.sorted) = {}
    /\ \A i \in Systems : build.degree[i] = Cardinality(Before(i) \ ToSet(build.sorted))
    /\ \A i \in InStage(build.stage) :
         build.degree[i] = 0 <=> i \in ToSet(build.ready) \cup ToSet(build.sorted)
    /\ Topological(build.sorted)

\* The order of a stage is final.
OrderDone(st) == built \/ st < build.stage \/ (st = build.stage /\ build.placing # 0)

\* A final order has every system of its stage once, behind its predecessors.
OrderInv ==
  \A st \in StageIds :
    OrderDone(st) => IsInjective(order[st]) /\ ToSet(order[st]) = InStage(st) /\ Topological(order[st])

\* Systems of one group do not conflict, and their predecessors are in earlier groups.
Grouped(g) ==
  \A k \in DOMAIN g : \A i \in ToSet(g[k]) :
    /\ \A j \in ToSet(g[k]) : i # j => ~Conflict(i, j)
    /\ \A p \in Before(i) : \E l \in 1..(k - 1) : p \in ToSet(g[l])

\* The batches of a stage hold what has been placed, soundly; later stages have none.
BatchInv ==
  /\ \A st \in StageIds :
       built \/ st < build.stage \/ (st = build.stage /\ build.placing # 0) => Grouped(batches[st])
  /\ build.stage # 0 =>
       /\ \A st \in StageIds :
            st > build.stage \/ (st = build.stage /\ build.placing = 0) => batches[st] = <<>>
       /\ build.placing # 0 =>
            \A a \in 1..(build.placing - 1) :
              \E k \in DOMAIN batches[build.stage] :
                order[build.stage][a] \in ToSet(batches[build.stage][k])

\* The groups before the current one are done, and only systems of the current one run.
ExecInv ==
  /\ exec.stage = 0 => exec.running = {}
  /\ exec.stage # 0 =>
       LET g == Groups(exec.stage) IN
       /\ exec.at >= 1 /\ (exec.at = 1 => exec.running = {})
       /\ \A k \in DOMAIN g : k < exec.at - 1 => Enabled(g[k]) \subseteq exec.done
       /\ exec.at > 1 => /\ exec.at - 1 \in DOMAIN g
                         /\ exec.running \subseteq Enabled(g[exec.at - 1])
                         /\ Enabled(g[exec.at - 1]) \subseteq exec.running \cup exec.done

\* The inductive invariant.
SchedInv == /\ SchedTypeOK /\ DepsInv /\ ModeInv /\ SortInv /\ OrderInv /\ BatchInv
            /\ ExecInv /\ FixedTimeKept

\* The elements of two lists, one behind the other.
LEMMA Joined ==
  ASSUME NEW S, NEW q \in Seq(S), NEW r \in Seq(S)
  PROVE  /\ q \o r \in Seq(S) /\ Len(q \o r) = Len(q) + Len(r)
         /\ \A i \in 1..Len(q) : (q \o r)[i] = q[i]
         /\ \A i \in 1..Len(r) : (q \o r)[Len(q) + i] = r[i]
OBVIOUS

\* Who comes before whom, in terms of the declared pairs.
LEMMA Neighbours ==
  ASSUME SchedTypeOK
  PROVE  \A p, i : /\ p \in Before(i) <=> <<p, i>> \in deps
                   /\ i \in After(p) <=> <<p, i>> \in deps
                   /\ <<p, i>> \in deps => p \in Systems /\ i \in Systems
<1>1. \A d \in deps : d = <<d[1], d[2]>> /\ d[1] \in Systems /\ d[2] \in Systems
  BY DEF SchedTypeOK
<1>2. ASSUME NEW p, NEW i
      PROVE  /\ p \in Before(i) <=> <<p, i>> \in deps
             /\ i \in After(p) <=> <<p, i>> \in deps
             /\ <<p, i>> \in deps => p \in Systems /\ i \in Systems
  <2>1. <<p, i>>[1] = p /\ <<p, i>>[2] = i
    OBVIOUS
  <2>2. <<p, i>> \in deps => p \in Before(i) /\ i \in After(p) /\ p \in Systems /\ i \in Systems
    BY <1>1, <2>1 DEF Before, After
  <2>3. ASSUME p \in Before(i) PROVE <<p, i>> \in deps
    BY <1>1, <2>3 DEF Before
  <2>4. ASSUME i \in After(p) PROVE <<p, i>> \in deps
    BY <1>1, <2>4 DEF After
  <2>. QED BY <2>2, <2>3, <2>4
<1>. QED BY <1>2

\* The registered systems are finitely many, and so are the predecessors of one.
LEMMA FinitelyMany ==
  ASSUME SchedTypeOK
  PROVE  /\ Systems = 1..Len(systems) /\ Len(systems) \in Nat
         /\ \A S \in SUBSET Systems : IsFiniteSet(S) /\ Cardinality(S) \in Nat
         /\ \A i : Before(i) \subseteq Systems
         /\ \A st : InStage(st) \subseteq Systems
<1>1. Systems = 1..Len(systems) /\ Len(systems) \in Nat
  BY DEF SchedTypeOK, Systems
<1>2. IsFiniteSet(1..Len(systems))
  BY <1>1, FS_Interval, 0 \in Int, 1 \in Int
<1>3. ASSUME NEW S \in SUBSET Systems PROVE IsFiniteSet(S) /\ Cardinality(S) \in Nat
  <2>1. IsFiniteSet(S)
    BY <1>1, <1>2, FS_Subset
  <2>. QED BY <2>1, FS_CardinalityType
<1>4. ASSUME NEW i PROVE Before(i) \subseteq Systems
  BY Neighbours
<1>. QED BY <1>1, <1>3, <1>4 DEF InStage

\* A list without repetitions is as long as the set of its elements.
LEMMA InjectiveLength ==
  ASSUME NEW S, NEW s \in Seq(S), IsInjective(s)
  PROVE  IsFiniteSet(ToSet(s)) /\ Cardinality(ToSet(s)) = Len(s)
<1>1. Len(s) \in Nat /\ DOMAIN s = 1..Len(s) /\ s \in [1..Len(s) -> ToSet(s)]
  BY DEF ToSet
<1>2. s \in Bijection(1..Len(s), ToSet(s))
  BY <1>1 DEF Bijection, Injection, Surjection, IsInjective, ToSet
<1>3. ExistsBijection(1..Len(s), ToSet(s))
  BY <1>2 DEF ExistsBijection
<1>4. Cardinality(ToSet(s)) = Len(s)
  BY <1>1, <1>3, FS_CountingElements
<1>5. IsFiniteSet(ToSet(s))
  BY <1>1, <1>3, FS_NatBijection
<1>. QED BY <1>4, <1>5

\* A set as a list.
LEMMA ListOfSet ==
  ASSUME NEW S, IsFiniteSet(S), NEW s \in SetToSeqs(S)
  PROVE  s \in Seq(S) /\ ToSet(s) = S /\ IsInjective(s)
<1>. DEFINE n == Cardinality(S)
<1>1. n \in Nat
  BY FS_CardinalityType
<1>2. s \in [1..n -> S] /\ \A i, j \in 1..n : i # j => s[i] # s[j]
  BY DEF SetToSeqs
<1>3. s \in Injection(1..n, S)
  BY <1>2 DEF Injection, IsInjective
<1>4. Cardinality(1..n) = n
  BY <1>1, FS_Interval
<1>5. s \in Surjection(1..n, S)
  BY <1>3, <1>4, FS_Injection
<1>. HIDE DEF n
<1>6. s \in Seq(S) /\ DOMAIN s = 1..n
  BY <1>1, <1>2
<1>. QED BY <1>2, <1>5, <1>6 DEF Surjection, ToSet, IsInjective

\* A list one longer, without its head, or followed by another.
LEMMA ListAppended ==
  ASSUME NEW S, NEW s \in Seq(S), NEW x \in S
  PROVE  /\ ToSet(Append(s, x)) = ToSet(s) \cup {x}
         /\ IsInjective(s) /\ x \notin ToSet(s) => IsInjective(Append(s, x))
<1>1. /\ Append(s, x) \in Seq(S) /\ Len(Append(s, x)) = Len(s) + 1 /\ Len(s) \in Nat
      /\ DOMAIN Append(s, x) = 1..(Len(s) + 1) /\ DOMAIN s = 1..Len(s)
      /\ \A i \in 1..Len(s) : Append(s, x)[i] = s[i]
      /\ Append(s, x)[Len(s) + 1] = x
  OBVIOUS
<1>2. ASSUME NEW y PROVE y \in ToSet(Append(s, x)) <=> y \in ToSet(s) \cup {x}
  <2>1. ASSUME y \in ToSet(Append(s, x)) PROVE y \in ToSet(s) \cup {x}
    BY <1>1, <2>1 DEF ToSet
  <2>2. ASSUME y \in ToSet(s) PROVE y \in ToSet(Append(s, x))
    <3>1. PICK i \in 1..Len(s) : s[i] = y
      BY <1>1, <2>2 DEF ToSet
    <3>2. i \in 1..(Len(s) + 1) /\ Append(s, x)[i] = y
      BY <1>1, <3>1
    <3>. QED BY <1>1, <3>2 DEF ToSet
  <2>3. x \in ToSet(Append(s, x))
    BY <1>1 DEF ToSet
  <2>. QED BY <2>1, <2>2, <2>3
<1>3. ASSUME IsInjective(s), x \notin ToSet(s) PROVE IsInjective(Append(s, x))
  <2>1. \A i \in 1..Len(s) : s[i] # x
    BY <1>1, <1>3 DEF ToSet
  <2>. SUFFICES ASSUME NEW a \in 1..(Len(s) + 1), NEW b \in 1..(Len(s) + 1),
                       Append(s, x)[a] = Append(s, x)[b]
                PROVE  a = b
    BY <1>1 DEF IsInjective
  <2>2. CASE a \in 1..Len(s) /\ b \in 1..Len(s)
    BY <1>1, <1>3, <2>2 DEF IsInjective
  <2>3. CASE a = Len(s) + 1 \/ b = Len(s) + 1
    BY <1>1, <2>1, <2>3
  <2>. QED BY <1>1, <2>2, <2>3
<1>. QED BY <1>2, <1>3

\* What is left of a list without its head.
LEMMA ListTail ==
  ASSUME NEW S, NEW s \in Seq(S), s # <<>>, IsInjective(s)
  PROVE  /\ Head(s) \in S /\ Tail(s) \in Seq(S) /\ IsInjective(Tail(s))
         /\ Head(s) \in ToSet(s) /\ ToSet(Tail(s)) = ToSet(s) \ {Head(s)}
<1>1. /\ Len(s) \in Nat \ {0} /\ Len(Tail(s)) = Len(s) - 1 /\ Tail(s) \in Seq(S) /\ Head(s) = s[1]
      /\ DOMAIN s = 1..Len(s) /\ DOMAIN Tail(s) = 1..(Len(s) - 1) /\ Head(s) \in S
      /\ \A i \in 1..(Len(s) - 1) : Tail(s)[i] = s[i + 1]
  OBVIOUS
<1>2. IsInjective(Tail(s))
  <2>. SUFFICES ASSUME NEW a \in 1..(Len(s) - 1), NEW b \in 1..(Len(s) - 1), Tail(s)[a] = Tail(s)[b]
                PROVE  a = b
    BY <1>1 DEF IsInjective
  <2>1. a + 1 \in 1..Len(s) /\ b + 1 \in 1..Len(s) /\ s[a + 1] = s[b + 1]
    BY <1>1
  <2>2. a + 1 = b + 1
    BY <2>1, <1>1 DEF IsInjective
  <2>. QED BY <2>2
<1>3. Head(s) \in ToSet(s)
  BY <1>1 DEF ToSet
<1>4. ASSUME NEW y PROVE y \in ToSet(Tail(s)) <=> y \in ToSet(s) \ {Head(s)}
  <2>1. ASSUME y \in ToSet(Tail(s)) PROVE y \in ToSet(s) \ {Head(s)}
    <3>1. PICK i \in 1..(Len(s) - 1) : Tail(s)[i] = y
      BY <1>1, <2>1 DEF ToSet
    <3>2. i + 1 \in 1..Len(s) /\ s[i + 1] = y /\ i + 1 # 1 /\ 1 \in 1..Len(s)
      BY <1>1, <3>1
    <3>3. s[i + 1] # s[1]
      BY <1>1, <3>2 DEF IsInjective
    <3>. QED BY <1>1, <3>2, <3>3 DEF ToSet
  <2>2. ASSUME y \in ToSet(s), y # Head(s) PROVE y \in ToSet(Tail(s))
    <3>1. PICK i \in 1..Len(s) : s[i] = y
      BY <1>1, <2>2 DEF ToSet
    <3>2. i - 1 \in 1..(Len(s) - 1) /\ (i - 1) + 1 = i
      BY <1>1, <2>2, <3>1
    <3>3. Tail(s)[i - 1] = y
      BY <1>1, <3>1, <3>2
    <3>. QED BY <1>1, <3>2, <3>3 DEF ToSet
  <2>. QED BY <2>1, <2>2
<1>. QED BY <1>1, <1>2, <1>3, <1>4

\* Two lists without repetitions and with nothing in common, one behind the other.
LEMMA ListJoined ==
  ASSUME NEW S, NEW s \in Seq(S), NEW t \in Seq(S), IsInjective(s), IsInjective(t),
         ToSet(s) \cap ToSet(t) = {}
  PROVE  s \o t \in Seq(S) /\ ToSet(s \o t) = ToSet(s) \cup ToSet(t) /\ IsInjective(s \o t)
<1>. DEFINE u == s \o t
<1>1. /\ u \in Seq(S) /\ Len(u) = Len(s) + Len(t) /\ Len(s) \in Nat /\ Len(t) \in Nat
      /\ DOMAIN u = 1..(Len(s) + Len(t)) /\ DOMAIN s = 1..Len(s) /\ DOMAIN t = 1..Len(t)
      /\ \A i \in 1..Len(s) : u[i] = s[i]
      /\ \A i \in 1..Len(t) : u[Len(s) + i] = t[i]
  BY Joined
<1>. HIDE DEF u
<1>2. ASSUME NEW i \in 1..(Len(s) + Len(t)), i \notin 1..Len(s)
      PROVE  i - Len(s) \in 1..Len(t) /\ u[i] = t[i - Len(s)]
  <2>1. i - Len(s) \in 1..Len(t) /\ Len(s) + (i - Len(s)) = i
    BY <1>1, <1>2
  <2>2. u[Len(s) + (i - Len(s))] = t[i - Len(s)]
    BY <2>1, <1>1
  <2>. QED BY <2>1, <2>2
<1>3. ASSUME NEW y PROVE y \in ToSet(u) <=> y \in ToSet(s) \cup ToSet(t)
  <2>1. ASSUME y \in ToSet(u) PROVE y \in ToSet(s) \cup ToSet(t)
    <3>1. PICK i \in 1..(Len(s) + Len(t)) : u[i] = y
      BY <1>1, <2>1 DEF ToSet
    <3>2. CASE i \in 1..Len(s)
      BY <1>1, <3>1, <3>2 DEF ToSet
    <3>3. CASE i \notin 1..Len(s)
      <4>1. i - Len(s) \in 1..Len(t) /\ y = t[i - Len(s)]
        BY <1>2, <3>1, <3>3
      <4>. QED BY <4>1, <1>1 DEF ToSet
    <3>. QED BY <3>2, <3>3
  <2>2. ASSUME y \in ToSet(s) PROVE y \in ToSet(u)
    <3>1. PICK i \in 1..Len(s) : s[i] = y
      BY <1>1, <2>2 DEF ToSet
    <3>2. i \in DOMAIN u /\ u[i] = y
      BY <1>1, <3>1
    <3>. QED BY <3>2 DEF ToSet
  <2>3. ASSUME y \in ToSet(t) PROVE y \in ToSet(u)
    <3>1. PICK i \in 1..Len(t) : t[i] = y
      BY <1>1, <2>3 DEF ToSet
    <3>2. Len(s) + i \in DOMAIN u /\ u[Len(s) + i] = y
      BY <1>1, <3>1
    <3>. QED BY <3>2 DEF ToSet
  <2>. QED BY <2>1, <2>2, <2>3
<1>4. ASSUME NEW a \in DOMAIN u, NEW b \in DOMAIN u, u[a] = u[b] PROVE a = b
  <2>0. a \in 1..(Len(s) + Len(t)) /\ b \in 1..(Len(s) + Len(t))
    BY <1>1
  <2>1. ASSUME NEW i \in 1..Len(s), NEW j \in 1..Len(t) PROVE s[i] # t[j]
    BY <1>1 DEF ToSet
  <2>2. CASE a \in 1..Len(s) /\ b \in 1..Len(s)
    BY <1>1, <1>4, <2>2 DEF IsInjective
  <2>3. CASE a \in 1..Len(s) /\ b \notin 1..Len(s)
    BY <1>1, <1>2, <1>4, <2>0, <2>1, <2>3
  <2>4. CASE a \notin 1..Len(s) /\ b \in 1..Len(s)
    BY <1>1, <1>2, <1>4, <2>0, <2>1, <2>4
  <2>5. CASE a \notin 1..Len(s) /\ b \notin 1..Len(s)
    <3>1. /\ a - Len(s) \in 1..Len(t) /\ b - Len(s) \in 1..Len(t)
          /\ t[a - Len(s)] = t[b - Len(s)]
      BY <1>2, <1>4, <2>0, <2>5
    <3>2. a - Len(s) = b - Len(s)
      BY <3>1, <1>1 DEF IsInjective
    <3>. QED BY <3>2, <2>0, <1>1
  <2>. QED BY <2>2, <2>3, <2>4, <2>5
<1>5. IsInjective(u)
  BY <1>4 DEF IsInjective
<1>. QED BY <1>1, <1>3, <1>5 DEF u

\* A set of naturals that is not empty has a least element.
LEMMA LeastOf ==
  ASSUME NEW T \in SUBSET Nat, T # {}
  PROVE  \E x \in T : \A y \in T : x <= y
<1>1. PICK x \in T : \A y \in T : ~ (<<y, x>> \in OpToRel(<, Nat))
  BY NatLessThanWellFounded, WFMin, Zenon
<1>2. ASSUME NEW y \in T PROVE x <= y
  <2>1. ~ (y < x)
    BY <1>1 DEF OpToRel
  <2>. QED BY <2>1
<1>. QED BY <1>2

\* A list behind whose end a system is put whose predecessors are all in it.
LEMMA TopologicalAppended ==
  ASSUME NEW S, NEW s \in Seq(S), NEW x \in S, Topological(s), Before(x) \subseteq ToSet(s)
  PROVE  Topological(Append(s, x))
<1>1. /\ Len(s) \in Nat /\ DOMAIN Append(s, x) = 1..(Len(s) + 1) /\ DOMAIN s = 1..Len(s)
      /\ \A i \in 1..Len(s) : Append(s, x)[i] = s[i]
      /\ Append(s, x)[Len(s) + 1] = x
  OBVIOUS
<1>. SUFFICES ASSUME NEW b \in 1..(Len(s) + 1), NEW p \in Before(Append(s, x)[b])
              PROVE  \E a \in 1..(b - 1) : Append(s, x)[a] = p
  BY <1>1 DEF Topological
<1>2. CASE b = Len(s) + 1
  <2>1. PICK a \in 1..Len(s) : s[a] = p
    BY <1>1, <1>2 DEF ToSet
  <2>. QED BY <1>1, <1>2, <2>1
<1>3. CASE b # Len(s) + 1
  <2>1. b \in 1..Len(s) /\ Append(s, x)[b] = s[b]
    BY <1>1, <1>3
  <2>2. PICK a \in 1..(b - 1) : s[a] = p
    BY <1>1, <2>1 DEF Topological
  <2>3. a \in 1..Len(s)
    BY <1>1, <2>1
  <2>. QED BY <1>1, <2>2, <2>3
<1>. QED BY <1>2, <1>3

\* topologicalSort() starts with the systems that wait for nobody.
LEMMA SortBegins ==
  ASSUME SchedTypeOK, NEW st \in StageIds, build' \in Sorting(st), UNCHANGED <<systems, deps>>
  PROVE  /\ build'.stage = st /\ build'.placing = 0 /\ build'.degree \in [Systems -> Nat]
         /\ build' \in [stage : StageIds \cup {0}, ready : Seq(Systems), sorted : Seq(Systems),
                        degree : [Systems -> Nat] \cup {<<>>}, placing : Nat]
         /\ SortInv'
<1>. DEFINE degree == [i \in Systems |-> Cardinality(Before(i))]
            free == {i \in InStage(st) : degree[i] = 0}
<1>1. \A i \in Systems : IsFiniteSet(Before(i)) /\ Cardinality(Before(i)) \in Nat
  BY FinitelyMany
<1>2. degree \in [Systems -> Nat]
  BY <1>1
<1>3. /\ build' \in [stage : {st}, ready : AsRegistered(free), degree : {degree}, sorted : {<<>>}, placing : {0}]
  BY DEF Sorting
<1>4. /\ build'.stage = st /\ build'.ready \in AsRegistered(free) /\ build'.degree = degree
      /\ build'.sorted = <<>> /\ build'.placing = 0
  BY <1>3
<1>5. free \subseteq InStage(st) /\ IsFiniteSet(free) /\ free \subseteq Systems
  BY FinitelyMany
<1>6. build'.ready \in Seq(free) /\ ToSet(build'.ready) = free /\ IsInjective(build'.ready)
  <2>1. build'.ready \in SetToSeqs(free)
    BY <1>4 DEF AsRegistered
  <2>. HIDE DEF free
  <2>. QED BY <1>5, <2>1, ListOfSet, Zenon
<1>7. build'.ready \in Seq(Systems)
  <2>. HIDE DEF free
  <2>. QED BY <1>5, <1>6, SeqMonotonic, Zenon
<1>8. build' \in [stage : StageIds \cup {0}, ready : Seq(Systems), sorted : Seq(Systems),
                  degree : [Systems -> Nat] \cup {<<>>}, placing : Nat]
  <2>. HIDE DEF degree, free
  <2>1. build'.sorted \in Seq(Systems) /\ build'.placing \in Nat /\ build'.stage \in StageIds \cup {0}
    BY <1>4
  <2>2. build'.degree \in [Systems -> Nat] \cup {<<>>}
    BY <1>2, <1>4
  <2>3. build' \in [stage : {st}, ready : {build'.ready}, degree : {build'.degree},
                    sorted : {build'.sorted}, placing : {0}]
    BY <1>3, <1>4
  <2>. QED BY <1>7, <2>1, <2>2, <2>3
<1>9. SortInv'
  <2>1. Systems' = Systems /\ InStage(st)' = InStage(st) /\ \A i : Before(i)' = Before(i)
    BY DEF Systems, InStage, Before
  <2>2. ToSet(build'.sorted) = {} /\ IsInjective(build'.sorted)
    BY <1>4 DEF ToSet, IsInjective
  <2>3. \A i \in Systems : build'.degree[i] = Cardinality(Before(i) \ ToSet(build'.sorted))
    <3>1. ASSUME NEW i \in Systems PROVE Before(i) \ ToSet(build'.sorted) = Before(i)
      BY <2>2
    <3>. QED BY <3>1, <1>4
  <2>4. \A i \in InStage(st) : build'.degree[i] = 0 <=> i \in ToSet(build'.ready) \cup ToSet(build'.sorted)
    BY <1>4, <1>6, <2>2
  <2>5. Topological(<<>>)'
    BY DEF Topological
  <2>6. Topological(build.sorted)'
    BY <2>5, <1>4 DEF Topological
  <2>7. InStage(build.stage)' = InStage(st)
    BY <1>4 DEF InStage, Systems
  <2>8. ToSet(build'.ready) \subseteq InStage(st)
    BY <1>5, <1>6
  <2>. HIDE DEF degree, free
  <2>. QED BY <1>6, <2>1, <2>2, <2>3, <2>4, <2>6, <2>7, <2>8 DEF SortInv
<1>. QED BY <1>2, <1>4, <1>8, <1>9

\* A round of Kahn's loop keeps the in-degrees right.
LEMMA SortStepInv ==
  ASSUME SchedTypeOK, DepsInv, ModeInv, SortInv, SortStep
  PROVE  /\ build' \in [stage : StageIds \cup {0}, ready : Seq(Systems), sorted : Seq(Systems),
                        degree : [Systems -> Nat] \cup {<<>>}, placing : Nat]
         /\ build'.degree \in [Systems -> Nat] /\ build'.stage = build.stage /\ build'.placing = 0
         /\ SortInv'
<1>. DEFINE i == Head(build.ready)
            freed == {j \in After(i) : build.degree[j] = 1}
            st == build.stage
            degree == [j \in Systems |-> IF j \in After(i) THEN build.degree[j] - 1 ELSE build.degree[j]]
<1>1. /\ build.stage # 0 /\ build.placing = 0 /\ build.ready # <<>> /\ build.degree \in [Systems -> Nat]
      /\ UNCHANGED <<systems, deps>>
  BY DEF SortStep, ModeInv
<1>2. PICK more \in SetToSeqs(freed) :
        build' = [build EXCEPT !.ready = Tail(@) \o more, !.sorted = Append(@, i),
                               !.degree = [j \in Systems |-> IF j \in After(i) THEN @[j] - 1 ELSE @[j]]]
  BY DEF SortStep
<1>3. /\ build \in [stage : StageIds \cup {0}, ready : Seq(Systems), sorted : Seq(Systems),
                    degree : [Systems -> Nat] \cup {<<>>}, placing : Nat]
      /\ build.ready \in Seq(Systems) /\ build.sorted \in Seq(Systems) /\ st \in StageIds
  BY <1>1 DEF SchedTypeOK
<1>4. /\ build'.ready = Tail(build.ready) \o more /\ build'.sorted = Append(build.sorted, i)
      /\ build'.degree = degree /\ build'.stage = st /\ build'.placing = 0
  BY <1>1, <1>2, <1>3
<1>5. /\ ToSet(build.ready) \subseteq InStage(st) /\ ToSet(build.sorted) \subseteq InStage(st)
      /\ IsInjective(build.ready) /\ IsInjective(build.sorted)
      /\ ToSet(build.ready) \cap ToSet(build.sorted) = {}
      /\ \A j \in Systems : build.degree[j] = Cardinality(Before(j) \ ToSet(build.sorted))
      /\ \A j \in InStage(st) : build.degree[j] = 0 <=> j \in ToSet(build.ready) \cup ToSet(build.sorted)
      /\ Topological(build.sorted)
  BY <1>1 DEF SortInv
<1>6. /\ i \in Systems /\ Tail(build.ready) \in Seq(Systems) /\ IsInjective(Tail(build.ready))
      /\ i \in ToSet(build.ready) /\ ToSet(Tail(build.ready)) = ToSet(build.ready) \ {i}
  BY <1>1, <1>3, <1>5, ListTail, Zenon
<1>7. i \in InStage(st) /\ i \notin ToSet(build.sorted) /\ build.degree[i] = 0
  BY <1>5, <1>6
<1>. HIDE DEF i
<1>8. \A j : j \in After(i) <=> <<i, j>> \in deps
  BY Neighbours
<1>9. ASSUME NEW j \in After(i) PROVE j \in Systems /\ j \in InStage(st) /\ i \in Before(j)
  <2>1. <<i, j>> \in deps /\ j \in Systems /\ i \in Before(j)
    BY <1>8, Neighbours
  <2>2. systems[i].stage = systems[j].stage
    BY <2>1 DEF DepsInv
  <2>. QED BY <2>1, <2>2, <1>7 DEF InStage
<1>10. ASSUME NEW j \in Systems, j \notin After(i) PROVE i \notin Before(j)
  BY <1>8, <1>10, Neighbours
<1>. DEFINE waits(j) == Before(j) \ ToSet(build.sorted)
<1>11. ASSUME NEW j \in Systems PROVE IsFiniteSet(waits(j)) /\ Cardinality(waits(j)) \in Nat
  BY FinitelyMany
<1>12. ToSet(build'.sorted) = ToSet(build.sorted) \cup {i} /\ IsInjective(build'.sorted)
  <2>1. /\ ToSet(Append(build.sorted, i)) = ToSet(build.sorted) \cup {i}
        /\ IsInjective(Append(build.sorted, i))
    <3>1. build.sorted \in Seq(Systems) /\ i \in Systems
      BY <1>3, <1>6
    <3>2. /\ ToSet(Append(build.sorted, i)) = ToSet(build.sorted) \cup {i}
          /\ IsInjective(build.sorted) /\ i \notin ToSet(build.sorted) => IsInjective(Append(build.sorted, i))
      BY <3>1, ListAppended, Zenon
    <3>. QED BY <3>2, <1>5, <1>7
  <2>. QED BY <2>1, <1>4
<1>13. ASSUME NEW j \in Systems
       PROVE  degree[j] \in Nat /\ degree[j] = Cardinality(Before(j) \ ToSet(build'.sorted))
  <2>0. build.degree[j] = Cardinality(waits(j))
    BY <1>5
  <2>1. Before(j) \ ToSet(build'.sorted) = waits(j) \ {i}
    BY <1>12
  <2>2. CASE j \in After(i)
    <3>1. i \in waits(j)
      BY <2>2, <1>7, <1>9
    <3>2. Cardinality(waits(j) \ {i}) = Cardinality(waits(j)) - 1 /\ Cardinality(waits(j) \ {i}) \in Nat
      <4>. HIDE DEF waits
      <4>1. IsFiniteSet(waits(j) \ {i}) /\ Cardinality(waits(j) \ {i}) = Cardinality(waits(j)) - 1
        BY <1>11, <3>1, FS_RemoveElement
      <4>. QED BY <4>1, FS_CardinalityType
    <3>. QED BY <2>0, <2>1, <2>2, <3>2
  <2>3. CASE j \notin After(i)
    <3>1. waits(j) \ {i} = waits(j)
      BY <2>3, <1>10
    <3>. QED BY <2>0, <2>1, <2>3, <3>1, <1>11
  <2>. QED BY <2>2, <2>3
<1>14. degree \in [Systems -> Nat]
  BY <1>13
<1>15. freed \subseteq Systems /\ freed \subseteq InStage(st) /\ IsFiniteSet(freed)
  BY <1>9, FinitelyMany
<1>16. more \in Seq(Systems) /\ ToSet(more) = freed /\ IsInjective(more)
  <2>. HIDE DEF freed
  <2>1. more \in Seq(freed) /\ ToSet(more) = freed /\ IsInjective(more)
    BY <1>15, ListOfSet, Zenon
  <2>. QED BY <2>1, <1>15, SeqMonotonic, Zenon
<1>17. freed \cap (ToSet(build.ready) \cup ToSet(build.sorted)) = {}
  <2>1. ASSUME NEW j \in freed PROVE j \notin ToSet(build.ready) \cup ToSet(build.sorted)
    BY <1>5, <1>15
  <2>. QED BY <2>1
<1>18. /\ build'.ready \in Seq(Systems) /\ IsInjective(build'.ready)
       /\ ToSet(build'.ready) = (ToSet(build.ready) \ {i}) \cup freed
  <2>. DEFINE rest == Tail(build.ready)
  <2>1. ToSet(rest) \cap ToSet(more) = {}
    BY <1>6, <1>16, <1>17
  <2>. HIDE DEF rest, freed
  <2>2. rest \o more \in Seq(Systems) /\ ToSet(rest \o more) = ToSet(rest) \cup ToSet(more)
        /\ IsInjective(rest \o more)
    <3>1. rest \in Seq(Systems) /\ IsInjective(rest)
      BY <1>6 DEF rest
    <3>. QED BY <3>1, <2>1, <1>16, ListJoined, Zenon
  <2>. QED BY <2>2, <1>4, <1>6, <1>16 DEF rest
<1>19. build'.sorted \in Seq(Systems)
  BY <1>3, <1>4, <1>6
<1>20. \A j \in InStage(st) : degree[j] = 0 <=> j \in ToSet(build'.ready) \cup ToSet(build'.sorted)
  <2>. SUFFICES ASSUME NEW j \in InStage(st)
                PROVE  degree[j] = 0 <=> j \in ToSet(build'.ready) \cup ToSet(build'.sorted)
    OBVIOUS
  <2>1. j \in Systems /\ build.degree[j] \in Nat
    BY <1>1 DEF InStage
  <2>2. (j \in ToSet(build'.ready) \cup ToSet(build'.sorted)) <=>
          (build.degree[j] = 0 \/ j \in freed)
    BY <1>5, <1>6, <1>12, <1>18
  <2>3. CASE j \in After(i)
    <3>1. build.degree[j] # 0
      <4>1. i \in waits(j)
        BY <2>3, <1>7, <1>9
      <4>2. Cardinality(waits(j)) # 0
        BY <4>1, <2>1, <1>11, FS_EmptySet
      <4>. QED BY <4>2, <2>1, <1>5
    <3>. QED BY <3>1, <2>1, <2>2, <2>3
  <2>4. CASE j \notin After(i)
    BY <2>1, <2>2, <2>4
  <2>. QED BY <2>3, <2>4
<1>21. Topological(build'.sorted)
  <2>1. Before(i) \subseteq ToSet(build.sorted)
    <3>1. Cardinality(waits(i)) = 0
      BY <1>5, <1>6, <1>7
    <3>2. waits(i) = {}
      BY <3>1, <1>6, <1>11, FS_EmptySet
    <3>. QED BY <3>2
  <2>. QED BY <2>1, <1>3, <1>4, <1>5, <1>6, TopologicalAppended
<1>22. /\ Systems' = Systems /\ InStage(build.stage)' = InStage(st) /\ \A j : Before(j)' = Before(j)
       /\ Topological(build.sorted)'
  <2>1. Systems' = Systems /\ \A j : Before(j)' = Before(j)
    BY <1>1 DEF Systems, Before
  <2>2. InStage(build.stage)' = InStage(st)
    BY <1>1, <1>4 DEF Systems, InStage
  <2>3. Topological(build.sorted)'
    BY <1>21, <2>1 DEF Topological
  <2>. QED BY <2>1, <2>2, <2>3
<1>23. SortInv'
  <2>1. ToSet(build'.ready) \subseteq InStage(st) /\ ToSet(build'.sorted) \subseteq InStage(st)
    BY <1>5, <1>7, <1>12, <1>15, <1>18
  <2>2. ToSet(build'.ready) \cap ToSet(build'.sorted) = {}
    BY <1>5, <1>7, <1>12, <1>17, <1>18
  <2>3. \A j \in Systems : build'.degree[j] = Cardinality(Before(j) \ ToSet(build'.sorted))
    BY <1>4, <1>13
  <2>4. \A j \in InStage(st) : build'.degree[j] = 0 <=> j \in ToSet(build'.ready) \cup ToSet(build'.sorted)
    BY <1>4, <1>20
  <2>. HIDE DEF degree, freed
  <2>. QED BY <2>1, <2>2, <2>3, <2>4, <1>12, <1>18, <1>22 DEF SortInv
<1>24. build' \in [stage : StageIds \cup {0}, ready : Seq(Systems), sorted : Seq(Systems),
                   degree : [Systems -> Nat] \cup {<<>>}, placing : Nat]
  <2>. HIDE DEF degree, freed
  <2>. QED BY <1>2, <1>3, <1>4, <1>14, <1>18, <1>19
<1>. QED BY <1>4, <1>14, <1>23, <1>24

\* Stages are numbered from 1.
LEMMA StageNumbers == StageIds = 1..Len(Stages) /\ Len(Stages) \in Nat /\ 1 \in StageIds /\ 0 \notin StageIds
BY SchedulerAssumption DEF StageIds

\* Conflicts are mutual.
LEMMA ConflictMutual == ASSUME NEW i, NEW j, Conflict(i, j) PROVE Conflict(j, i)
BY DEF Conflict, ConflictsWith

\* System i joins batch b of g, or a new one at the end, behind its predecessors and among
\* systems it does not conflict with; the batches are h then.
Joins(i, b, g, n, h, m) ==
  /\ n \in Nat /\ m \in Nat /\ n <= m
  /\ DOMAIN g = 1..n /\ DOMAIN h = 1..m /\ b \in 1..m /\ 1..m \subseteq 1..n \cup {b}
  /\ \A k \in 1..m : k # b => ToSet(h[k]) = ToSet(g[k])
  /\ \A x \in ToSet(h[b]) : x = i \/ (b \in 1..n /\ x \in ToSet(g[b]) /\ ~Conflict(i, x))
  /\ b \in 1..n => ToSet(g[b]) \subseteq ToSet(h[b])
  /\ \A p \in Before(i) : \E l \in 1..n : l < b /\ p \in ToSet(g[l])

\* Joining a batch that way keeps the batches sound.
LEMMA GroupedWith ==
  ASSUME NEW i, NEW b, NEW g, NEW n, NEW h, NEW m, Grouped(g), Joins(i, b, g, n, h, m)
  PROVE  Grouped(h)
<1>. USE DEF Joins
<1>1. \A l \in 1..n : ToSet(g[l]) \subseteq ToSet(h[l])
  OBVIOUS
<1>. SUFFICES ASSUME NEW k \in 1..m, NEW x \in ToSet(h[k])
              PROVE  /\ \A y \in ToSet(h[k]) : x # y => ~Conflict(x, y)
                     /\ \A p \in Before(x) : \E l \in 1..(k - 1) : p \in ToSet(h[l])
  BY DEF Grouped
<1>2. ASSUME k \in 1..n, x \in ToSet(g[k])
      PROVE  /\ \A y \in ToSet(g[k]) : x # y => ~Conflict(x, y)
             /\ \A p \in Before(x) : \E l \in 1..(k - 1) : p \in ToSet(h[l])
  <2>1. \A y \in ToSet(g[k]) : x # y => ~Conflict(x, y)
    BY <1>2 DEF Grouped
  <2>2. ASSUME NEW p \in Before(x) PROVE \E l \in 1..(k - 1) : p \in ToSet(h[l])
    <3>1. PICK l \in 1..(k - 1) : p \in ToSet(g[l])
      BY <1>2 DEF Grouped
    <3>2. l \in 1..n
      BY <1>2
    <3>. QED BY <3>1, <3>2, <1>1
  <2>. QED BY <2>1, <2>2
<1>3. CASE k # b
  <2>1. k \in 1..n /\ ToSet(h[k]) = ToSet(g[k])
    BY <1>3
  <2>. QED BY <2>1, <1>2
<1>4. CASE k = b
  <2>1. CASE x = i
    <3>1. ASSUME NEW y \in ToSet(h[k]), x # y PROVE ~Conflict(x, y)
      BY <1>4, <2>1, <3>1
    <3>2. ASSUME NEW p \in Before(x) PROVE \E l \in 1..(k - 1) : p \in ToSet(h[l])
      <4>1. PICK l \in 1..n : l < b /\ p \in ToSet(g[l])
        BY <2>1
      <4>2. l \in 1..(k - 1)
        BY <4>1, <1>4
      <4>. QED BY <4>1, <4>2, <1>1
    <3>. QED BY <3>1, <3>2
  <2>2. CASE x # i
    <3>1. k \in 1..n /\ x \in ToSet(g[k]) /\ ~Conflict(i, x)
      BY <1>4, <2>2
    <3>2. ASSUME NEW y \in ToSet(h[k]), x # y PROVE ~Conflict(x, y)
      <4>1. CASE y = i
        BY <4>1, <3>1, ConflictMutual
      <4>2. CASE y # i
        BY <4>2, <3>1, <3>2, <1>2, <1>4
      <4>. QED BY <4>1, <4>2
    <3>. QED BY <3>1, <3>2, <1>2
  <2>. QED BY <2>1, <2>2
<1>. QED BY <1>3, <1>4

\* The end of a stage's sort: with as many systems sorted as there are, all are.
LEMMA SortDoneInv ==
  ASSUME SchedTypeOK, ModeInv, SortInv, OrderInv, BatchInv, SortDone
  PROVE  /\ build' \in [stage : StageIds \cup {0}, ready : Seq(Systems), sorted : Seq(Systems),
                        degree : [Systems -> Nat] \cup {<<>>}, placing : Nat]
         /\ order' \in [StageIds -> Seq(Systems)]
         /\ ModeInv' /\ SortInv' /\ OrderInv' /\ BatchInv'
<1>. DEFINE st == build.stage
<1>1. /\ st # 0 /\ build.placing = 0 /\ build.ready = <<>> /\ ~built
      /\ build.degree \in [Systems -> Nat]
      /\ UNCHANGED <<systems, deps, batches, exec>>
  BY DEF SortDone, ModeInv
<1>2. /\ build \in [stage : StageIds \cup {0}, ready : Seq(Systems), sorted : Seq(Systems),
                    degree : [Systems -> Nat] \cup {<<>>}, placing : Nat]
      /\ build.sorted \in Seq(Systems) /\ st \in StageIds /\ order \in [StageIds -> Seq(Systems)]
  BY <1>1 DEF SchedTypeOK
<1>3. Systems' = Systems /\ (\A x : InStage(x)' = InStage(x)) /\ \A j : Before(j)' = Before(j)
  BY <1>1 DEF Systems, InStage, Before
<1>4. CASE Len(build.sorted) # Cardinality(InStage(st))
  <2>1. build' = NoBuild /\ built' = FALSE /\ UNCHANGED order
    BY <1>4 DEF SortDone
  <2>2. /\ NoBuild.stage = 0 /\ NoBuild.placing = 0
        /\ NoBuild \in [stage : StageIds \cup {0}, ready : Seq(Systems), sorted : Seq(Systems),
                        degree : [Systems -> Nat] \cup {<<>>}, placing : Nat]
    BY DEF NoBuild
  <2>3. ModeInv'
    BY <2>1, <2>2, <1>1 DEF ModeInv
  <2>4. SortInv'
    BY <2>1, <2>2 DEF SortInv
  <2>5. \A x \in StageIds : x \in Nat /\ x > 0
    BY StageNumbers
  <2>6. OrderInv'
    BY <2>1, <2>2, <2>5 DEF OrderInv, OrderDone
  <2>7. BatchInv'
    BY <2>1, <2>2, <2>5 DEF BatchInv
  <2>. QED BY <2>1, <2>2, <2>3, <2>4, <2>6, <2>7, <1>2
<1>5. CASE Len(build.sorted) = Cardinality(InStage(st))
  <2>1. /\ order' = [order EXCEPT ![st] = build.sorted] /\ build' = [build EXCEPT !.placing = 1]
        /\ UNCHANGED built
    BY <1>5 DEF SortDone
  <2>2. build'.stage = st /\ build'.placing = 1 /\ build'.degree = build.degree
    BY <2>1, <1>2
  <2>3. /\ ToSet(build.sorted) \subseteq InStage(st) /\ IsInjective(build.sorted)
        /\ Topological(build.sorted)
    BY <1>1 DEF SortInv
  <2>4. ToSet(build.sorted) = InStage(st)
    <3>1. Cardinality(ToSet(build.sorted)) = Len(build.sorted)
      BY <1>2, <2>3, InjectiveLength, Zenon
    <3>2. IsFiniteSet(InStage(st))
      BY FinitelyMany
    <3>3. ToSet(build.sorted) \in SUBSET InStage(st)
      BY <2>3
    <3>. QED BY <1>5, <3>1, <3>2, <3>3, FS_Subset, Zenon
  <2>5. ModeInv'
    BY <2>1, <2>2, <1>1, <1>3 DEF ModeInv
  <2>6. SortInv'
    BY <2>2 DEF SortInv
  <2>7. OrderInv'
    <3>. SUFFICES ASSUME NEW x \in StageIds, OrderDone(x)'
                  PROVE  (IsInjective(order[x]) /\ ToSet(order[x]) = InStage(x) /\ Topological(order[x]))'
      BY <1>3 DEF OrderInv
    <3>1. CASE x = st
      <4>1. order'[x] = build.sorted
        BY <3>1, <2>1, <1>2
      <4>. QED BY <3>1, <4>1, <2>3, <2>4, <1>3 DEF Topological
    <3>2. CASE x # st
      <4>1. order'[x] = order[x] /\ OrderDone(x)
        BY <3>2, <2>1, <2>2, <1>1, <1>2 DEF OrderDone
      <4>2. IsInjective(order[x]) /\ ToSet(order[x]) = InStage(x) /\ Topological(order[x])
        BY <4>1 DEF OrderInv
      <4>. QED BY <4>1, <4>2, <1>3 DEF Topological
    <3>. QED BY <3>1, <3>2
  <2>8. BatchInv'
    <3>1. ASSUME NEW x \in StageIds, built' \/ x < build'.stage \/ (x = build'.stage /\ build'.placing # 0)
          PROVE  Grouped(batches[x])'
      <4>1. CASE x = st
        <5>1. batches[x] = <<>>
          BY <4>1, <1>1, <1>2 DEF BatchInv
        <5>2. batches'[x] = <<>>
          BY <5>1, <1>1
        <5>. QED BY <5>2 DEF Grouped
      <4>2. CASE x # st
        <5>1. Grouped(batches[x])
          BY <4>2, <3>1, <2>1, <2>2, <1>1 DEF BatchInv
        <5>. QED BY <5>1, <1>1, <1>3 DEF Grouped, Conflict
      <4>. QED BY <4>1, <4>2
    <3>2. ASSUME NEW x \in StageIds, x > build'.stage \/ (x = build'.stage /\ build'.placing = 0)
          PROVE  batches'[x] = <<>>
      BY <3>2, <2>2, <1>1 DEF BatchInv
    <3>. QED BY <3>1, <3>2, <2>2 DEF BatchInv, StageIds
  <2>9. order' \in [StageIds -> Seq(Systems)]
    BY <2>1, <1>2
  <2>10. build' \in [stage : StageIds \cup {0}, ready : Seq(Systems), sorted : Seq(Systems),
                     degree : [Systems -> Nat] \cup {<<>>}, placing : Nat]
    BY <2>1, <1>2
  <2>. QED BY <2>5, <2>6, <2>7, <2>8, <2>9, <2>10
<1>. QED BY <1>4, <1>5

\* A system's batch holds it, once it has been placed.
LEMMA BatchHolds ==
  ASSUME NEW st, NEW p, \E k \in DOMAIN batches[st] : p \in ToSet(batches[st][k])
  PROVE  BatchOf(st, p) \in DOMAIN batches[st] /\ p \in ToSet(batches[st][BatchOf(st, p)])
BY DEF BatchOf

\* The first elements of a sequence.
LEMMA FrontHas ==
  ASSUME NEW T, NEW s \in Seq(T), NEW m \in Nat, m <= Len(s), NEW a \in 1..m
  PROVE  a \in DOMAIN SubSeq(s, 1, m) /\ SubSeq(s, 1, m)[a] = s[a]
OBVIOUS

\* A round of computeParallelBatches() keeps the batches sound.
LEMMA PlaceStepInv ==
  ASSUME SchedTypeOK, ModeInv, OrderInv, BatchInv, PlaceStep
  PROVE  /\ build' \in [stage : StageIds \cup {0}, ready : Seq(Systems), sorted : Seq(Systems),
                        degree : [Systems -> Nat] \cup {<<>>}, placing : Nat]
         /\ batches' \in [StageIds -> Seq(Seq(Systems))]
         /\ ModeInv' /\ SortInv' /\ OrderInv' /\ BatchInv'
<1>. DEFINE st == build.stage
            n == build.placing
            i == order[st][n]
            g == batches[st]
<1>1. /\ st # 0 /\ n \in 1..Len(order[st]) /\ ~built /\ build.degree \in [Systems -> Nat]
      /\ UNCHANGED <<systems, deps, syncPoints, built, order, exec>>
      /\ build' = [build EXCEPT !.placing = @ + 1]
  BY DEF PlaceStep, ModeInv
<1>2. /\ build \in [stage : StageIds \cup {0}, ready : Seq(Systems), sorted : Seq(Systems),
                    degree : [Systems -> Nat] \cup {<<>>}, placing : Nat]
      /\ st \in StageIds /\ order[st] \in Seq(Systems) /\ n \in Nat /\ n # 0
      /\ batches \in [StageIds -> Seq(Seq(Systems))] /\ g \in Seq(Seq(Systems))
  BY <1>1 DEF SchedTypeOK
<1>3. build'.stage = st /\ build'.placing = n + 1 /\ build'.degree = build.degree
  BY <1>1, <1>2
<1>4. i \in Systems /\ n \in DOMAIN order[st]
  BY <1>1, <1>2
<1>5. Systems' = Systems /\ (\A x : InStage(x)' = InStage(x)) /\ \A j : Before(j)' = Before(j)
  BY <1>1 DEF Systems, InStage, Before
<1>6. build' \in [stage : StageIds \cup {0}, ready : Seq(Systems), sorted : Seq(Systems),
                  degree : [Systems -> Nat] \cup {<<>>}, placing : Nat]
  <2>1. n + 1 \in Nat /\ build' = [build EXCEPT !.placing = n + 1]
    BY <1>1, <1>2
  <2>. HIDE DEF n
  <2>. QED BY <2>1, <1>2
<1>7. ModeInv' /\ SortInv'
  BY <1>1, <1>2, <1>3, <1>5 DEF ModeInv, SortInv
<1>8. OrderInv'
  <2>. SUFFICES ASSUME NEW x \in StageIds, OrderDone(x)'
                PROVE  (IsInjective(order[x]) /\ ToSet(order[x]) = InStage(x) /\ Topological(order[x]))'
    BY <1>5 DEF OrderInv
  <2>1. OrderDone(x)
    BY <1>1, <1>2, <1>3 DEF OrderDone
  <2>2. IsInjective(order[x]) /\ ToSet(order[x]) = InStage(x) /\ Topological(order[x])
    BY <2>1 DEF OrderInv
  <2>. QED BY <2>2, <1>1, <1>5 DEF Topological
<1>9. Grouped(g)
  BY <1>2 DEF BatchInv
<1>10. \A a \in 1..(n - 1) : \E k \in DOMAIN g : order[st][a] \in ToSet(g[k])
  BY <1>1, <1>2 DEF BatchInv
<1>11. Topological(order[st])
  BY <1>2 DEF OrderInv, OrderDone
<1>12. ASSUME NEW p \in Before(i)
       PROVE  /\ p \in ToSet(SubSeq(order[st], 1, n - 1))
              /\ BatchOf(st, p) \in DOMAIN g /\ p \in ToSet(g[BatchOf(st, p)])
  <2>1. PICK a \in 1..(n - 1) : order[st][a] = p
    BY <1>4, <1>11 DEF Topological
  <2>2. \E k \in DOMAIN g : p \in ToSet(g[k])
    BY <1>10, <2>1
  <2>3. BatchOf(st, p) \in DOMAIN g /\ p \in ToSet(g[BatchOf(st, p)])
    BY <2>2, BatchHolds
  <2>4. a \in DOMAIN SubSeq(order[st], 1, n - 1) /\ SubSeq(order[st], 1, n - 1)[a] = p
    <3>1. n - 1 \in Nat /\ n - 1 <= Len(order[st])
      BY <1>1, <1>2
    <3>. QED BY <3>1, <2>1, <1>2, FrontHas
  <2>. QED BY <2>3, <2>4 DEF ToSet
<1>13. Len(g) \in Nat /\ DOMAIN g = 1..Len(g) /\ \A k \in 1..Len(g) : g[k] \in Seq(Systems)
  BY <1>2
<1>. DEFINE Fitting == {b \in DOMAIN g : LateEnough(st, i, b) /\ Fits(st, i, b)}
<1>14. \/ \E b \in Fitting : batches' = [batches EXCEPT ![st][b] = Append(@, i)]
       \/ batches' = [batches EXCEPT ![st] = Append(@, <<i>>)]
  BY DEF PlaceStep
<1>15. ASSUME NEW h \in Seq(Seq(Systems)), batches' = [batches EXCEPT ![st] = h], Grouped(h),
              DOMAIN g \subseteq DOMAIN h, \A k \in DOMAIN g : ToSet(g[k]) \subseteq ToSet(h[k]),
              \E k \in DOMAIN h : i \in ToSet(h[k])
       PROVE  batches' \in [StageIds -> Seq(Seq(Systems))] /\ BatchInv'
  <2>1. batches' \in [StageIds -> Seq(Seq(Systems))] /\ batches'[st] = h
    BY <1>2, <1>15
  <2>2. \A x \in StageIds : x # st => batches'[x] = batches[x]
    BY <1>2, <1>15
  <2>3. ASSUME NEW x \in StageIds, built' \/ x < build'.stage \/ (x = build'.stage /\ build'.placing # 0)
        PROVE  Grouped(batches[x])'
    <3>1. CASE x = st
      BY <3>1, <2>1, <1>15, <1>1, <1>5 DEF Grouped, Conflict
    <3>2. CASE x # st
      <4>1. Grouped(batches[x])
        BY <3>2, <2>3, <1>1, <1>3 DEF BatchInv
      <4>. QED BY <4>1, <3>2, <2>2, <1>1, <1>5 DEF Grouped, Conflict
    <3>. QED BY <3>1, <3>2
  <2>4. ASSUME NEW x \in StageIds, x > build'.stage \/ (x = build'.stage /\ build'.placing = 0)
        PROVE  batches'[x] = <<>>
    <3>1. x # st /\ x > st
      BY <2>4, <1>2, <1>3, StageNumbers
    <3>2. batches[x] = <<>>
      BY <3>1, <1>1 DEF BatchInv
    <3>. QED BY <3>1, <3>2, <2>2
  <2>5. ASSUME NEW a \in 1..(build'.placing - 1)
        PROVE  \E k \in DOMAIN batches'[build'.stage] :
                 order'[build'.stage][a] \in ToSet(batches'[build'.stage][k])
    <3>1. a \in 1..n
      BY <1>2, <1>3
    <3>2. CASE a = n
      BY <3>2, <2>1, <1>1, <1>3, <1>15
    <3>3. CASE a # n
      <4>1. PICK k \in DOMAIN g : order[st][a] \in ToSet(g[k])
        BY <3>1, <3>3, <1>2, <1>10
      <4>. QED BY <4>1, <2>1, <1>1, <1>3, <1>15
    <3>. QED BY <3>2, <3>3
  <2>. QED BY <2>1, <2>3, <2>4, <2>5 DEF BatchInv, StageIds
<1>16. ASSUME NEW b \in Fitting, batches' = [batches EXCEPT ![st][b] = Append(@, i)]
       PROVE  batches' \in [StageIds -> Seq(Seq(Systems))] /\ BatchInv'
  <2>. DEFINE h == [g EXCEPT ![b] = Append(g[b], i)]
  <2>0. b \in 1..Len(g) /\ LateEnough(st, i, b) /\ Fits(st, i, b)
    BY <1>13
  <2>1. batches' = [batches EXCEPT ![st] = h]
    BY <1>16, <1>2
  <2>2. Append(g[b], i) \in Seq(Systems) /\ ToSet(Append(g[b], i)) = ToSet(g[b]) \cup {i}
    <3>1. g[b] \in Seq(Systems)
      BY <1>13, <2>0
    <3>2. ASSUME NEW s \in Seq(Systems) PROVE ToSet(Append(s, i)) = ToSet(s) \cup {i}
      <4>1. i \in Systems
        BY <1>4
      <4>. HIDE DEF i
      <4>. QED BY <4>1, ListAppended
    <3>. QED BY <3>1, <3>2, <1>4
  <2>3. /\ h \in Seq(Seq(Systems)) /\ DOMAIN h = 1..Len(g) /\ h[b] = Append(g[b], i)
        /\ \A k \in 1..Len(g) : k # b => h[k] = g[k]
    BY <2>0, <2>2, <1>2, <1>13
  <2>. HIDE DEF h
  <2>4. \A p \in Before(i) : \E l \in 1..Len(g) : l < b /\ p \in ToSet(g[l])
    <3>. TAKE p \in Before(i)
    <3>1. BatchOf(st, p) \in 1..Len(g) /\ p \in ToSet(g[BatchOf(st, p)])
      BY <1>12, <1>13
    <3>2. b > BatchOf(st, p)
      BY <2>0, <1>12 DEF LateEnough
    <3>. QED BY <3>1, <3>2, <2>0
  <2>5. \A x \in ToSet(g[b]) : ~Conflict(i, x)
    BY <2>0 DEF Fits
  <2>6. Grouped(h)
    <3>1. \A k \in 1..Len(g) : k # b => ToSet(h[k]) = ToSet(g[k])
      BY <2>3
    <3>2. \A x \in ToSet(h[b]) : x = i \/ (b \in 1..Len(g) /\ x \in ToSet(g[b]) /\ ~Conflict(i, x))
      BY <2>0, <2>2, <2>3, <2>5
    <3>3. b \in 1..Len(g) => ToSet(g[b]) \subseteq ToSet(h[b])
      BY <2>2, <2>3
    <3>4. 1..Len(g) \subseteq 1..Len(g) \cup {b} /\ Len(g) <= Len(g)
      BY <1>13
    <3>. HIDE DEF g, i
    <3>5. Joins(i, b, g, Len(g), h, Len(g))
      BY <2>0, <2>3, <2>4, <3>1, <3>2, <3>3, <3>4, <1>13 DEF Joins
    <3>. QED BY <3>5, <1>9, GroupedWith, Zenon
  <2>7. \A k \in DOMAIN g : ToSet(g[k]) \subseteq ToSet(h[k])
    BY <2>2, <2>3, <1>13
  <2>8. \E k \in DOMAIN h : i \in ToSet(h[k])
    BY <2>0, <2>2, <2>3
  <2>. QED BY <2>1, <2>3, <2>6, <2>7, <2>8, <1>13, <1>15
<1>17. ASSUME batches' = [batches EXCEPT ![st] = Append(@, <<i>>)]
       PROVE  batches' \in [StageIds -> Seq(Seq(Systems))] /\ BatchInv'
  <2>. DEFINE h == Append(g, <<i>>)
              b == Len(g) + 1
  <2>1. batches' = [batches EXCEPT ![st] = h]
    BY <1>17, <1>2
  <2>2. <<i>> \in Seq(Systems) /\ ToSet(<<i>>) = {i}
    BY <1>4 DEF ToSet
  <2>3. /\ h \in Seq(Seq(Systems)) /\ DOMAIN h = 1..(Len(g) + 1) /\ h[b] = <<i>>
        /\ \A k \in 1..Len(g) : h[k] = g[k]
    BY <2>2, <1>2, <1>13
  <2>. HIDE DEF h
  <2>4. \A p \in Before(i) : \E l \in 1..Len(g) : l < b /\ p \in ToSet(g[l])
    <3>. TAKE p \in Before(i)
    <3>1. BatchOf(st, p) \in 1..Len(g) /\ p \in ToSet(g[BatchOf(st, p)])
      BY <1>12, <1>13
    <3>. QED BY <3>1, <1>13
  <2>5. Grouped(h)
    <3>1. ASSUME NEW k \in 1..(Len(g) + 1), k # b PROVE ToSet(h[k]) = ToSet(g[k])
      <4>1. k \in 1..Len(g)
        BY <3>1, <1>13
      <4>. QED BY <4>1, <2>3
    <3>2. \A x \in ToSet(h[b]) : x = i
      BY <2>2, <2>3
    <3>3. /\ b \notin 1..Len(g) /\ b \in 1..(Len(g) + 1) /\ Len(g) <= Len(g) + 1 /\ Len(g) + 1 \in Nat
          /\ 1..(Len(g) + 1) \subseteq 1..Len(g) \cup {b}
      BY <1>13
    <3>4. PICK m \in Nat : m = Len(g) + 1
      BY <1>13
    <3>. HIDE DEF g, i, b
    <3>5. /\ DOMAIN h = 1..m /\ Len(g) <= m /\ b \in 1..m /\ 1..m \subseteq 1..Len(g) \cup {b}
          /\ \A k \in 1..m : k # b => ToSet(h[k]) = ToSet(g[k])
      BY <2>3, <3>1, <3>3, <3>4
    <3>6. Joins(i, b, g, Len(g), h, m)
      BY <2>4, <3>2, <3>3, <3>5, <1>13 DEF Joins
    <3>. QED BY <3>6, <1>9, GroupedWith, Zenon
  <2>6. DOMAIN g \subseteq DOMAIN h /\ \A k \in DOMAIN g : ToSet(g[k]) \subseteq ToSet(h[k])
    BY <2>3, <1>13
  <2>7. \E k \in DOMAIN h : i \in ToSet(h[k])
    <3>1. b \in DOMAIN h
      BY <2>3, <1>13
    <3>2. i \in ToSet(h[b])
      BY <2>2, <2>3
    <3>. QED BY <3>1, <3>2
  <2>. QED BY <2>1, <2>3, <2>5, <2>6, <2>7, <1>15
<1>. QED BY <1>6, <1>7, <1>8, <1>14, <1>16, <1>17

\* Nothing is planned or running while systems, dependencies and sync points are declared.
LEMMA NothingPlanned ==
  ASSUME build' = NoBuild, exec'.stage = 0, exec'.running = {}, ~built'
  PROVE  ModeInv' /\ SortInv' /\ OrderInv' /\ BatchInv' /\ ExecInv'
<1>1. \A x \in StageIds : x \in Nat /\ x > 0
  BY StageNumbers
<1>2. build'.stage = 0
  BY DEF NoBuild
<1>3. ModeInv' /\ SortInv' /\ ExecInv'
  BY <1>2 DEF ModeInv, SortInv, ExecInv, NoBuild
<1>4. OrderInv' /\ BatchInv'
  BY <1>1, <1>2 DEF OrderInv, OrderDone, BatchInv
<1>. QED BY <1>3, <1>4

\* Register(), AddDependency() and AddSyncPoint() throw the plan away.
LEMMA RegisterInv ==
  ASSUME SchedInv, NEW st \in StageIds, NEW access \in AccessPatterns, Register(st, access)
  PROVE  SchedInv'
<1>. DEFINE r == [stage |-> st, access |-> access, enabled |-> TRUE]
<1>1. /\ IdleSched /\ systems' = Append(systems, r) /\ built' = FALSE
      /\ UNCHANGED <<deps, syncPoints, order, batches, build, parallel, exec, fixedTime, elapsed>>
  BY DEF Register
<1>2. SchedTypeOK /\ DepsInv /\ ExecInv /\ FixedTimeKept
  BY DEF SchedInv
<1>3. r \in SystemRecord
  BY DEF SystemRecord
<1>4. /\ systems' \in Seq(SystemRecord) /\ Systems \subseteq Systems'
      /\ \A i \in Systems : systems'[i] = systems[i]
  <2>1. systems \in Seq(SystemRecord)
    BY <1>2 DEF SchedTypeOK
  <2>. HIDE DEF r
  <2>. QED BY <1>1, <1>3, <2>1 DEF Systems
<1>5. build = NoBuild
  BY <1>1 DEF IdleSched, SchedInv, ModeInv
<1>6. SchedTypeOK'
  <2>1. deps' \subseteq Systems' \X Systems' /\ syncPoints' \subseteq Systems'
    BY <1>1, <1>2, <1>4 DEF SchedTypeOK
  <2>2. \A s \in Seq(Systems) : s \in Seq(Systems')
    BY <1>4, SeqMonotonic, Zenon
  <2>3. \A s \in Seq(Seq(Systems)) : s \in Seq(Seq(Systems'))
    <3>1. Seq(Systems) \subseteq Seq(Systems')
      BY <2>2
    <3>. QED BY <3>1, SeqMonotonic, Zenon
  <2>4. order' \in [StageIds -> Seq(Systems')] /\ batches' \in [StageIds -> Seq(Seq(Systems'))]
    BY <1>1, <1>2, <2>2, <2>3 DEF SchedTypeOK
  <2>5. build' \in [stage : StageIds \cup {0}, ready : Seq(Systems'), sorted : Seq(Systems'),
                    degree : [Systems' -> Nat] \cup {<<>>}, placing : Nat]
    BY <1>1, <1>5 DEF NoBuild
  <2>6. exec' \in [stage : StageIds \cup {0}, at : Nat, running : SUBSET Systems',
                   done : SUBSET Systems', rounds : {0, 1}]
    BY <1>1, <1>2, <1>4 DEF SchedTypeOK
  <2>. QED BY <1>1, <1>2, <1>4, <2>1, <2>4, <2>5, <2>6 DEF SchedTypeOK
<1>7. DepsInv'
  BY <1>1, <1>2, <1>4 DEF DepsInv, SchedTypeOK
<1>8. ModeInv' /\ SortInv' /\ OrderInv' /\ BatchInv' /\ ExecInv'
  BY <1>1, <1>2, <1>5, NothingPlanned DEF IdleSched, ExecInv
<1>9. FixedTimeKept'
  BY <1>1, <1>2 DEF FixedTimeKept
<1>. QED BY <1>6, <1>7, <1>8, <1>9 DEF SchedInv

\* A dependency or a sync point declared: the old plan is void.
LEMMA DeclareInv ==
  ASSUME SchedInv, NEW i \in Systems, NEW j \in Systems, AddDependency(i, j) \/ AddSyncPoint(i)
  PROVE  SchedInv'
<1>1. /\ IdleSched /\ built' = FALSE
      /\ UNCHANGED <<systems, order, batches, build, parallel, exec, fixedTime, elapsed>>
      /\ deps' = deps \/ (deps' = deps \cup {<<i, j>>} /\ systems[i].stage = systems[j].stage)
      /\ syncPoints' = syncPoints \/ syncPoints' = syncPoints \cup {i}
  BY DEF AddDependency, AddSyncPoint
<1>2. SchedTypeOK /\ DepsInv /\ ExecInv /\ FixedTimeKept
  BY DEF SchedInv
<1>3. Systems' = Systems
  BY <1>1 DEF Systems
<1>4. SchedTypeOK'
  <2>1. deps' \subseteq Systems \X Systems /\ syncPoints' \subseteq Systems
    BY <1>1, <1>2 DEF SchedTypeOK
  <2>. QED BY <1>1, <1>2, <1>3, <2>1 DEF SchedTypeOK
<1>5. DepsInv'
  BY <1>1, <1>2 DEF DepsInv
<1>6. ModeInv' /\ SortInv' /\ OrderInv' /\ BatchInv' /\ ExecInv'
  BY <1>1, <1>2, NothingPlanned DEF IdleSched, ExecInv, SchedInv, ModeInv
<1>7. FixedTimeKept'
  BY <1>1, <1>2 DEF FixedTimeKept
<1>. QED BY <1>4, <1>5, <1>6, <1>7 DEF SchedInv

\* SetEnabled() leaves the plan valid: neither stages nor accesses change.
LEMMA SetEnabledInv ==
  ASSUME SchedInv, NEW i \in Systems, SetEnabled(i)
  PROVE  SchedInv'
<1>1. /\ IdleSched /\ built /\ systems' = [systems EXCEPT ![i].enabled = ~@]
      /\ UNCHANGED <<deps, syncPoints, built, order, batches, build, parallel, exec, fixedTime, elapsed>>
  BY DEF SetEnabled
<1>2. SchedTypeOK /\ DepsInv /\ ModeInv /\ OrderInv /\ BatchInv /\ ExecInv /\ FixedTimeKept
  BY DEF SchedInv
<1>3. systems \in Seq(SystemRecord) /\ systems[i] \in SystemRecord /\ i \in 1..Len(systems)
  BY <1>2 DEF SchedTypeOK, Systems
<1>. DEFINE r == [systems[i] EXCEPT !.enabled = ~systems[i].enabled]
<1>4. r \in SystemRecord /\ r.stage = systems[i].stage /\ r.access = systems[i].access
  <2>1. systems[i].enabled \in BOOLEAN
    BY <1>3 DEF SystemRecord
  <2>2. (~systems[i].enabled) \in BOOLEAN
    OBVIOUS
  <2>. QED BY <1>3, <2>1, <2>2 DEF SystemRecord
<1>5. systems' = [systems EXCEPT ![i] = r]
  BY <1>1, <1>3
<1>. HIDE DEF r
<1>6. /\ systems' \in Seq(SystemRecord) /\ DOMAIN systems' = DOMAIN systems
      /\ \A k \in Systems : systems'[k].stage = systems[k].stage /\ systems'[k].access = systems[k].access
  BY <1>3, <1>4, <1>5 DEF Systems
<1>7. Systems' = Systems /\ (\A x : InStage(x)' = InStage(x)) /\ \A k : Before(k)' = Before(k)
  <2>1. Systems' = Systems
    BY <1>6 DEF Systems
  <2>2. \A x : InStage(x)' = InStage(x)
    BY <1>6, <2>1 DEF InStage
  <2>3. \A k : Before(k)' = Before(k)
    BY <1>1 DEF Before
  <2>. QED BY <2>1, <2>2, <2>3
<1>8. SchedTypeOK'
  BY <1>1, <1>2, <1>6, <1>7 DEF SchedTypeOK
<1>9. DepsInv'
  BY <1>1, <1>2, <1>6 DEF DepsInv, SchedTypeOK
<1>10. ModeInv' /\ SortInv' /\ ExecInv'
  <2>1. build'.stage = 0 /\ build' = NoBuild /\ exec'.stage = 0 /\ exec'.running = {}
    BY <1>1, <1>2 DEF IdleSched, ExecInv, ModeInv
  <2>2. ModeInv' /\ SortInv'
    BY <2>1 DEF ModeInv, SortInv, NoBuild
  <2>. QED BY <2>1, <2>2 DEF ExecInv
<1>11. OrderInv'
  <2>. SUFFICES ASSUME NEW x \in StageIds
                PROVE  (IsInjective(order[x]) /\ ToSet(order[x]) = InStage(x) /\ Topological(order[x]))'
    BY <1>1 DEF OrderInv
  <2>1. IsInjective(order[x]) /\ ToSet(order[x]) = InStage(x) /\ Topological(order[x])
    BY <1>1, <1>2 DEF OrderInv, OrderDone
  <2>. QED BY <2>1, <1>1, <1>7 DEF Topological
<1>12. BatchInv'
  <2>1. ASSUME NEW x \in StageIds PROVE Grouped(batches[x])'
    <3>1. Grouped(batches[x])
      BY <1>1, <1>2 DEF BatchInv
    <3>2. \A k \in DOMAIN batches[x] : ToSet(batches[x][k]) \subseteq Systems
      <4>1. ASSUME NEW k \in DOMAIN batches[x] PROVE ToSet(batches[x][k]) \subseteq Systems
        <5>1. batches[x] \in Seq(Seq(Systems))
          BY <1>2 DEF SchedTypeOK
        <5>2. batches[x][k] \in Seq(Systems)
          BY <5>1
        <5>. QED BY <5>2 DEF ToSet
      <4>. QED BY <4>1
    <3>3. \A k, l \in Systems : Conflict(k, l)' <=> Conflict(k, l)
      BY <1>6 DEF Conflict
    <3>. QED BY <3>1, <3>2, <3>3, <1>1, <1>7 DEF Grouped
  <2>2. build'.stage = 0
    BY <1>1 DEF IdleSched
  <2>. QED BY <2>1, <2>2 DEF BatchInv
<1>13. FixedTimeKept'
  BY <1>1, <1>2 DEF FixedTimeKept
<1>. QED BY <1>8, <1>9, <1>10, <1>11, <1>12, <1>13 DEF SchedInv

\* Build() forgets the old plan and sorts the first stage.
LEMMA BuildInv ==
  ASSUME SchedInv, Build
  PROVE  SchedInv'
<1>1. /\ IdleSched /\ ~built /\ order' = NoPlan /\ batches' = NoPlan /\ build' \in Sorting(1)
      /\ UNCHANGED <<systems, deps, syncPoints, built, parallel, exec, fixedTime, elapsed>>
  BY DEF Build
<1>2. SchedTypeOK /\ DepsInv /\ ExecInv /\ FixedTimeKept
  BY DEF SchedInv
<1>3. /\ build'.stage = 1 /\ build'.placing = 0 /\ build'.degree \in [Systems -> Nat]
      /\ build' \in [stage : StageIds \cup {0}, ready : Seq(Systems), sorted : Seq(Systems),
                     degree : [Systems -> Nat] \cup {<<>>}, placing : Nat]
      /\ SortInv'
  <2>1. 1 \in StageIds
    BY StageNumbers
  <2>. QED BY <2>1, <1>1, <1>2, SortBegins
<1>4. Systems' = Systems
  BY <1>1 DEF Systems
<1>5. SchedTypeOK'
  <2>1. order' \in [StageIds -> Seq(Systems)] /\ batches' \in [StageIds -> Seq(Seq(Systems))]
    BY <1>1 DEF NoPlan
  <2>. QED BY <1>1, <1>2, <1>3, <1>4, <2>1 DEF SchedTypeOK
<1>6. DepsInv' /\ FixedTimeKept'
  BY <1>1, <1>2 DEF DepsInv, FixedTimeKept
<1>7. exec'.stage = 0 /\ exec'.running = {}
  BY <1>1, <1>2 DEF IdleSched, ExecInv
<1>8. ModeInv' /\ ExecInv'
  BY <1>1, <1>3, <1>4, <1>7 DEF ModeInv, ExecInv
<1>9. \A x \in StageIds : x \in Nat /\ x >= 1
  BY StageNumbers
<1>10. OrderInv'
  BY <1>1, <1>3, <1>9 DEF OrderInv, OrderDone
<1>11. BatchInv'
  BY <1>1, <1>3, <1>9 DEF BatchInv, NoPlan
<1>. QED BY <1>3, <1>5, <1>6, <1>8, <1>10, <1>11 DEF SchedInv

\* The rounds of Build().
LEMMA RoundInv ==
  ASSUME SchedInv, SortStep \/ SortDone \/ PlaceStep
  PROVE  SchedInv'
<1>1. UNCHANGED <<systems, deps, syncPoints, parallel, exec, fixedTime, elapsed>>
  BY DEF SortStep, SortDone, PlaceStep
<1>2. /\ SchedTypeOK /\ DepsInv /\ ModeInv /\ SortInv /\ OrderInv /\ BatchInv /\ ExecInv
      /\ FixedTimeKept /\ build.stage # 0 /\ exec.stage = 0 /\ exec.running = {}
  BY DEF SchedInv, SortStep, SortDone, PlaceStep, ModeInv, ExecInv
<1>3. Systems' = Systems /\ (\A x : InStage(x)' = InStage(x)) /\ \A k : Before(k)' = Before(k)
  BY <1>1 DEF Systems, InStage, Before
<1>4. DepsInv' /\ FixedTimeKept' /\ ExecInv'
  BY <1>1, <1>2 DEF DepsInv, FixedTimeKept, ExecInv
<1>5. CASE SortStep
  <2>1. UNCHANGED <<built, order, batches>>
    BY <1>5 DEF SortStep
  <2>2. /\ build' \in [stage : StageIds \cup {0}, ready : Seq(Systems), sorted : Seq(Systems),
                       degree : [Systems -> Nat] \cup {<<>>}, placing : Nat]
        /\ build'.degree \in [Systems -> Nat] /\ build'.stage = build.stage /\ build'.placing = 0
        /\ SortInv'
    BY <1>2, <1>5, SortStepInv
  <2>3. build.placing = 0
    BY <1>5 DEF SortStep
  <2>4. SchedTypeOK'
    BY <1>1, <1>2, <1>3, <2>1, <2>2 DEF SchedTypeOK
  <2>5. ModeInv'
    BY <1>1, <1>2, <1>3, <2>1, <2>2 DEF ModeInv
  <2>6. OrderInv'
    <3>. SUFFICES ASSUME NEW x \in StageIds, OrderDone(x)'
                  PROVE  (IsInjective(order[x]) /\ ToSet(order[x]) = InStage(x) /\ Topological(order[x]))'
      BY DEF OrderInv
    <3>1. OrderDone(x)
      BY <2>1, <2>2, <2>3 DEF OrderDone
    <3>2. IsInjective(order[x]) /\ ToSet(order[x]) = InStage(x) /\ Topological(order[x])
      BY <1>2, <3>1 DEF OrderInv
    <3>. QED BY <3>2, <1>3, <2>1 DEF Topological
  <2>7. BatchInv'
    <3>1. ASSUME NEW x PROVE Grouped(batches[x])' <=> Grouped(batches[x])
      BY <1>1, <1>3, <2>1 DEF Grouped, Conflict
    <3>. QED BY <3>1, <1>2, <2>1, <2>2, <2>3 DEF BatchInv
  <2>. QED BY <1>4, <2>2, <2>4, <2>5, <2>6, <2>7 DEF SchedInv
<1>6. CASE SortDone
  <2>1. UNCHANGED batches /\ built' \in BOOLEAN
    BY <1>2, <1>6 DEF SortDone, SchedTypeOK
  <2>2. /\ build' \in [stage : StageIds \cup {0}, ready : Seq(Systems), sorted : Seq(Systems),
                       degree : [Systems -> Nat] \cup {<<>>}, placing : Nat]
        /\ order' \in [StageIds -> Seq(Systems)]
        /\ ModeInv' /\ SortInv' /\ OrderInv' /\ BatchInv'
    BY <1>2, <1>6, SortDoneInv
  <2>3. SchedTypeOK'
    BY <1>1, <1>2, <1>3, <2>1, <2>2 DEF SchedTypeOK
  <2>. QED BY <1>4, <2>2, <2>3 DEF SchedInv
<1>7. CASE PlaceStep
  <2>1. UNCHANGED <<built, order>>
    BY <1>7 DEF PlaceStep
  <2>2. /\ build' \in [stage : StageIds \cup {0}, ready : Seq(Systems), sorted : Seq(Systems),
                       degree : [Systems -> Nat] \cup {<<>>}, placing : Nat]
        /\ batches' \in [StageIds -> Seq(Seq(Systems))]
        /\ ModeInv' /\ SortInv' /\ OrderInv' /\ BatchInv'
    BY <1>2, <1>7, PlaceStepInv
  <2>3. SchedTypeOK'
    BY <1>1, <1>2, <1>3, <2>1, <2>2 DEF SchedTypeOK
  <2>. QED BY <1>4, <2>2, <2>3 DEF SchedInv
<1>. QED BY <1>5, <1>6, <1>7

\* A stage is finished.
LEMMA PlaceDoneInv ==
  ASSUME SchedInv, PlaceDone
  PROVE  SchedInv'
<1>. DEFINE st == build.stage
<1>1. /\ st # 0 /\ build.placing > Len(order[st])
      /\ UNCHANGED <<systems, deps, syncPoints, order, batches, parallel, exec, fixedTime, elapsed>>
  BY DEF PlaceDone
<1>2. /\ SchedTypeOK /\ DepsInv /\ ModeInv /\ SortInv /\ OrderInv /\ BatchInv /\ ExecInv
      /\ FixedTimeKept /\ ~built /\ exec.stage = 0 /\ exec.running = {}
  BY <1>1 DEF SchedInv, ModeInv, ExecInv
<1>3. Systems' = Systems /\ (\A x : InStage(x)' = InStage(x)) /\ \A k : Before(k)' = Before(k)
  BY <1>1 DEF Systems, InStage, Before
<1>4. DepsInv' /\ FixedTimeKept' /\ ExecInv'
  BY <1>1, <1>2 DEF DepsInv, FixedTimeKept, ExecInv
<1>5. st \in StageIds /\ order[st] \in Seq(Systems) /\ Len(order[st]) \in Nat /\ build.placing \in Nat
  BY <1>1, <1>2 DEF SchedTypeOK
<1>6. build.placing # 0
  BY <1>1, <1>5
<1>7. st \in Nat /\ (\A x \in StageIds : x \in Nat /\ x > 0 /\ x <= Len(Stages)) /\ Len(Stages) \in Nat
  BY <1>5, StageNumbers
<1>8. ASSUME NEW x \in StageIds, x <= st
      PROVE  (IsInjective(order[x]) /\ ToSet(order[x]) = InStage(x) /\ Topological(order[x])
              /\ Grouped(batches[x]))'
  <2>1. OrderDone(x)
    BY <1>6, <1>7, <1>8 DEF OrderDone
  <2>2. IsInjective(order[x]) /\ ToSet(order[x]) = InStage(x) /\ Topological(order[x])
    BY <1>2, <2>1 DEF OrderInv
  <2>3. Grouped(batches[x])
    BY <1>2, <2>1 DEF BatchInv, OrderDone
  <2>4. Grouped(batches[x])'
    BY <2>3, <1>1, <1>3 DEF Grouped, Conflict
  <2>. QED BY <2>2, <2>4, <1>1, <1>3 DEF Topological
<1>9. CASE st < Len(Stages)
  <2>1. build' \in Sorting(st + 1) /\ UNCHANGED built
    BY <1>9 DEF PlaceDone
  <2>2. st + 1 \in StageIds
    BY <1>7, <1>9, StageNumbers
  <2>3. /\ build'.stage = st + 1 /\ build'.placing = 0 /\ build'.degree \in [Systems -> Nat]
        /\ build' \in [stage : StageIds \cup {0}, ready : Seq(Systems), sorted : Seq(Systems),
                       degree : [Systems -> Nat] \cup {<<>>}, placing : Nat]
        /\ SortInv'
    BY <1>1, <1>2, <2>1, <2>2, SortBegins
  <2>4. SchedTypeOK'
    BY <1>1, <1>2, <1>3, <2>1, <2>3 DEF SchedTypeOK
  <2>5. ModeInv'
    BY <1>1, <1>2, <1>3, <1>7, <2>1, <2>3 DEF ModeInv
  <2>6. OrderInv'
    <3>. SUFFICES ASSUME NEW x \in StageIds, OrderDone(x)'
                  PROVE  (IsInjective(order[x]) /\ ToSet(order[x]) = InStage(x) /\ Topological(order[x]))'
      BY DEF OrderInv
    <3>1. x <= st
      BY <1>2, <1>7, <2>1, <2>3 DEF OrderDone
    <3>. QED BY <3>1, <1>8
  <2>7. BatchInv'
    <3>1. ASSUME NEW x \in StageIds, built' \/ x < build'.stage \/ (x = build'.stage /\ build'.placing # 0)
          PROVE  Grouped(batches[x])'
      <4>1. x <= st
        BY <3>1, <1>2, <1>7, <2>1, <2>3
      <4>. QED BY <4>1, <1>8
    <3>2. ASSUME NEW x \in StageIds, x > build'.stage \/ (x = build'.stage /\ build'.placing = 0)
          PROVE  batches'[x] = <<>>
      <4>1. x > st
        BY <3>2, <1>7, <2>3
      <4>. QED BY <4>1, <1>1, <1>2 DEF BatchInv
    <3>. QED BY <3>1, <3>2, <2>3 DEF BatchInv, StageIds
  <2>. QED BY <1>4, <2>3, <2>4, <2>5, <2>6, <2>7 DEF SchedInv
<1>10. CASE ~(st < Len(Stages))
  <2>1. build' = NoBuild /\ built' = TRUE
    BY <1>10 DEF PlaceDone
  <2>2. build'.stage = 0 /\ build'.placing = 0
    BY <2>1 DEF NoBuild
  <2>3. \A x \in StageIds : x <= st
    BY <1>7, <1>10
  <2>4. SchedTypeOK'
    <3>1. NoBuild \in [stage : StageIds \cup {0}, ready : Seq(Systems), sorted : Seq(Systems),
                       degree : [Systems -> Nat] \cup {<<>>}, placing : Nat]
      BY DEF NoBuild
    <3>. QED BY <1>1, <1>2, <1>3, <2>1, <3>1 DEF SchedTypeOK
  <2>5. ModeInv' /\ SortInv'
    BY <1>1, <1>2, <2>1, <2>2 DEF ModeInv, SortInv
  <2>6. OrderInv'
    BY <1>8, <2>3 DEF OrderInv, StageIds
  <2>7. BatchInv'
    BY <1>8, <2>2, <2>3 DEF BatchInv, StageIds
  <2>. QED BY <1>4, <2>4, <2>5, <2>6, <2>7 DEF SchedInv
<1>. QED BY <1>9, <1>10

\* The steps of Execute() and SetFixedTimeStep() leave the plan alone.
LEMMA PlanKept ==
  ASSUME SchedInv, build.stage = 0,
         UNCHANGED <<systems, deps, syncPoints, built, order, batches, build>>
  PROVE  DepsInv' /\ SortInv' /\ OrderInv' /\ BatchInv'
<1>1. DepsInv /\ OrderInv /\ BatchInv
  BY DEF SchedInv
<1>2. Systems' = Systems /\ (\A x : InStage(x)' = InStage(x)) /\ \A k : Before(k)' = Before(k)
  BY DEF Systems, InStage, Before
<1>3. DepsInv' /\ SortInv'
  BY <1>1 DEF DepsInv, SortInv
<1>4. OrderInv'
  <2>. SUFFICES ASSUME NEW x \in StageIds, OrderDone(x)'
                PROVE  (IsInjective(order[x]) /\ ToSet(order[x]) = InStage(x) /\ Topological(order[x]))'
    BY DEF OrderInv
  <2>1. IsInjective(order[x]) /\ ToSet(order[x]) = InStage(x) /\ Topological(order[x])
    BY <1>1 DEF OrderInv, OrderDone
  <2>. QED BY <2>1, <1>2 DEF Topological
<1>5. BatchInv'
  <2>1. ASSUME NEW x PROVE Grouped(batches[x])' <=> Grouped(batches[x])
    BY <1>2 DEF Grouped, Conflict
  <2>. QED BY <2>1, <1>1 DEF BatchInv
<1>. QED BY <1>3, <1>4, <1>5

\* The groups of a sequential tick: one system each.
LEMMA Singletons ==
  ASSUME NEW S, NEW s \in Seq(S)
  PROVE  [k \in DOMAIN s |-> <<s[k]>>] \in Seq(Seq(S))
<1>1. DOMAIN s = 1..Len(s) /\ Len(s) \in Nat
  OBVIOUS
<1>2. ASSUME NEW k \in DOMAIN s PROVE <<s[k]>> \in Seq(S)
  OBVIOUS
<1>3. [k \in DOMAIN s |-> <<s[k]>>] \in [1..Len(s) -> Seq(S)]
  BY <1>1, <1>2
<1>. QED BY <1>1, <1>3

\* Execute(): every group is gone through after the one before it is done, and the time
\* of FixedUpdate is kept.
LEMMA ExecuteInv ==
  ASSUME SchedInv, ExecNext \/ \E step \in TimeSteps : SetFixedTimeStep(step)
  PROVE  SchedInv'
<1>1. /\ SchedTypeOK /\ ModeInv /\ ExecInv /\ FixedTimeKept
      /\ exec \in [stage : StageIds \cup {0}, at : Nat, running : SUBSET Systems,
                   done : SUBSET Systems, rounds : {0, 1}]
      /\ fixedTime \in [step : TimeSteps, sum : Nat] /\ elapsed \in [given : Nat, used : Nat, ticks : Nat]
      /\ \A step \in TimeSteps : step \in Nat
  BY SchedulerAssumption DEF SchedInv, SchedTypeOK
<1>2. /\ UNCHANGED <<systems, deps, syncPoints, built, order, batches, build>> /\ built /\ build.stage = 0
  <2>1. ASSUME NEW dt \in DeltaTimes, Execute(dt)
        PROVE  UNCHANGED <<systems, deps, syncPoints, built, order, batches, build>> /\ built /\ build.stage = 0
    BY <2>1 DEF Execute, IdleSched
  <2>2. ASSUME NEW step \in TimeSteps, SetFixedTimeStep(step)
        PROVE  UNCHANGED <<systems, deps, syncPoints, built, order, batches, build>> /\ built /\ build.stage = 0
    BY <2>2 DEF SetFixedTimeStep, IdleSched
  <2>3. CASE BeginGroup \/ EndStage
    BY <2>3, <1>1 DEF BeginGroup, EndStage, ModeInv
  <2>4. ASSUME NEW i \in Systems, FinishSystem(i)
        PROVE  UNCHANGED <<systems, deps, syncPoints, built, order, batches, build>> /\ built /\ build.stage = 0
    BY <2>4, <1>1 DEF FinishSystem, ModeInv, ExecInv
  <2>. QED BY <2>1, <2>2, <2>3, <2>4 DEF ExecNext
<1>3. DepsInv' /\ SortInv' /\ OrderInv' /\ BatchInv'
  BY <1>2, PlanKept
<1>4. Systems' = Systems
  BY <1>2 DEF Systems
<1>. DEFINE ExecType == [stage : StageIds \cup {0}, at : Nat, running : SUBSET Systems,
                         done : SUBSET Systems, rounds : {0, 1}]
<1>5. ASSUME exec' \in ExecType, parallel' \in BOOLEAN,
             fixedTime' \in [step : TimeSteps, sum : Nat], elapsed' \in [given : Nat, used : Nat, ticks : Nat],
             ExecInv', FixedTimeKept'
      PROVE  SchedInv'
  <2>1. SchedTypeOK'
    BY <1>1, <1>2, <1>4, <1>5 DEF SchedTypeOK
  <2>2. ModeInv'
    BY <1>1, <1>2, <1>4 DEF ModeInv
  <2>. QED BY <1>3, <1>5, <2>1, <2>2 DEF SchedInv
<1>6. /\ NoExec \in ExecType /\ NoExec.stage = 0 /\ NoExec.running = {} /\ NoExec.at = 0
      /\ \A x \in StageIds, n \in {0, 1} : \A e :
           e = [NoExec EXCEPT !.stage = x, !.at = 1, !.rounds = n] =>
             e \in ExecType /\ e.stage = x /\ e.at = 1 /\ e.running = {}
  <2>1. NoExec \in ExecType /\ NoExec.stage = 0 /\ NoExec.running = {} /\ NoExec.at = 0
    BY DEF NoExec
  <2>2. ASSUME NEW x \in StageIds, NEW n \in {0, 1}, NEW e,
               e = [NoExec EXCEPT !.stage = x, !.at = 1, !.rounds = n]
        PROVE  e \in ExecType /\ e.stage = x /\ e.at = 1 /\ e.running = {}
    <3>1. e = [stage |-> x, at |-> 1, running |-> {}, done |-> {}, rounds |-> n]
      BY <2>2 DEF NoExec
    <3>. QED BY <3>1
  <2>. HIDE DEF ExecType
  <2>. QED BY <2>1, <2>2
<1>. HIDE DEF ExecType
<1>7. ASSUME exec' = NoExec \/ \E x \in StageIds, n \in {0, 1} :
                                 exec' = [NoExec EXCEPT !.stage = x, !.at = 1, !.rounds = n]
      PROVE  exec' \in ExecType /\ ExecInv'
  <2>1. CASE exec' = NoExec
    BY <1>6, <2>1 DEF ExecInv
  <2>2. CASE \E x \in StageIds, n \in {0, 1} :
               exec' = [NoExec EXCEPT !.stage = x, !.at = 1, !.rounds = n]
    <3>1. exec' \in ExecType /\ exec'.at = 1 /\ exec'.running = {} /\ exec'.stage \in StageIds
      <4>1. PICK x \in StageIds, n \in {0, 1} : exec' = [NoExec EXCEPT !.stage = x, !.at = 1, !.rounds = n]
        BY <2>2
      <4>2. exec' \in ExecType /\ exec'.stage = x /\ exec'.at = 1 /\ exec'.running = {}
        BY <1>6, <4>1
      <4>. QED BY <4>2
    <3>2. \A k \in DOMAIN Groups(exec.stage)' : ~(k < exec'.at - 1)
      <4>1. ASSUME NEW s \in Seq(Seq(Systems)), NEW k \in DOMAIN s PROVE ~(k < 0)
        OBVIOUS
      <4>2. ASSUME exec'.stage \in StageIds PROVE Groups(exec.stage)' \in Seq(Seq(Systems))
        <5>1. batches'[exec'.stage] \in Seq(Seq(Systems)) /\ order'[exec'.stage] \in Seq(Systems)
          BY <1>1, <1>2, <4>2 DEF SchedTypeOK
        <5>2. [k \in DOMAIN order'[exec'.stage] |-> <<order'[exec'.stage][k]>>] \in Seq(Seq(Systems))
          BY <5>1, Singletons
        <5>. QED BY <5>1, <5>2 DEF Groups
      <4>. QED BY <4>1, <4>2, <3>1
    <3>. QED BY <3>1, <3>2 DEF ExecInv
  <2>. QED BY <1>7, <2>1, <2>2
<1>8. ASSUME NEW dt \in DeltaTimes, Execute(dt) PROVE SchedInv'
  <2>. DEFINE more == IF FixedStage /\ order[LastStage] # <<>> THEN dt ELSE 0
  <2>1. /\ parallel' \in BOOLEAN
        /\ exec' = [NoExec EXCEPT !.stage = 1, !.at = 1, !.rounds = IF Fixed(1) THEN 0 ELSE 1]
        /\ fixedTime' = [fixedTime EXCEPT !.sum = @ + more]
        /\ elapsed' = [elapsed EXCEPT !.given = @ + more, !.ticks = @ + 1]
    BY <1>8 DEF Execute
  <2>2. more \in Nat
    BY SchedulerAssumption
  <2>. HIDE DEF more
  <2>3. /\ fixedTime' \in [step : TimeSteps, sum : Nat] /\ elapsed' \in [given : Nat, used : Nat, ticks : Nat]
        /\ FixedTimeKept'
    <3>1. fixedTime.sum \in Nat /\ elapsed.given \in Nat /\ elapsed.used \in Nat /\ elapsed.ticks \in Nat
      BY <1>1
    <3>2. fixedTime.sum + more \in Nat /\ elapsed.given + more \in Nat /\ elapsed.ticks + 1 \in Nat
      BY <2>2, <3>1
    <3>3. fixedTime' \in [step : TimeSteps, sum : Nat] /\ fixedTime'.sum = fixedTime.sum + more
      BY <1>1, <2>1, <3>2
    <3>4. /\ elapsed' \in [given : Nat, used : Nat, ticks : Nat] /\ elapsed'.given = elapsed.given + more
          /\ elapsed'.used = elapsed.used
      BY <1>1, <2>1, <3>2
    <3>. QED BY <1>1, <2>2, <3>1, <3>3, <3>4 DEF FixedTimeKept
  <2>4. 1 \in StageIds /\ (IF Fixed(1) THEN 0 ELSE 1) \in {0, 1}
    BY StageNumbers
  <2>5. exec' \in ExecType /\ ExecInv'
    BY <1>7, <2>1, <2>4, Zenon
  <2>. QED BY <1>5, <2>1, <2>3, <2>5
<1>9. ASSUME NEW step \in TimeSteps, SetFixedTimeStep(step) PROVE SchedInv'
  <2>1. fixedTime' = [fixedTime EXCEPT !.step = step] /\ UNCHANGED <<parallel, exec, elapsed>> /\ exec.stage = 0
    BY <1>9 DEF SetFixedTimeStep, IdleSched
  <2>2. fixedTime' \in [step : TimeSteps, sum : Nat] /\ FixedTimeKept'
    BY <1>1, <2>1 DEF FixedTimeKept
  <2>3. ExecInv'
    BY <1>1, <2>1 DEF ExecInv
  <2>. QED BY <1>1, <1>5, <2>1, <2>2, <2>3 DEF SchedTypeOK, ExecType
<1>10. CASE BeginGroup
  <2>. DEFINE g == Groups(exec.stage)
  <2>1. /\ exec.stage # 0 /\ exec.running = {} /\ exec.at <= Len(g)
        /\ exec' = [exec EXCEPT !.at = @ + 1, !.running = Enabled(g[exec.at])]
        /\ UNCHANGED <<parallel, fixedTime, elapsed>>
    BY <1>10 DEF BeginGroup
  <2>2. exec.stage \in StageIds /\ g \in Seq(Seq(Systems))
    <3>1. exec.stage \in StageIds
      BY <1>1, <2>1
    <3>2. batches[exec.stage] \in Seq(Seq(Systems)) /\ order[exec.stage] \in Seq(Systems)
      BY <1>1, <3>1 DEF SchedTypeOK
    <3>3. [k \in DOMAIN order[exec.stage] |-> <<order[exec.stage][k]>>] \in Seq(Seq(Systems))
      BY <3>2, Singletons
    <3>. QED BY <3>1, <3>2, <3>3 DEF Groups
  <2>3. /\ exec.at >= 1 /\ exec.at \in Nat
        /\ \A k \in DOMAIN g : k < exec.at - 1 => Enabled(g[k]) \subseteq exec.done
        /\ exec.at > 1 => Enabled(g[exec.at - 1]) \subseteq exec.running \cup exec.done
    BY <1>1, <2>1 DEF ExecInv
  <2>4. Groups(exec.stage)' = g /\ \A x : Enabled(x)' = Enabled(x)
    BY <1>1, <1>2, <2>1 DEF Groups, Enabled
  <2>5. exec.at \in DOMAIN g /\ DOMAIN g = 1..Len(g)
    BY <2>1, <2>2, <2>3
  <2>6. Enabled(g[exec.at]) \subseteq Systems
    <3>1. g[exec.at] \in Seq(Systems)
      BY <2>2, <2>5
    <3>2. ToSet(g[exec.at]) \subseteq Systems
      BY <3>1 DEF ToSet
    <3>. QED BY <3>2 DEF Enabled
  <2>. HIDE DEF g
  <2>7. /\ exec' \in ExecType /\ exec'.at = exec.at + 1 /\ exec'.running = Enabled(g[exec.at])
        /\ exec'.done = exec.done /\ exec'.stage = exec.stage
    <3>1. exec.at + 1 \in Nat
      BY <2>3
    <3>. QED BY <1>1, <2>1, <2>6, <3>1 DEF ExecType
  <2>8. ASSUME NEW k \in DOMAIN g, k < exec'.at - 1 PROVE Enabled(g[k]) \subseteq exec.done
    <3>1. k \in Nat /\ k >= 1
      BY <2>5
    <3>2. CASE k < exec.at - 1
      BY <3>2, <2>3
    <3>3. CASE k = exec.at - 1
      BY <3>1, <3>3, <2>1, <2>3
    <3>. QED BY <3>1, <3>2, <3>3, <2>3, <2>7, <2>8
  <2>9. ExecInv'
    <3>1. exec'.at >= 1 /\ exec'.at # 1 /\ exec'.at - 1 = exec.at /\ exec'.stage # 0
      BY <2>1, <2>3, <2>7
    <3>. QED BY <2>4, <2>5, <2>7, <2>8, <3>1 DEF ExecInv
  <2>. QED BY <1>1, <1>5, <2>1, <2>7, <2>9 DEF SchedTypeOK, FixedTimeKept
<1>11. ASSUME NEW i \in Systems, FinishSystem(i) PROVE SchedInv'
  <2>1. /\ i \in exec.running
        /\ exec' = [exec EXCEPT !.running = @ \ {i}, !.done = @ \cup {i}]
        /\ UNCHANGED <<parallel, fixedTime, elapsed>>
    BY <1>11 DEF FinishSystem
  <2>2. /\ exec' \in ExecType /\ exec'.running = exec.running \ {i} /\ exec'.done = exec.done \cup {i}
        /\ exec'.at = exec.at /\ exec'.stage = exec.stage
    BY <1>1, <2>1 DEF ExecType
  <2>3. Groups(exec.stage)' = Groups(exec.stage) /\ \A x : Enabled(x)' = Enabled(x)
    BY <1>2, <2>1, <2>2 DEF Groups, Enabled
  <2>4. exec.stage # 0 /\ exec.at # 1
    BY <1>1, <2>1 DEF ExecInv
  <2>5. ExecInv'
    BY <1>1, <2>2, <2>3, <2>4 DEF ExecInv
  <2>. QED BY <1>1, <1>5, <2>1, <2>2, <2>5 DEF SchedTypeOK, FixedTimeKept
<1>12. CASE EndStage
  <2>1. exec.stage \in StageIds /\ UNCHANGED parallel
    BY <1>1, <1>12 DEF EndStage
  <2>2. CASE /\ RoundDue(exec.stage) /\ fixedTime' = UseFixed
             /\ elapsed' = [elapsed EXCEPT !.used = @ + fixedTime.step]
             /\ exec' = [NoExec EXCEPT !.stage = exec.stage, !.at = 1, !.rounds = 1]
    <3>1. fixedTime.sum >= fixedTime.step /\ fixedTime' = [fixedTime EXCEPT !.sum = @ - fixedTime.step]
      BY <2>2 DEF RoundDue, UseFixed
    <3>2. /\ fixedTime' \in [step : TimeSteps, sum : Nat]
          /\ elapsed' \in [given : Nat, used : Nat, ticks : Nat] /\ FixedTimeKept'
      <4>1. fixedTime.sum \in Nat /\ fixedTime.step \in Nat /\ elapsed.given \in Nat /\ elapsed.used \in Nat
        BY <1>1
      <4>2. fixedTime.sum - fixedTime.step \in Nat /\ elapsed.used + fixedTime.step \in Nat
        BY <4>1, <3>1
      <4>3. fixedTime' \in [step : TimeSteps, sum : Nat] /\ fixedTime'.sum = fixedTime.sum - fixedTime.step
        BY <1>1, <3>1, <4>2
      <4>4. /\ elapsed' \in [given : Nat, used : Nat, ticks : Nat] /\ elapsed'.given = elapsed.given
            /\ elapsed'.used = elapsed.used + fixedTime.step
        BY <1>1, <2>2, <4>2
      <4>. QED BY <1>1, <4>1, <4>3, <4>4 DEF FixedTimeKept
    <3>3. exec' \in ExecType /\ ExecInv'
      BY <1>7, <2>1, <2>2
    <3>. QED BY <1>1, <1>5, <2>1, <3>2, <3>3 DEF SchedTypeOK
  <2>3. CASE /\ exec' = IF exec.stage = LastStage THEN NoExec
                        ELSE [NoExec EXCEPT !.stage = exec.stage + 1, !.at = 1,
                                            !.rounds = IF Fixed(exec.stage + 1) THEN 0 ELSE 1]
             /\ UNCHANGED <<fixedTime, elapsed>>
    <3>1. exec.stage # LastStage => exec.stage + 1 \in StageIds
      BY <2>1, StageNumbers DEF LastStage
    <3>2. (IF Fixed(exec.stage + 1) THEN 0 ELSE 1) \in {0, 1}
      OBVIOUS
    <3>3. exec' = NoExec \/ \E x \in StageIds, n \in {0, 1} :
                              exec' = [NoExec EXCEPT !.stage = x, !.at = 1, !.rounds = n]
      BY <2>3, <3>1, <3>2, Zenon
    <3>4. exec' \in ExecType /\ ExecInv'
      BY <1>7, <3>3
    <3>. QED BY <1>1, <1>5, <2>1, <2>3, <3>4 DEF SchedTypeOK, FixedTimeKept
  <2>. QED BY <1>12, <2>2, <2>3 DEF EndStage
<1>. QED BY <1>8, <1>9, <1>10, <1>11, <1>12 DEF ExecNext

\* Kahn's loop sorts a stage completely exactly if its dependencies have no cycle, and
\* the plan keeps them.
LEMMA PlanFollows ==
  ASSUME SchedInv
  PROVE  PlanRespectsDependencies
<1>1. SchedTypeOK /\ DepsInv /\ SortInv /\ OrderInv
  BY DEF SchedInv
<1>2. ASSUME built, NEW st \in StageIds
      PROVE  /\ IsInjective(order[st]) /\ ToSet(order[st]) = InStage(st)
             /\ \A a, b \in DOMAIN order[st] : <<order[st][a], order[st][b]>> \in deps => a < b
  <2>. DEFINE s == order[st]
  <2>1. IsInjective(s) /\ ToSet(s) = InStage(st) /\ Topological(s)
    BY <1>1, <1>2 DEF OrderInv, OrderDone
  <2>2. s \in Seq(Systems)
    BY <1>1 DEF SchedTypeOK
  <2>. HIDE DEF s
  <2>3. ASSUME NEW a \in DOMAIN s, NEW b \in DOMAIN s, <<s[a], s[b]>> \in deps PROVE a < b
    <3>1. s[a] \in Before(s[b])
      BY <1>1, <2>3, Neighbours
    <3>2. PICK c \in 1..(b - 1) : s[c] = s[a]
      BY <2>1, <3>1 DEF Topological
    <3>3. DOMAIN s = 1..Len(s) /\ Len(s) \in Nat
      BY <2>2
    <3>4. c \in DOMAIN s /\ c < b
      BY <3>3
    <3>5. c = a
      BY <2>1, <3>2, <3>4 DEF IsInjective
    <3>. QED BY <3>4, <3>5
  <2>. QED BY <2>1, <2>3 DEF s
<1>3. ASSUME build.stage # 0, build.placing = 0, build.ready = <<>>
      PROVE  Len(build.sorted) = Cardinality(InStage(build.stage)) <=> ~Cyclic(InStage(build.stage))
  <2>. DEFINE s == build.sorted
              all == InStage(build.stage)
  <2>1. /\ s \in Seq(Systems) /\ ToSet(s) \subseteq all /\ IsInjective(s) /\ Topological(s)
        /\ \A i \in Systems : build.degree[i] = Cardinality(Before(i) \ ToSet(s))
        /\ \A i \in all : build.degree[i] = 0 => i \in ToSet(s)
    <3>1. ToSet(build.ready) = {}
      BY <1>3 DEF ToSet
    <3>2. build.sorted \in Seq(Systems)
      BY <1>1 DEF SchedTypeOK
    <3>. QED BY <1>1, <1>3, <3>1, <3>2 DEF SortInv
  <2>2. IsFiniteSet(ToSet(s)) /\ Cardinality(ToSet(s)) = Len(s)
    BY <2>1, InjectiveLength
  <2>3. all \subseteq Systems /\ IsFiniteSet(all) /\ \A i : Before(i) \subseteq Systems
    BY <1>1, FinitelyMany
  <2>4. DOMAIN s = 1..Len(s) /\ Len(s) \in Nat
    BY <2>1
  <2>5. \A p, i : p \in Before(i) => systems[p].stage = systems[i].stage
    <3>1. ASSUME NEW p, NEW i, p \in Before(i) PROVE systems[p].stage = systems[i].stage
      <4>1. <<p, i>> \in deps
        BY <1>1, <3>1, Neighbours
      <4>2. systems[<<p, i>>[1]].stage = systems[<<p, i>>[2]].stage
        BY <1>1, <4>1 DEF DepsInv
      <4>. QED BY <4>2
    <3>. QED BY <3>1
  <2>6. \A i : i \in all <=> i \in Systems /\ systems[i].stage = build.stage
    BY DEF InStage
  <2>. HIDE DEF s, all
  <2>7. Len(s) = Cardinality(all) <=> ToSet(s) = all
    BY <2>1, <2>2, <2>3, FS_Subset
  <2>8. ASSUME ToSet(s) = all, Cyclic(all) PROVE FALSE
    <3>1. PICK c \in SUBSET all : c # {} /\ \A i \in c : Before(i) \cap c # {}
      BY <2>8 DEF Cyclic
    <3>2. PICK i \in c : TRUE
      BY <3>1
    <3>. DEFINE T == {k \in DOMAIN s : s[k] \in c}
    <3>3. T \in SUBSET Nat
      BY <2>4
    <3>4. T # {}
      BY <2>8, <3>2 DEF ToSet
    <3>5. PICK k \in T : \A l \in T : k <= l
      BY <3>3, <3>4, LeastOf
    <3>6. k \in DOMAIN s /\ s[k] \in c
      BY <3>5
    <3>7. PICK p \in Before(s[k]) : p \in c
      BY <3>1, <3>6
    <3>8. PICK a \in 1..(k - 1) : s[a] = p
      BY <2>1, <3>6, <3>7 DEF Topological
    <3>9. a \in DOMAIN s /\ a < k
      BY <2>4, <3>6
    <3>10. a \in T
      BY <3>7, <3>8, <3>9
    <3>11. k <= a
      BY <3>5, <3>10
    <3>. QED BY <2>4, <3>6, <3>9, <3>11
  <2>9. ASSUME ToSet(s) # all PROVE Cyclic(all)
    <3>. DEFINE c == all \ ToSet(s)
    <3>1. c \in SUBSET all /\ c # {}
      BY <2>1, <2>9
    <3>2. ASSUME NEW i \in c PROVE Before(i) \cap c # {}
      <4>1. i \in Systems /\ Cardinality(Before(i) \ ToSet(s)) # 0
        BY <2>1, <2>3
      <4>2. Before(i) \ ToSet(s) # {}
        BY <4>1, FS_EmptySet
      <4>3. PICK p \in Before(i) : p \notin ToSet(s)
        BY <4>2
      <4>4. p \in all
        BY <2>3, <2>5, <2>6, <4>3
      <4>. QED BY <4>3, <4>4
    <3>. QED BY <3>1, <3>2 DEF Cyclic
  <2>10. Len(s) = Cardinality(all) <=> ~Cyclic(all)
    BY <2>7, <2>8, <2>9
  <2>. QED BY <2>10 DEF s, all
<1>. QED BY <1>2, <1>3 DEF PlanRespectsDependencies

\* The groups that Execute() goes through are those of the plan, in either mode.
LEMMA GroupsGrouped ==
  ASSUME SchedInv, built, NEW st \in StageIds
  PROVE  Grouped(Groups(st))
<1>1. SchedTypeOK /\ OrderInv /\ BatchInv
  BY DEF SchedInv
<1>2. CASE parallel
  BY <1>1, <1>2 DEF BatchInv, Groups
<1>3. CASE ~parallel
  <2>. DEFINE s == order[st]
              g == [k \in DOMAIN s |-> <<s[k]>>]
  <2>1. Groups(st) = g
    BY <1>3 DEF Groups
  <2>2. Topological(s) /\ s \in Seq(Systems)
    BY <1>1 DEF OrderInv, OrderDone, SchedTypeOK
  <2>3. DOMAIN g = DOMAIN s /\ DOMAIN s = 1..Len(s) /\ Len(s) \in Nat
    BY <2>2
  <2>4. \A k \in DOMAIN s : ToSet(g[k]) = {s[k]}
    <3>1. ASSUME NEW x PROVE ToSet(<<x>>) = {x}
      BY DEF ToSet
    <3>2. \A k \in DOMAIN s : g[k] = <<s[k]>>
      OBVIOUS
    <3>. QED BY <3>1, <3>2
  <2>. HIDE DEF g, s
  <2>5. ASSUME NEW k \in DOMAIN g, NEW i \in ToSet(g[k])
        PROVE  /\ \A j \in ToSet(g[k]) : i # j => ~Conflict(i, j)
               /\ \A p \in Before(i) : \E l \in 1..(k - 1) : p \in ToSet(g[l])
    <3>1. i = s[k] /\ \A j \in ToSet(g[k]) : j = i
      BY <2>3, <2>4
    <3>2. ASSUME NEW p \in Before(i) PROVE \E l \in 1..(k - 1) : p \in ToSet(g[l])
      <4>1. PICK l \in 1..(k - 1) : s[l] = p
        BY <2>2, <2>3, <3>1 DEF Topological
      <4>2. l \in DOMAIN s
        BY <2>3
      <4>. QED BY <2>4, <4>1, <4>2
    <3>. QED BY <3>1, <3>2
  <2>. QED BY <2>1, <2>5 DEF Grouped
<1>. QED BY <1>2, <1>3

\* Execute() runs together only what may, behind what it depends on.
LEMMA RunFollows ==
  ASSUME SchedInv
  PROVE  ExecutionSound
<1>1. SchedTypeOK /\ ModeInv /\ ExecInv /\ FixedTimeKept
  BY DEF SchedInv
<1>2. ASSUME NEW i \in exec.running
      PROVE  /\ \A j \in exec.running : i # j => ~Conflict(i, j)
             /\ \A p \in Before(i) : systems[p].enabled => p \in exec.done
  <2>. DEFINE g == Groups(exec.stage)
              k == exec.at - 1
  <2>1. exec.stage # 0
    BY <1>1, <1>2 DEF ExecInv
  <2>2. exec.stage \in StageIds /\ built /\ exec.at \in Nat
    BY <1>1, <2>1 DEF SchedTypeOK, ModeInv
  <2>3. /\ exec.at >= 1 /\ exec.at # 1
        /\ \A l \in DOMAIN g : l < k => Enabled(g[l]) \subseteq exec.done
    BY <1>1, <1>2, <2>1 DEF ExecInv
  <2>4. exec.at > 1
    BY <2>2, <2>3
  <2>5. k \in DOMAIN g /\ exec.running \subseteq Enabled(g[k])
    BY <1>1, <2>1, <2>4 DEF ExecInv
  <2>6. Grouped(g)
    BY <2>2, GroupsGrouped
  <2>7. g \in Seq(Seq(Systems))
    <3>1. batches[exec.stage] \in Seq(Seq(Systems)) /\ order[exec.stage] \in Seq(Systems)
      BY <1>1, <2>2 DEF SchedTypeOK
    <3>2. [x \in DOMAIN order[exec.stage] |-> <<order[exec.stage][x]>>] \in Seq(Seq(Systems))
      BY <3>1, Singletons
    <3>. QED BY <3>1, <3>2 DEF Groups
  <2>8. k \in Nat
    BY <2>2, <2>4
  <2>9. DOMAIN g = 1..Len(g) /\ Len(g) \in Nat
    BY <2>7
  <2>. HIDE DEF g, k
  <2>10. exec.running \subseteq ToSet(g[k])
    BY <2>5 DEF Enabled
  <2>11. ASSUME NEW p \in Before(i), systems[p].enabled PROVE p \in exec.done
    <3>1. PICK l \in 1..(k - 1) : p \in ToSet(g[l])
      BY <2>5, <2>6, <2>10 DEF Grouped
    <3>2. l \in DOMAIN g /\ l < k
      BY <2>5, <2>8, <2>9
    <3>3. p \in Enabled(g[l])
      BY <2>11, <3>1 DEF Enabled
    <3>. QED BY <2>3, <3>2, <3>3
  <2>12. ASSUME NEW j \in exec.running, i # j PROVE ~Conflict(i, j)
    BY <2>5, <2>6, <2>10, <2>12 DEF Grouped
  <2>. QED BY <2>11, <2>12
<1>. QED BY <1>1, <1>2 DEF ExecutionSound, NoConflictAtRun

\* The scheduler begins in order.
LEMMA SchedBegins == SchedInit => SchedInv
<1>. SUFFICES ASSUME SchedInit PROVE SchedInv
  OBVIOUS
<1>1. Systems = {} /\ NoPlan \in [StageIds -> Seq(Systems)] /\ NoPlan \in [StageIds -> Seq(Seq(Systems))]
  BY DEF SchedInit, Systems, NoPlan
<1>2. /\ NoBuild \in [stage : StageIds \cup {0}, ready : Seq(Systems), sorted : Seq(Systems),
                      degree : [Systems -> Nat] \cup {<<>>}, placing : Nat]
      /\ NoExec \in [stage : StageIds \cup {0}, at : Nat, running : SUBSET Systems,
                     done : SUBSET Systems, rounds : {0, 1}]
  BY DEF NoBuild, NoExec
<1>3. fixedTime \in [step : TimeSteps, sum : Nat] /\ fixedTime.sum = 0
  BY DEF SchedInit
<1>4. SchedTypeOK
  <2>1. /\ systems = <<>> /\ deps = {} /\ syncPoints = {} /\ built = FALSE /\ parallel = FALSE
        /\ order = NoPlan /\ batches = NoPlan /\ build = NoBuild /\ exec = NoExec
    BY DEF SchedInit
  <2>2. elapsed \in [given : Nat, used : Nat, ticks : Nat]
    BY DEF SchedInit
  <2>3. systems \in Seq(SystemRecord)
    BY <2>1
  <2>4. built \in BOOLEAN /\ parallel \in BOOLEAN
    BY <2>1
  <2>. QED BY <1>1, <1>2, <1>3, <2>1, <2>2, <2>3, <2>4 DEF SchedTypeOK
<1>5. FixedTimeKept
  BY <1>3 DEF SchedInit, FixedTimeKept
<1>6. build = NoBuild /\ build.stage = 0 /\ exec.stage = 0 /\ exec.running = {} /\ ~built /\ deps = {}
  BY DEF SchedInit, NoBuild, NoExec
<1>7. \A x \in StageIds : x \in Nat /\ x > 0
  BY StageNumbers
<1>8. DepsInv /\ ModeInv /\ SortInv /\ ExecInv
  BY <1>6 DEF DepsInv, ModeInv, SortInv, ExecInv
<1>9. OrderInv /\ BatchInv
  BY <1>6, <1>7 DEF OrderInv, OrderDone, BatchInv
<1>. QED BY <1>4, <1>5, <1>8, <1>9 DEF SchedInv

\* Every step of the scheduler keeps it.
LEMMA SchedStep == SchedInv /\ [SchedNext]_schedVars => SchedInv'
<1>. SUFFICES ASSUME SchedInv, [SchedNext]_schedVars PROVE SchedInv'
  OBVIOUS
<1>1. CASE BuildNext
  BY <1>1, BuildInv, RoundInv, PlaceDoneInv DEF BuildNext
<1>2. CASE ExecNext
  BY <1>2, ExecuteInv
<1>3. CASE \E st \in StageIds, access \in AccessPatterns : Register(st, access)
  BY <1>3, RegisterInv
<1>4. CASE \E i, j \in Systems : AddDependency(i, j)
  BY <1>4, DeclareInv
<1>5. CASE \E i \in Systems : AddSyncPoint(i) \/ SetEnabled(i)
  BY <1>5, DeclareInv, SetEnabledInv
<1>6. CASE \E step \in TimeSteps : SetFixedTimeStep(step)
  BY <1>6, ExecuteInv
<1>7. CASE UNCHANGED schedVars
  <2>1. /\ UNCHANGED <<systems, deps, syncPoints, built, order, batches, build>>
        /\ UNCHANGED <<parallel, exec, fixedTime, elapsed>>
    BY <1>7 DEF schedVars
  <2>2. Systems' = Systems /\ (\A x : InStage(x)' = InStage(x)) /\ \A k : Before(k)' = Before(k)
    BY <2>1 DEF Systems, InStage, Before
  <2>3. (\A x : Topological(x)' = Topological(x)) /\ (\A x : Grouped(x)' = Grouped(x))
    BY <2>1, <2>2 DEF Topological, Grouped, Conflict
  <2>4. SchedTypeOK' = SchedTypeOK
    BY <2>1, <2>2 DEF SchedTypeOK
  <2>5. DepsInv' = DepsInv /\ ModeInv' = ModeInv /\ FixedTimeKept' = FixedTimeKept
    BY <2>1, <2>2 DEF DepsInv, ModeInv, FixedTimeKept
  <2>6. SortInv' = SortInv
    BY <2>1, <2>2, <2>3 DEF SortInv
  <2>7. OrderInv' = OrderInv /\ BatchInv' = BatchInv
    BY <2>1, <2>2, <2>3 DEF OrderInv, OrderDone, BatchInv
  <2>8. ExecInv' = ExecInv
    BY <2>1 DEF ExecInv, Groups, Enabled
  <2>. QED BY <2>4, <2>5, <2>6, <2>7, <2>8 DEF SchedInv
<1>. QED BY <1>1, <1>2, <1>3, <1>4, <1>5, <1>6, <1>7 DEF SchedNext

\* The scheduler's tables name registered systems, whatever is registered, declared and run.
THEOREM SchedTypeCorrect == SchedSpec => []SchedTypeOK
<1>1. SchedInv => SchedTypeOK
  BY DEF SchedInv
<1>. QED BY <1>1, SchedBegins, SchedStep, PTL DEF SchedSpec

\* PlanRespectsDependencies, for any number of systems, stages and dependencies: Build()
\* finds a plan exactly when there is no cycle, and the plan has every system of a stage
\* once, behind those it depends on.
THEOREM PlanSorted == SchedSpec => []PlanRespectsDependencies
<1>1. SchedInv => PlanRespectsDependencies
  BY PlanFollows
<1>. QED BY <1>1, SchedBegins, SchedStep, PTL DEF SchedSpec

\* ExecutionSound, in parallel and one by one, whatever is enabled between two ticks:
\* systems that run together share no data, each starts after those it depends on, and
\* FixedUpdate uses exactly the time it was given.
THEOREM TicksSound == SchedSpec => []ExecutionSound
<1>1. SchedInv => ExecutionSound
  BY RunFollows
<1>. QED BY <1>1, SchedBegins, SchedStep, PTL DEF SchedSpec

(***************************************************************************)
(* EntityManager: numbers.                                                 *)
(***************************************************************************)

\* A remainder is a version.
LEMMA Versions ==
  ASSUME NEW n \in Int
  PROVE  n % VersionCount \in 0..(VersionCount - 1)
BY EntityAssumption

\* A number is so many rounds and its remainder, and nothing else is its remainder.
LEMMA Rounds ==
  ASSUME NEW V \in Nat \ {0}, NEW a \in Nat
  PROVE  \E d \in Nat : \E m \in 0..(V - 1) : m = a % V /\ a = V * d + m
<1>1. a \div V \in Nat /\ a % V \in 0..(V - 1)
  OBVIOUS
<1>2. PICK d \in Nat, m \in 0..(V - 1) : m = a % V /\ d = a \div V
  BY <1>1, Zenon
<1>3. a = V * d + m
  BY <1>2
<1>. QED BY <1>2, <1>3

\* The remainder of rounds and a rest below the round is the rest.
LEMMA Remainder ==
  ASSUME NEW V \in Nat \ {0}, NEW a \in Nat, NEW d \in Nat, NEW m \in 0..(V - 1), a = V * d + m
  PROVE  a % V = m
OBVIOUS

\* Two generations with the same version are the same or a whole round apart.
LEMMA RoundApart ==
  ASSUME NEW a \in Nat, NEW b \in Nat, a <= b, a % VersionCount = b % VersionCount
  PROVE  a = b \/ b - a >= VersionCount
<1>1. VersionCount \in Nat \ {0}
  BY EntityAssumption
<1>2. PICK p \in Nat, r \in 0..(VersionCount - 1) : r = a % VersionCount /\ a = VersionCount * p + r
  BY <1>1, Rounds
<1>3. PICK q \in Nat, s \in 0..(VersionCount - 1) : s = b % VersionCount /\ b = VersionCount * q + s
  BY <1>1, Rounds
<1>4. r = s
  BY <1>2, <1>3
<1>5. ASSUME NEW V \in Nat \ {0}, V * p + r <= V * q + r
      PROVE  V * p + r = V * q + r \/ (V * q + r) - (V * p + r) >= V
  <2>1. CASE p = q
    BY <2>1
  <2>2. CASE q > p
    <3>1. PICK d \in Nat : q = p + d /\ d >= 1
      <4>1. q - p \in Nat /\ q = p + (q - p) /\ q - p >= 1
        BY <2>2
      <4>. QED BY <4>1
    <3>2. V * q = V * p + V * d /\ V * d >= V
      BY <1>5, <3>1
    <3>. QED BY <3>2
  <2>3. CASE q < p
    <3>1. PICK d \in Nat : p = q + d /\ d >= 1
      <4>1. p - q \in Nat /\ p = q + (p - q) /\ p - q >= 1
        BY <2>3
      <4>. QED BY <4>1
    <3>2. V * p = V * q + V * d /\ V * d >= V
      BY <1>5, <3>1
    <3>. QED BY <1>5, <3>2
  <2>. QED BY <2>1, <2>2, <2>3
<1>6. a = VersionCount * p + r /\ b = VersionCount * q + r
  BY <1>2, <1>3, <1>4
<1>. HIDE <1>2, <1>3
<1>. QED BY <1>1, <1>5, <1>6, Zenon

\* The next version is that of the next generation.
LEMMA NextVersion ==
  ASSUME NEW n \in Nat
  PROVE  ((n % VersionCount) + 1) % VersionCount = (n + 1) % VersionCount
<1>1. VersionCount \in Nat \ {0}
  BY EntityAssumption
<1>2. PICK d \in Nat, r \in 0..(VersionCount - 1) : r = n % VersionCount /\ n = VersionCount * d + r
  BY <1>1, Rounds
<1>4. ASSUME NEW V \in Nat \ {0}, NEW m \in 0..(V - 1), n = V * d + m
      PROVE  (m + 1) % V = (n + 1) % V
  <2>1. CASE m + 1 < V
    <3>1. n + 1 = V * d + (m + 1) /\ m + 1 \in 0..(V - 1) /\ n + 1 \in Nat
      BY <1>4, <2>1
    <3>2. (n + 1) % V = m + 1
      BY <3>1, Remainder
    <3>3. (m + 1) % V = m + 1
      BY <2>1
    <3>. QED BY <3>2, <3>3
  <2>2. CASE m + 1 = V
    <3>1. n + 1 = V * (d + 1) + 0 /\ d + 1 \in Nat /\ 0 \in 0..(V - 1) /\ n + 1 \in Nat
      BY <1>4, <2>2
    <3>2. (n + 1) % V = 0
      BY <3>1, Remainder
    <3>3. V % V = 0
      OBVIOUS
    <3>. QED BY <2>2, <3>2, <3>3
  <2>. QED BY <2>1, <2>2
<1>5. (r + 1) % VersionCount = (n + 1) % VersionCount
  BY <1>1, <1>2, <1>4
<1>. QED BY <1>2, <1>5

(***************************************************************************)
(* EntityManager: a storage.                                               *)
(***************************************************************************)

\* Two entries of a function changed.
LEMMA TwoChanged ==
  ASSUME NEW f \in [EntityIds -> Nat], NEW a \in EntityIds, NEW b \in EntityIds, NEW v \in Nat,
         NEW g, g = [f EXCEPT ![a] = v, ![b] = 0]
  PROVE  /\ g \in [EntityIds -> Nat] /\ g[b] = 0
         /\ \A j \in EntityIds : j # b => g[j] = IF j = a THEN v ELSE f[j]
OBVIOUS

\* Add() keeps a storage well formed and gives one entity a component.
LEMMA StorageAdd ==
  ASSUME NEW st \in StorageRecord, WellFormed(st), NEW id \in EntityIds, ~Has(st, id),
         NEW c \in Component, c.id = id
  PROVE  /\ Add(st, id, c) \in StorageRecord /\ WellFormed(Add(st, id, c))
         /\ \A j \in EntityIds : Has(Add(st, id, c), j) <=> j = id \/ Has(st, j)
         /\ Add(st, id, c).version = st.version + 1
<1>. DEFINE r == Add(st, id, c)
            n == Len(st.dense)
            d == Append(st.dense, c)
            e == Append(st.entities, id)
            p == [st.sparse EXCEPT ![id] = n + 1]
<1>1. /\ st.dense \in Seq(Component) /\ st.entities \in Seq(EntityIds)
      /\ st.sparse \in [EntityIds -> Nat] /\ st.version \in Nat
      /\ n \in Nat /\ Len(st.entities) = n
  BY DEF StorageRecord, WellFormed
<1>2. r = [dense |-> d, entities |-> e, sparse |-> p, version |-> st.version + 1]
  BY DEF Add
<1>3. /\ d \in Seq(Component) /\ e \in Seq(EntityIds) /\ Len(d) = n + 1 /\ Len(e) = n + 1
      /\ DOMAIN d = 1..(n + 1) /\ DOMAIN st.dense = 1..n
      /\ \A i \in 1..n : d[i] = st.dense[i] /\ e[i] = st.entities[i]
      /\ d[n + 1] = c /\ e[n + 1] = id
  BY <1>1
<1>4. /\ p \in [EntityIds -> Nat] /\ p[id] = n + 1
      /\ \A j \in EntityIds : j # id => p[j] = st.sparse[j]
  BY <1>1
<1>. HIDE DEF r, n, d, e, p
<1>5. r \in StorageRecord /\ r.dense = d /\ r.entities = e /\ r.sparse = p /\ r.version = st.version + 1
  BY <1>1, <1>2, <1>3, <1>4 DEF StorageRecord
<1>6. ASSUME NEW i \in 1..(n + 1)
      PROVE  p[e[i]] = i /\ d[i].id = e[i]
  <2>1. CASE i = n + 1
    BY <1>3, <1>4, <2>1
  <2>2. CASE i \in 1..n
    <3>1. st.sparse[st.entities[i]] = i /\ st.dense[i].id = st.entities[i] /\ st.entities[i] \in EntityIds
      <4>1. i \in DOMAIN st.dense /\ i \in 1..Len(st.entities)
        BY <1>1, <1>3, <2>2
      <4>. QED BY <1>1, <4>1 DEF WellFormed
    <3>2. st.entities[i] # id
      BY <1>1, <2>2, <3>1 DEF Has
    <3>. QED BY <1>3, <1>4, <2>2, <3>1, <3>2
  <2>. QED BY <1>1, <2>1, <2>2
<1>7. ASSUME NEW j \in EntityIds, p[j] # 0
      PROVE  p[j] \in 1..(n + 1) /\ e[p[j]] = j
  <2>1. CASE j = id
    BY <1>1, <1>3, <1>4, <2>1
  <2>2. CASE j # id
    <3>1. st.sparse[j] \in 1..n /\ st.entities[st.sparse[j]] = j
      BY <1>3, <1>4, <1>7, <2>2 DEF WellFormed, Has
    <3>2. p[j] = st.sparse[j] /\ st.sparse[j] \in 1..(n + 1)
      BY <1>1, <1>4, <2>2, <3>1
    <3>3. e[st.sparse[j]] = st.entities[st.sparse[j]]
      BY <1>3, <3>1
    <3>. QED BY <3>1, <3>2, <3>3
  <2>. QED BY <2>1, <2>2
<1>8. WellFormed(r)
  BY <1>3, <1>5, <1>6, <1>7 DEF WellFormed, Has
<1>9. \A j \in EntityIds : Has(r, j) <=> j = id \/ Has(st, j)
  <2>1. n + 1 # 0
    BY <1>1
  <2>. QED BY <1>4, <1>5, <2>1 DEF Has
<1>. QED BY <1>5, <1>8, <1>9 DEF r

\* Replace() changes a component where it lies.
LEMMA StorageReplace ==
  ASSUME NEW st \in StorageRecord, WellFormed(st), NEW id \in EntityIds, Has(st, id),
         NEW c \in Component, c.id = id
  PROVE  /\ Replace(st, id, c) \in StorageRecord /\ WellFormed(Replace(st, id, c))
         /\ \A j \in EntityIds : Has(Replace(st, id, c), j) <=> Has(st, j)
         /\ Replace(st, id, c).version = st.version + 1
<1>. DEFINE r == Replace(st, id, c)
            at == st.sparse[id]
            d == [st.dense EXCEPT ![at] = c]
<1>1. /\ st.dense \in Seq(Component) /\ st.entities \in Seq(EntityIds)
      /\ st.sparse \in [EntityIds -> Nat] /\ st.version \in Nat
      /\ DOMAIN st.dense = 1..Len(st.dense) /\ Len(st.entities) = Len(st.dense)
      /\ at \in DOMAIN st.dense /\ st.entities[at] = id
  BY DEF StorageRecord, WellFormed
<1>2. r = [dense |-> d, entities |-> st.entities, sparse |-> st.sparse, version |-> st.version + 1]
  BY DEF Replace
<1>3. /\ d \in Seq(Component) /\ DOMAIN d = DOMAIN st.dense /\ Len(d) = Len(st.dense) /\ d[at] = c
      /\ \A i \in DOMAIN st.dense : i # at => d[i] = st.dense[i]
  BY <1>1
<1>. HIDE DEF r, at, d
<1>4. /\ r \in StorageRecord /\ r.dense = d /\ r.entities = st.entities /\ r.sparse = st.sparse
      /\ r.version = st.version + 1
  BY <1>1, <1>2, <1>3 DEF StorageRecord
<1>5. \A i \in DOMAIN d : st.sparse[st.entities[i]] = i /\ d[i].id = st.entities[i]
  BY <1>1, <1>3 DEF WellFormed
<1>6. WellFormed(r)
  BY <1>1, <1>3, <1>4, <1>5 DEF WellFormed, Has
<1>. QED BY <1>4, <1>6 DEF r, Has

\* Clear() leaves nothing but a higher version.
LEMMA StorageClear ==
  ASSUME NEW st \in StorageRecord
  PROVE  /\ Clear(st) \in StorageRecord /\ WellFormed(Clear(st))
         /\ \A j \in EntityIds : ~Has(Clear(st), j)
         /\ Clear(st).version = st.version + 1
<1>1. st.version \in Nat
  BY DEF StorageRecord
<1>2. Clear(st) = [dense |-> <<>>, entities |-> <<>>, sparse |-> [id \in EntityIds |-> 0],
                   version |-> st.version + 1]
  BY DEF Clear, EmptyStorage
<1>. DEFINE r == [dense |-> <<>>, entities |-> <<>>, sparse |-> [id \in EntityIds |-> 0],
                  version |-> st.version + 1]
<1>3. r \in StorageRecord /\ WellFormed(r) /\ r.version = st.version + 1
  BY <1>1 DEF StorageRecord, WellFormed, Has
<1>4. \A j \in EntityIds : ~Has(r, j)
  BY DEF Has
<1>. QED BY <1>2, <1>3, <1>4

\* Remove() fills the gap with the last component and takes only one from its owner.
LEMMA StorageRemove ==
  ASSUME NEW st \in StorageRecord, WellFormed(st), NEW id \in EntityIds
  PROVE  /\ RemoveComponent(st, id) \in StorageRecord /\ WellFormed(RemoveComponent(st, id))
         /\ \A j \in EntityIds : Has(RemoveComponent(st, id), j) <=> j # id /\ Has(st, j)
         /\ RemoveComponent(st, id) = st \/ RemoveComponent(st, id).version = st.version + 1
<1>1. CASE ~Has(st, id)
  BY <1>1 DEF RemoveComponent
<1>2. CASE Has(st, id)
  <2>. DEFINE r == RemoveComponent(st, id)
              at == st.sparse[id]
              n == Len(st.dense)
              owner == st.entities[n]
              moved == [st.dense EXCEPT ![at] = st.dense[n]]
              owners == [st.entities EXCEPT ![at] = owner]
              d == SubSeq(moved, 1, n - 1)
              e == SubSeq(owners, 1, n - 1)
              p == [st.sparse EXCEPT ![owner] = at, ![id] = 0]
  <2>1. /\ st.dense \in Seq(Component) /\ st.entities \in Seq(EntityIds)
        /\ st.sparse \in [EntityIds -> Nat] /\ st.version \in Nat
        /\ n \in Nat /\ Len(st.entities) = n /\ DOMAIN st.dense = 1..n
        /\ at \in 1..n /\ st.entities[at] = id
    BY <1>2 DEF StorageRecord, WellFormed
  <2>2. r = [dense |-> d, entities |-> e, sparse |-> p, version |-> st.version + 1]
    BY <1>2 DEF RemoveComponent
  <2>3. n >= 1 /\ n - 1 \in Nat /\ n \in 1..n /\ owner \in EntityIds /\ st.dense[n] \in Component
    BY <2>1
  <2>4. /\ moved \in Seq(Component) /\ Len(moved) = n
        /\ \A i \in 1..n : moved[i] = IF i = at THEN st.dense[n] ELSE st.dense[i]
    BY <2>1, <2>3
  <2>5. /\ owners \in Seq(EntityIds) /\ Len(owners) = n
        /\ \A i \in 1..n : owners[i] = IF i = at THEN owner ELSE st.entities[i]
    BY <2>1, <2>3
  <2>. HIDE DEF moved, owners
  <2>6. /\ d \in Seq(Component) /\ Len(d) = n - 1 /\ DOMAIN d = 1..(n - 1)
        /\ \A i \in 1..(n - 1) : d[i] = moved[i]
    BY <2>3, <2>4
  <2>7. /\ e \in Seq(EntityIds) /\ Len(e) = n - 1
        /\ \A i \in 1..(n - 1) : e[i] = owners[i]
    BY <2>3, <2>5
  <2>8. /\ p \in [EntityIds -> Nat] /\ p[id] = 0
        /\ \A j \in EntityIds : j # id => p[j] = IF j = owner THEN at ELSE st.sparse[j]
    <3>1. at \in Nat /\ st.sparse \in [EntityIds -> Nat] /\ owner \in EntityIds
      BY <2>1, <2>3
    <3>. HIDE DEF at, owner
    <3>. QED BY <3>1, TwoChanged
  <2>. HIDE DEF r, d, e, p
  <2>9. r \in StorageRecord /\ r.dense = d /\ r.entities = e /\ r.sparse = p /\ r.version = st.version + 1
    <3>1. d \in Seq(Component) /\ e \in Seq(EntityIds) /\ p \in [EntityIds -> Nat] /\ st.version + 1 \in Nat
      BY <2>1, <2>6, <2>7, <2>8
    <3>. QED BY <2>2, <3>1 DEF StorageRecord
  <2>10. /\ \A i \in 1..n : /\ st.entities[i] \in EntityIds /\ st.sparse[st.entities[i]] = i
                            /\ st.dense[i].id = st.entities[i]
         /\ st.sparse[owner] = n /\ st.dense[n].id = owner
    BY <2>1, <2>3 DEF WellFormed
  <2>11. \A j \in EntityIds : Has(st, j) => st.sparse[j] \in 1..n /\ st.entities[st.sparse[j]] = j
    BY <2>1 DEF WellFormed
  <2>12. at = n <=> owner = id
    BY <2>1, <2>10
  <2>. HIDE DEF at, n, owner
  <2>13. ASSUME NEW i \in 1..(n - 1)
         PROVE  p[e[i]] = i /\ d[i].id = e[i]
    <3>1. i \in 1..n /\ i # n
      BY <2>3
    <3>2. CASE i = at
      <4>1. e[i] = owner /\ d[i] = st.dense[n] /\ owner # id
        BY <2>4, <2>5, <2>6, <2>7, <2>12, <3>1, <3>2
      <4>. QED BY <2>3, <2>8, <2>10, <3>2, <4>1
    <3>3. CASE i # at
      <4>1. e[i] = st.entities[i] /\ d[i] = st.dense[i]
        BY <2>4, <2>5, <2>6, <2>7, <3>1, <3>3
      <4>2. st.entities[i] # owner /\ st.entities[i] # id
        BY <2>1, <2>3, <2>10, <3>1, <3>3
      <4>. QED BY <2>8, <2>10, <3>1, <4>1, <4>2
    <3>. QED BY <3>2, <3>3
  <2>14. ASSUME NEW j \in EntityIds, p[j] # 0
         PROVE  p[j] \in 1..(n - 1) /\ e[p[j]] = j
    <3>1. j # id
      BY <2>8, <2>14 DEF Has
    <3>2. CASE j = owner
      <4>1. p[j] = at /\ at # n /\ at \in 1..(n - 1)
        BY <2>1, <2>3, <2>8, <2>12, <3>1, <3>2
      <4>. QED BY <2>1, <2>5, <2>7, <3>2, <4>1
    <3>3. CASE j # owner
      <4>1. p[j] = st.sparse[j] /\ Has(st, j)
        BY <2>8, <2>14, <3>1, <3>3 DEF Has
      <4>2. st.sparse[j] \in 1..n /\ st.entities[st.sparse[j]] = j
        BY <2>11, <4>1
      <4>3. st.sparse[j] # n /\ st.sparse[j] # at
        BY <2>1, <2>3, <2>10, <3>1, <3>3, <4>2 DEF owner
      <4>4. st.sparse[j] \in 1..(n - 1)
        BY <2>3, <4>2, <4>3
      <4>. QED BY <2>5, <2>7, <4>1, <4>2, <4>3, <4>4
    <3>. QED BY <3>2, <3>3
  <2>15. WellFormed(r)
    BY <2>6, <2>7, <2>9, <2>13, <2>14 DEF WellFormed, Has
  <2>16. ASSUME NEW j \in EntityIds PROVE Has(r, j) <=> j # id /\ Has(st, j)
    <3>1. CASE j = id
      BY <2>8, <2>9, <3>1 DEF Has
    <3>2. CASE j # id /\ j = owner
      BY <2>1, <2>3, <2>8, <2>9, <2>10, <3>2 DEF Has
    <3>3. CASE j # id /\ j # owner
      BY <2>8, <2>9, <3>3 DEF Has
    <3>. QED BY <3>1, <3>2, <3>3
  <2>. QED BY <2>9, <2>15, <2>16 DEF r
<1>. QED BY <1>1, <1>2

(***************************************************************************)
(* EntityManager: the fingerprint.                                         *)
(***************************************************************************)

\* The numbers some storages have, as a set of that many elements, are finitely many.
LEMMA SumFinite ==
  ASSUME NEW T, IsFiniteSet(T), NEW v, \A s \in T : v[s] \in Nat
  PROVE  IsFiniteSet(UNION {{s} \X (1..v[s]) : s \in T})
<1>. DEFINE f == [s \in T |-> {s} \X (1..v[s])]
            I == {{s} \X (1..v[s]) : s \in T}
<1>1. f \in Surjection(T, I)
  BY DEF Surjection
<1>2. IsFiniteSet(I)
  BY <1>1, FS_Surjection
<1>3. ASSUME NEW s \in T PROVE IsFiniteSet({s} \X (1..v[s]))
  <2>1. IsFiniteSet({s})
    BY FS_Singleton
  <2>2. IsFiniteSet(1..v[s])
    BY FS_Interval, 1 \in Int, v[s] \in Int
  <2>. QED BY <2>1, <2>2, FS_Product
<1>4. \A e \in I : IsFiniteSet(e)
  BY <1>3
<1>. HIDE DEF I
<1>5. IsFiniteSet(UNION I)
  BY <1>2, <1>4, FS_UNION
<1>. QED BY <1>5 DEF I

\* Numbers that only grow and add up to the same have not grown.
LEMMA SumDetects ==
  ASSUME NEW T, IsFiniteSet(T), NEW v, NEW w,
         \A s \in T : v[s] \in Nat /\ w[s] \in Nat /\ v[s] <= w[s],
         VersionSum(v, T) = VersionSum(w, T)
  PROVE  \A s \in T : v[s] = w[s]
<1>. DEFINE A == UNION {{s} \X (1..v[s]) : s \in T}
            B == UNION {{s} \X (1..w[s]) : s \in T}
<1>1. \A s, i : /\ <<s, i>> \in A <=> s \in T /\ i \in 1..v[s]
                /\ <<s, i>> \in B <=> s \in T /\ i \in 1..w[s]
  OBVIOUS
<1>2. A \subseteq B
  <2>1. ASSUME NEW x \in A PROVE x \in B
    <3>1. PICK s \in T : x \in {s} \X (1..v[s])
      OBVIOUS
    <3>2. x \in {s} \X (1..w[s])
      BY <3>1
    <3>. QED BY <3>2
  <2>. QED BY <2>1
<1>3. IsFiniteSet(B)
  BY SumFinite
<1>4. Cardinality(B) = Cardinality(A)
  BY DEF VersionSum
<1>. HIDE DEF A, B
<1>5. A = B
  BY <1>2, <1>3, <1>4, FS_Subset
<1>6. ASSUME NEW s \in T, v[s] # w[s] PROVE FALSE
  <2>1. w[s] \in 1..w[s] /\ w[s] \notin 1..v[s]
    BY <1>6
  <2>. QED BY <1>1, <1>5, <2>1
<1>. QED BY <1>6

\* Storages a query looks at.
Used == Includes \cup Excludes

\* They are finitely many.
LEMMA UsedFinite == IsFiniteSet(Used) /\ Used \subseteq Storages
<1>1. Used \subseteq Storages
  BY EntityAssumption DEF Used
<1>. QED BY <1>1, EntityAssumption, FS_Subset

\* The cache is that of versions the storages had, none of which has gone back; while they
\* have them still it holds what a search would find.
CacheTracks ==
  cache.valid =>
    \E seen \in [Storages -> Nat] :
      /\ cache.version = VersionSum(seen, Used)
      /\ \A s \in Used : seen[s] <= stores[s].version
      /\ (\A s \in Used : seen[s] = stores[s].version) =>
           cache.entities = {id \in EntityIds : Matches(id)}

\* That is why the fingerprint can be trusted.
LEMMA FingerprintTrusted == ASSUME EcsTypeOK, CacheTracks PROVE QueryCacheFresh
<1>. SUFFICES ASSUME cache.valid, cache.version = Fingerprint
              PROVE  cache.entities = {id \in EntityIds : Matches(id)}
  BY DEF QueryCacheFresh
<1>1. PICK seen \in [Storages -> Nat] :
        /\ cache.version = VersionSum(seen, Used)
        /\ \A s \in Used : seen[s] <= stores[s].version
        /\ (\A s \in Used : seen[s] = stores[s].version) =>
             cache.entities = {id \in EntityIds : Matches(id)}
  BY DEF CacheTracks
<1>2. \A s \in Used : VersionOf[s] = stores[s].version /\ VersionOf[s] \in Nat /\ seen[s] \in Nat
  BY UsedFinite DEF VersionOf, EcsTypeOK, StorageRecord
<1>3. VersionSum(seen, Used) = VersionSum(VersionOf, Used)
  BY <1>1 DEF Fingerprint, Used
<1>4. \A s \in Used : seen[s] <= VersionOf[s]
  BY <1>1, <1>2
<1>5. \A s \in Used : seen[s] = VersionOf[s]
  BY <1>2, <1>3, <1>4, UsedFinite, SumDetects
<1>. QED BY <1>1, <1>2, <1>5

\* Storages that change get a higher version.
LEMMA StoresChanged ==
  ASSUME EcsTypeOK, CacheTracks, cache' = cache, EcsTypeOK',
         \A s \in Storages : stores'[s] = stores[s] \/ stores'[s].version > stores[s].version
  PROVE  CacheTracks'
<1>. SUFFICES ASSUME cache.valid
              PROVE  \E seen \in [Storages -> Nat] :
                       /\ cache.version = VersionSum(seen, Used)
                       /\ \A s \in Used : seen[s] <= stores'[s].version
                       /\ (\A s \in Used : seen[s] = stores'[s].version) =>
                            cache.entities = {id \in EntityIds : Matches(id)'}
  BY DEF CacheTracks, Used
<1>1. PICK seen \in [Storages -> Nat] :
        /\ cache.version = VersionSum(seen, Used)
        /\ \A s \in Used : seen[s] <= stores[s].version
        /\ (\A s \in Used : seen[s] = stores[s].version) =>
             cache.entities = {id \in EntityIds : Matches(id)}
  BY DEF CacheTracks
<1>2. \A s \in Used : s \in Storages /\ stores[s].version \in Nat /\ stores'[s].version \in Nat /\ seen[s] \in Nat
  BY UsedFinite DEF EcsTypeOK, StorageRecord
<1>3. \A s \in Used : seen[s] <= stores'[s].version
  BY <1>1, <1>2
<1>4. ASSUME \A s \in Used : seen[s] = stores'[s].version
      PROVE  cache.entities = {id \in EntityIds : Matches(id)'}
  <2>1. \A s \in Used : stores'[s] = stores[s]
    BY <1>1, <1>2, <1>4
  <2>2. \A s \in Used : seen[s] = stores[s].version
    BY <2>1, <1>4
  <2>3. ASSUME NEW id \in EntityIds PROVE Matches(id)' <=> Matches(id)
    BY <2>1 DEF Matches, Has, Used
  <2>. QED BY <1>1, <2>2, <2>3
<1>. QED BY <1>1, <1>3, <1>4

\* One of the storages to look for is the smallest.
LEMMA SmallestIncluded == ASSUME EcsTypeOK PROVE Smallest \in Includes
<1>. DEFINE L == {Len(stores[t].dense) : t \in Includes}
<1>1. \A t \in Includes : Len(stores[t].dense) \in Nat
  BY EntityAssumption DEF EcsTypeOK, StorageRecord
<1>2. L \in SUBSET Nat /\ L # {}
  BY <1>1, EntityAssumption
<1>3. PICK x \in L : \A y \in L : x <= y
  BY <1>2, LeastOf
<1>4. \E s \in Includes : \A t \in Includes : Len(stores[s].dense) <= Len(stores[t].dense)
  BY <1>3
<1>. QED BY <1>4 DEF Smallest

\* RefreshCache() leaves a cache of the versions there are now.
LEMMA RefreshInv ==
  ASSUME EcsTypeOK, CacheTracks, \A s \in Storages : WellFormed(stores[s]), RefreshCache
  PROVE  CacheTracks' /\ cache' \in [valid : BOOLEAN, version : Nat, entities : SUBSET EntityIds]
<1>1. stores' = stores
  BY DEF RefreshCache
<1>2. CASE cache' = cache
  BY <1>1, <1>2 DEF CacheTracks, Matches, EcsTypeOK
<1>3. CASE cache' # cache
  <2>. DEFINE found == {id \in ToSet(stores[Smallest].entities) : Matches(id)}
  <2>1. cache' = [valid |-> TRUE, version |-> Fingerprint, entities |-> found]
    BY <1>3 DEF RefreshCache
  <2>2. Smallest \in Includes /\ Smallest \in Storages
    BY SmallestIncluded, EntityAssumption
  <2>3. /\ stores[Smallest] \in StorageRecord /\ WellFormed(stores[Smallest])
        /\ stores[Smallest].entities \in Seq(EntityIds) /\ stores[Smallest].dense \in Seq(Component)
    BY <2>2 DEF EcsTypeOK, StorageRecord
  <2>4. ToSet(stores[Smallest].entities) \subseteq EntityIds
    BY <2>3 DEF ToSet
  <2>5. ASSUME NEW id \in EntityIds, Matches(id) PROVE id \in ToSet(stores[Smallest].entities)
    <3>1. Has(stores[Smallest], id)
      BY <2>2, <2>5 DEF Matches
    <3>2. /\ stores[Smallest].sparse[id] \in DOMAIN stores[Smallest].entities
          /\ stores[Smallest].entities[stores[Smallest].sparse[id]] = id
      BY <2>3, <3>1 DEF WellFormed
    <3>. QED BY <3>2 DEF ToSet
  <2>6. found = {id \in EntityIds : Matches(id)}
    BY <2>4, <2>5
  <2>7. VersionOf \in [Storages -> Nat] /\ \A s \in Used : VersionOf[s] = stores[s].version
    BY UsedFinite DEF VersionOf, EcsTypeOK, StorageRecord
  <2>8. Fingerprint = VersionSum(VersionOf, Used) /\ Fingerprint \in Nat
    <3>1. IsFiniteSet(UNION {{s} \X (1..VersionOf[s]) : s \in Used})
      BY <2>7, UsedFinite, SumFinite
    <3>2. Cardinality(UNION {{s} \X (1..VersionOf[s]) : s \in Used}) \in Nat
      BY <3>1, FS_CardinalityType
    <3>. QED BY <3>2 DEF Fingerprint, Used, VersionSum
  <2>9. \A s \in Used : VersionOf[s] <= stores'[s].version
    BY <1>1, <2>7, UsedFinite DEF EcsTypeOK, StorageRecord
  <2>10. {id \in EntityIds : Matches(id)}' = {id \in EntityIds : Matches(id)}
    BY <1>1 DEF Matches
  <2>. HIDE DEF found
  <2>11. cache'.version = VersionSum(VersionOf, Used) /\ cache'.entities = {id \in EntityIds : Matches(id)}'
    BY <2>1, <2>6, <2>8, <2>10
  <2>12. ASSUME NEW v, v = VersionOf
         PROVE  /\ v \in [Storages -> Nat] /\ cache'.version = VersionSum(v, Used)
                /\ \A s \in Used : v[s] <= stores'[s].version
    BY <2>7, <2>9, <2>11, <2>12
  <2>13. CacheTracks'
    BY <2>11, <2>12 DEF CacheTracks, Used
  <2>14. cache' \in [valid : BOOLEAN, version : Nat, entities : SUBSET EntityIds]
    BY <2>1, <2>4, <2>6, <2>8
  <2>. QED BY <2>13, <2>14
<1>. QED BY <1>2, <1>3

(***************************************************************************)
(* EntityManager: the slots.                                               *)
(***************************************************************************)

\* The version of a slot is that of the last entity it was given to, one more once that
\* entity is gone.
SlotsInv ==
  /\ Len(slotAlive) = Len(slotVersion) /\ DOMAIN slotVersion \subseteq EntityIds
  /\ \A id \in EntityIds :
       IF id \in DOMAIN slotVersion
       THEN /\ generation[id] >= 1
            /\ slotAlive[id] => slotVersion[id] = (generation[id] - 1) % VersionCount
            /\ ~slotAlive[id] => slotVersion[id] = generation[id] % VersionCount
       ELSE generation[id] = 0

\* The inductive invariant.
EcsInv == EcsTypeOK /\ SlotsInv /\ EntitiesAccounted /\ ComponentsOwned /\ CacheTracks

\* The slots are numbered, and so are the entity ids.
LEMMA SlotFacts ==
  ASSUME EcsTypeOK, SlotsInv
  PROVE  /\ Len(slotVersion) \in Nat /\ DOMAIN slotVersion = 1..Len(slotVersion)
         /\ DOMAIN slotAlive = 1..Len(slotVersion)
         /\ \A S \in SUBSET EntityIds : IsFiniteSet(S) /\ Cardinality(S) \in Nat
         /\ \A n \in Nat : n \in EntityIds <=> 1 <= n /\ n <= Cardinality(EntityIds)
         /\ Cardinality(EntityIds) \in Nat /\ EntityIds \subseteq Nat
<1>1. Cardinality(EntityIds) \in Nat
  BY EntityAssumption, FS_CardinalityType
<1>2. \A n \in Nat : n \in EntityIds <=> 1 <= n /\ n <= Cardinality(EntityIds)
  BY <1>1, EntityAssumption
<1>3. ASSUME NEW S \in SUBSET EntityIds PROVE IsFiniteSet(S) /\ Cardinality(S) \in Nat
  BY EntityAssumption, FS_Subset, FS_CardinalityType
<1>4. EntityIds \subseteq Nat
  BY <1>1, EntityAssumption
<1>. QED BY <1>1, <1>2, <1>3, <1>4 DEF EcsTypeOK, SlotsInv

\* That is why a handle of an earlier entity is refused.
LEMMA HandlesRefused == ASSUME EcsTypeOK, SlotsInv PROVE StaleHandleRefused
<1>. SUFFICES ASSUME NEW h \in Handles, Issued(h), IsAlive(h)
              PROVE  generation[h.id] = h.gen \/ generation[h.id] - h.gen >= VersionCount
  BY DEF StaleHandleRefused
<1>1. PICK id \in EntityIds, gen \in 1..MaxCreated : h = Handle(id, gen)
  BY DEF Handles
<1>2. h.id = id /\ h.gen = gen /\ h.version = (gen - 1) % VersionCount
  BY <1>1 DEF Handle
<1>3. id \in DOMAIN slotVersion /\ slotAlive[id] /\ slotVersion[id] = (gen - 1) % VersionCount
  BY <1>2, SlotFacts DEF IsAlive
<1>4. generation[id] \in Nat /\ generation[id] >= 1 /\ slotVersion[id] = (generation[id] - 1) % VersionCount
  BY <1>3 DEF SlotsInv, EcsTypeOK
<1>5. gen - 1 \in Nat /\ generation[id] - 1 \in Nat /\ gen \in Nat /\ gen <= generation[id]
  BY <1>2, <1>4, EntityAssumption DEF Issued
<1>6. gen - 1 = generation[id] - 1 \/ (generation[id] - 1) - (gen - 1) >= VersionCount
  BY <1>3, <1>4, <1>5, RoundApart
<1>7. VersionCount \in Nat
  BY EntityAssumption
<1>. QED BY <1>2, <1>4, <1>5, <1>6, <1>7

\* A slot behind the others.
LEMMA OneMore ==
  ASSUME NEW S, NEW q \in Seq(S), NEW x \in S
  PROVE  /\ Append(q, x) \in Seq(S) /\ Len(Append(q, x)) = Len(q) + 1
         /\ DOMAIN Append(q, x) = 1..(Len(q) + 1) /\ Append(q, x)[Len(q) + 1] = x
         /\ \A j \in 1..Len(q) : Append(q, x)[j] = q[j]
OBVIOUS

\* An element of a list.
LEMMA OneOf == ASSUME NEW S, NEW q \in Seq(S), NEW j \in 1..Len(q) PROVE q[j] \in S
OBVIOUS

\* What the free list and the count have to do with who is alive.
Dead == {id \in DOMAIN slotAlive : ~slotAlive[id]}

\* The dead are finitely many.
LEMMA DeadFacts ==
  ASSUME EcsTypeOK, SlotsInv
  PROVE  Dead \subseteq EntityIds /\ IsFiniteSet(Dead) /\ Cardinality(Dead) \in Nat
<1>1. Dead \subseteq EntityIds
  BY SlotFacts DEF Dead, SlotsInv
<1>. QED BY <1>1, SlotFacts

\* Create().
LEMMA CreateInv == ASSUME EcsInv, Create PROVE EcsInv'
<1>. USE DEF EcsInv
<1>. DEFINE id == IF freeList # <<>> THEN Head(freeList) ELSE Len(slotVersion) + 1
            n == Len(slotVersion)
<1>1. /\ id \in EntityIds /\ liveCount' = liveCount + 1 /\ generation' = [generation EXCEPT ![id] = @ + 1]
      /\ UNCHANGED <<stores, pending, flushing, registered, cache, leaked>>
  BY DEF Create
<1>2. /\ n \in Nat /\ DOMAIN slotVersion = 1..n /\ DOMAIN slotAlive = 1..n /\ generation \in [EntityIds -> Nat]
      /\ slotVersion \in Seq(0..(VersionCount - 1)) /\ slotAlive \in Seq(BOOLEAN)
      /\ freeList \in Seq(EntityIds) /\ liveCount \in Int /\ 1..n \subseteq EntityIds
      /\ Len(slotAlive) = n
  BY SlotFacts DEF EcsTypeOK, SlotsInv
<1>3. /\ IsInjective(freeList) /\ ToSet(freeList) = Dead /\ liveCount = Len(slotAlive) - Cardinality(Dead)
  BY DEF EntitiesAccounted, Dead
<1>4. /\ generation'[id] = generation[id] + 1 /\ generation' \in [EntityIds -> Nat]
      /\ \A j \in EntityIds : j # id => generation'[j] = generation[j]
  BY <1>1, <1>2
<1>5. CASE freeList # <<>>
  <2>1. id = Head(freeList) /\ freeList' = Tail(freeList) /\ slotVersion' = slotVersion
        /\ slotAlive' = [slotAlive EXCEPT ![id] = TRUE]
    BY <1>5 DEF Create
  <2>2. /\ Tail(freeList) \in Seq(EntityIds) /\ IsInjective(Tail(freeList)) /\ id \in Dead
        /\ ToSet(Tail(freeList)) = Dead \ {id}
    BY <1>2, <1>3, <1>5, <2>1, ListTail
  <2>. HIDE DEF id
  <2>3. id \in 1..n /\ ~slotAlive[id]
    BY <1>2, <2>2 DEF Dead
  <2>4. /\ slotAlive' \in Seq(BOOLEAN) /\ Len(slotAlive') = n /\ DOMAIN slotAlive' = 1..n /\ slotAlive'[id]
        /\ \A j \in 1..n : j # id => slotAlive'[j] = slotAlive[j]
    BY <1>2, <2>1, <2>3
  <2>5. Dead' = Dead \ {id}
    BY <1>2, <2>1, <2>4, <2>3 DEF Dead
  <2>6. Cardinality(Dead') = Cardinality(Dead) - 1
    BY <2>2, <2>5, DeadFacts, FS_RemoveElement
  <2>7. EcsTypeOK'
    BY <1>1, <1>2, <1>4, <2>1, <2>2, <2>4 DEF EcsTypeOK
  <2>8. EntitiesAccounted'
    <3>1. liveCount' = Len(slotAlive') - Cardinality(Dead')
      BY <1>1, <1>2, <1>3, <2>4, <2>6, DeadFacts
    <3>. QED BY <2>1, <2>2, <2>5, <3>1 DEF EntitiesAccounted, Dead
  <2>9. SlotsInv'
    <3>1. ASSUME NEW j \in EntityIds
          PROVE  IF j \in 1..n
                 THEN /\ generation'[j] >= 1
                      /\ slotAlive'[j] => slotVersion[j] = (generation'[j] - 1) % VersionCount
                      /\ ~slotAlive'[j] => slotVersion[j] = generation'[j] % VersionCount
                 ELSE generation'[j] = 0
      <4>1. CASE j = id
        <5>1. slotVersion[id] = generation[id] % VersionCount /\ generation[id] \in Nat
          BY <1>2, <2>3, <1>1 DEF SlotsInv
        <5>2. generation'[id] >= 1 /\ generation'[id] - 1 = generation[id]
          BY <1>4, <5>1
        <5>. QED BY <2>3, <2>4, <4>1, <5>1, <5>2
      <4>2. CASE j # id
        BY <1>2, <1>4, <2>4, <4>2 DEF SlotsInv
      <4>. QED BY <4>1, <4>2
    <3>. QED BY <1>2, <2>1, <2>4, <3>1 DEF SlotsInv
  <2>10. ComponentsOwned'
    BY <1>1, <1>2, <2>4, Zenon DEF ComponentsOwned
  <2>11. CacheTracks'
    BY <1>1, <2>7, StoresChanged
  <2>. QED BY <2>7, <2>8, <2>9, <2>10, <2>11
<1>6. CASE freeList = <<>>
  <2>1. /\ id = n + 1 /\ freeList' = freeList /\ slotVersion' = Append(slotVersion, 0)
        /\ slotAlive' = Append(slotAlive, TRUE)
    BY <1>6 DEF Create
  <2>. HIDE DEF id
  <2>2. 0 \in 0..(VersionCount - 1)
    BY EntityAssumption
  <2>3. /\ slotAlive' \in Seq(BOOLEAN) /\ Len(slotAlive') = n + 1 /\ DOMAIN slotAlive' = 1..(n + 1)
        /\ slotAlive'[n + 1] /\ \A j \in 1..n : slotAlive'[j] = slotAlive[j]
    <3>1. PICK x \in BOOLEAN : x = TRUE
      BY Zenon
    <3>2. slotAlive' = Append(slotAlive, x)
      BY <2>1, <3>1, Zenon
    <3>3. /\ slotAlive' \in Seq(BOOLEAN) /\ Len(slotAlive') = Len(slotAlive) + 1
          /\ DOMAIN slotAlive' = 1..(Len(slotAlive) + 1) /\ slotAlive'[Len(slotAlive) + 1] = x
          /\ \A j \in 1..Len(slotAlive) : slotAlive'[j] = slotAlive[j]
      <4>1. slotAlive \in Seq(BOOLEAN)
        BY <1>2
      <4>. QED BY <3>2, <4>1, OneMore
    <3>. QED BY <1>2, <3>1, <3>3, Zenon
  <2>4. /\ slotVersion' \in Seq(0..(VersionCount - 1)) /\ Len(slotVersion') = n + 1
        /\ DOMAIN slotVersion' = 1..(n + 1)
        /\ slotVersion'[n + 1] = 0 /\ \A j \in 1..n : slotVersion'[j] = slotVersion[j]
    BY <1>2, <2>1, <2>2
  <2>5. Dead' = Dead
    BY <1>2, <2>3 DEF Dead
  <2>7. EcsTypeOK'
    BY <1>1, <1>2, <1>4, <2>1, <2>3, <2>4 DEF EcsTypeOK
  <2>8. EntitiesAccounted'
    <3>1. liveCount' = Len(slotAlive') - Cardinality(Dead')
      BY <1>1, <1>2, <1>3, <2>3, <2>5, DeadFacts
    <3>. QED BY <1>3, <2>1, <2>5, <3>1 DEF EntitiesAccounted, Dead
  <2>9. SlotsInv'
    <3>1. ASSUME NEW j \in EntityIds
          PROVE  IF j \in 1..(n + 1)
                 THEN /\ generation'[j] >= 1
                      /\ slotAlive'[j] => slotVersion'[j] = (generation'[j] - 1) % VersionCount
                      /\ ~slotAlive'[j] => slotVersion'[j] = generation'[j] % VersionCount
                 ELSE generation'[j] = 0
      <4>1. CASE j = n + 1
        <5>1. generation[j] = 0
          BY <1>2, <4>1 DEF SlotsInv
        <5>2. generation'[j] = 1 /\ 0 % VersionCount = 0
          BY <1>4, <2>1, <4>1, <5>1, EntityAssumption
        <5>3. (generation'[j] - 1) % VersionCount = 0
          BY <5>2
        <5>. QED BY <1>2, <2>3, <2>4, <4>1, <5>2, <5>3
      <4>2. CASE j # n + 1
        <5>1. generation'[j] = generation[j] /\ (j \in 1..(n + 1) <=> j \in 1..n)
          BY <1>2, <1>4, <2>1, <4>2
        <5>. QED BY <1>2, <2>3, <2>4, <5>1 DEF SlotsInv
      <4>. QED BY <4>1, <4>2
    <3>2. 1..(n + 1) \subseteq EntityIds
      BY <1>1, <1>2, <2>1
    <3>. QED BY <2>3, <2>4, <3>1, <3>2 DEF SlotsInv
  <2>10. ComponentsOwned'
    <3>1. ASSUME NEW j, j \in DOMAIN slotAlive, slotAlive[j] PROVE j \in DOMAIN slotAlive' /\ slotAlive'[j]
      BY <1>2, <2>3, <3>1
    <3>. QED BY <1>1, <3>1, Zenon DEF ComponentsOwned
  <2>11. CacheTracks'
    BY <1>1, <2>7, StoresChanged
  <2>. QED BY <2>7, <2>8, <2>9, <2>10, <2>11
<1>. QED BY <1>5, <1>6

\* destroyInternal() of an entity that is alive.
LEMMA DestroyInv ==
  ASSUME EcsInv, NEW h \in Component, IsAlive(h), DestroyInternal(h),
         UNCHANGED <<registered, cache, generation>>,
         pending' \in Seq(Component), flushing' \in Seq(Component)
  PROVE  EcsInv'
<1>. USE DEF EcsInv
<1>. DEFINE id == h.id
            n == Len(slotVersion)
<1>1. /\ n \in Nat /\ DOMAIN slotVersion = 1..n /\ DOMAIN slotAlive = 1..n /\ generation \in [EntityIds -> Nat]
      /\ slotVersion \in Seq(0..(VersionCount - 1)) /\ slotAlive \in Seq(BOOLEAN)
      /\ freeList \in Seq(EntityIds) /\ liveCount \in Int /\ 1..n \subseteq EntityIds
      /\ Len(slotAlive) = n
  BY SlotFacts DEF EcsTypeOK, SlotsInv
<1>2. id \in EntityIds /\ id \in 1..n /\ slotAlive[id]
  BY <1>1, SlotFacts DEF Component, IsAlive
<1>3. /\ slotAlive' = [slotAlive EXCEPT ![id] = FALSE]
      /\ slotVersion' = [slotVersion EXCEPT ![id] = (@ + 1) % VersionCount]
      /\ freeList' = Append(freeList, id) /\ liveCount' = liveCount - 1
      /\ RemoveComponents(id)
  BY DEF DestroyInternal
<1>. HIDE DEF id
<1>4. /\ slotAlive' \in Seq(BOOLEAN) /\ Len(slotAlive') = n /\ DOMAIN slotAlive' = 1..n /\ ~slotAlive'[id]
      /\ \A j \in 1..n : j # id => slotAlive'[j] = slotAlive[j]
  BY <1>1, <1>2, <1>3
<1>5. slotVersion[id] \in 0..(VersionCount - 1) /\ (slotVersion[id] + 1) % VersionCount \in 0..(VersionCount - 1)
  <2>1. slotVersion[id] \in 0..(VersionCount - 1)
    BY <1>1, <1>2, OneOf
  <2>2. slotVersion[id] + 1 \in Int
    BY <2>1
  <2>. QED BY <2>1, <2>2, Versions
<1>6. /\ slotVersion' \in Seq(0..(VersionCount - 1)) /\ Len(slotVersion') = n /\ DOMAIN slotVersion' = 1..n
      /\ slotVersion'[id] = (slotVersion[id] + 1) % VersionCount
      /\ \A j \in 1..n : j # id => slotVersion'[j] = slotVersion[j]
  BY <1>1, <1>2, <1>3, <1>5
<1>7. ASSUME NEW s \in Storages
      PROVE  /\ stores'[s] \in StorageRecord /\ WellFormed(stores'[s])
             /\ stores'[s] = stores[s] \/ stores'[s].version > stores[s].version
             /\ s \in registered => \A j \in EntityIds : Has(stores'[s], j) <=> j # id /\ Has(stores[s], j)
             /\ s \notin registered => stores'[s] = stores[s]
  <2>1. stores[s] \in StorageRecord /\ WellFormed(stores[s]) /\ stores[s].version \in Nat
    BY DEF EcsTypeOK, ComponentsOwned, StorageRecord
  <2>2. CASE s \notin registered
    <3>1. stores'[s] = stores[s]
      BY <1>3, <2>2 DEF RemoveComponents
    <3>. QED BY <2>1, <2>2, <3>1
  <2>3. CASE s \in registered
    <3>1. stores'[s] = RemoveComponent(stores[s], id)
      BY <1>3, <2>3 DEF RemoveComponents
    <3>2. /\ stores'[s] \in StorageRecord /\ WellFormed(stores'[s])
          /\ \A j \in EntityIds : Has(stores'[s], j) <=> j # id /\ Has(stores[s], j)
          /\ stores'[s] = stores[s] \/ stores'[s].version = stores[s].version + 1
      BY <1>2, <2>1, <3>1, StorageRemove
    <3>. QED BY <2>1, <2>3, <3>2
  <2>. QED BY <2>2, <2>3
<1>8. stores' \in [Storages -> StorageRecord]
  <2>1. stores' = [s \in Storages |-> stores'[s]]
    BY <1>3 DEF RemoveComponents
  <2>. QED BY <1>7, <2>1
<1>9. leaked' \subseteq Storages \X EntityIds
  BY <1>2, <1>3 DEF RemoveComponents, EcsTypeOK
<1>10. Append(freeList, id) \in Seq(EntityIds)
  BY <1>1, <1>2
<1>11. EcsTypeOK'
  BY <1>1, <1>3, <1>4, <1>6, <1>8, <1>9, <1>10 DEF EcsTypeOK
<1>12. Dead' = Dead \cup {id} /\ id \notin Dead
  BY <1>1, <1>2, <1>4 DEF Dead
<1>13. EntitiesAccounted'
  <2>1. IsInjective(freeList) /\ ToSet(freeList) = Dead /\ liveCount = Len(slotAlive) - Cardinality(Dead)
    BY DEF EntitiesAccounted, Dead
  <2>2. ToSet(freeList') = Dead' /\ IsInjective(freeList')
    BY <1>1, <1>2, <1>3, <1>12, <2>1, ListAppended
  <2>3. Cardinality(Dead') = Cardinality(Dead) + 1
    BY <1>12, DeadFacts, FS_AddElement
  <2>4. liveCount' = Len(slotAlive') - Cardinality(Dead')
    BY <1>1, <1>3, <1>4, <2>1, <2>3, DeadFacts
  <2>. QED BY <2>2, <2>4 DEF EntitiesAccounted, Dead
<1>14. SlotsInv'
  <2>1. ASSUME NEW j \in EntityIds
        PROVE  IF j \in 1..n
               THEN /\ generation[j] >= 1
                    /\ slotAlive'[j] => slotVersion'[j] = (generation[j] - 1) % VersionCount
                    /\ ~slotAlive'[j] => slotVersion'[j] = generation[j] % VersionCount
               ELSE generation[j] = 0
    <3>1. CASE j = id
      <4>1. slotVersion[id] = (generation[id] - 1) % VersionCount /\ generation[id] \in Nat /\ generation[id] >= 1
        BY <1>1, <1>2 DEF SlotsInv
      <4>2. generation[id] - 1 \in Nat /\ (generation[id] - 1) + 1 = generation[id]
        BY <4>1
      <4>3. (((generation[id] - 1) % VersionCount) + 1) % VersionCount = ((generation[id] - 1) + 1) % VersionCount
        BY <4>2, NextVersion
      <4>4. slotVersion'[id] = generation[id] % VersionCount
        BY <1>6, <4>1, <4>2, <4>3
      <4>. QED BY <1>2, <1>4, <3>1, <4>1, <4>4
    <3>2. CASE j # id
      BY <1>1, <1>4, <1>6, <3>2 DEF SlotsInv
    <3>. QED BY <3>1, <3>2
  <2>. QED BY <1>1, <1>4, <1>6, <2>1 DEF SlotsInv
<1>15. ComponentsOwned'
  <2>1. ASSUME NEW s \in Storages, NEW j \in EntityIds, Has(stores'[s], j), <<s, j>> \notin leaked'
        PROVE  j \in DOMAIN slotAlive' /\ slotAlive'[j]
    <3>1. <<s, j>> \notin leaked
      BY <1>3, <2>1 DEF RemoveComponents
    <3>2. j # id /\ Has(stores[s], j)
      <4>1. CASE s \in registered
        BY <1>7, <2>1, <4>1
      <4>2. CASE s \notin registered
        <5>1. stores'[s] = stores[s]
          BY <1>7, <4>2
        <5>2. j = id => <<s, j>> \in leaked'
          BY <1>3, <2>1, <4>2, <5>1 DEF RemoveComponents
        <5>. QED BY <2>1, <5>1, <5>2
      <4>. QED BY <4>1, <4>2
    <3>3. j \in DOMAIN slotAlive /\ slotAlive[j]
      BY <3>1, <3>2, Zenon DEF ComponentsOwned
    <3>. QED BY <1>1, <1>4, <3>2, <3>3
  <2>. QED BY <1>7, <2>1 DEF ComponentsOwned
<1>16. CacheTracks'
  BY <1>7, <1>11, StoresChanged
<1>. QED BY <1>11, <1>13, <1>14, <1>15, <1>16

\* A handle is that of an entity id.
LEMMA HandleTyped ==
  ASSUME NEW h \in Handles
  PROVE  h \in Component /\ h.id \in EntityIds
<1>1. PICK id \in EntityIds, gen \in 1..MaxCreated : h = Handle(id, gen)
  BY DEF Handles
<1>2. gen \in Nat /\ gen - 1 \in Int
  BY EntityAssumption
<1>3. (gen - 1) % VersionCount \in 0..(VersionCount - 1)
  BY <1>2, Versions
<1>. QED BY <1>1, <1>2, <1>3 DEF Handle, Component

\* Create(), Destroy(), DestroyDeferred() and FlushDeferred() keep the invariant.
LEMMA SlotStepInv == ASSUME EcsInv, SlotNext PROVE EcsInv'
<1>. USE DEF EcsInv
<1>1. pending \in Seq(Component) /\ flushing \in Seq(Component)
  BY DEF EcsTypeOK
<1>2. ASSUME NEW h \in Handles, Destroy(h) PROVE EcsInv'
  <2>1. h \in Component
    BY HandleTyped
  <2>2. IsAlive(h) /\ DestroyInternal(h) /\ pending' = pending /\ flushing' = flushing
        /\ UNCHANGED <<registered, cache, generation>>
    BY <1>2 DEF Destroy
  <2>3. pending' \in Seq(Component) /\ flushing' \in Seq(Component)
    BY <1>1, <2>2
  <2>. QED BY <2>1, <2>2, <2>3, DestroyInv
<1>3. ASSUME UNCHANGED <<slotVars, stores, registered, cache, generation, leaked>>,
             pending' \in Seq(Component), flushing' \in Seq(Component)
      PROVE  EcsInv'
  <2>1. /\ slotVersion' = slotVersion /\ slotAlive' = slotAlive /\ freeList' = freeList
        /\ liveCount' = liveCount /\ stores' = stores /\ registered' = registered /\ cache' = cache
        /\ generation' = generation /\ leaked' = leaked
    BY <1>3 DEF slotVars
  <2>2. EcsTypeOK'
    BY <1>3, <2>1 DEF EcsTypeOK
  <2>3. SlotsInv' /\ EntitiesAccounted' /\ ComponentsOwned'
    BY <2>1, Zenon DEF SlotsInv, EntitiesAccounted, ComponentsOwned
  <2>4. CacheTracks'
    BY <2>1, <2>2, StoresChanged
  <2>. QED BY <2>2, <2>3, <2>4
<1>4. ASSUME NEW h \in Handles, DestroyDeferred(h) PROVE EcsInv'
  <2>1. h \in Component
    BY HandleTyped
  <2>2. pending' = Append(pending, h) /\ UNCHANGED <<slotVars, stores, flushing, registered, cache, generation, leaked>>
    BY <1>4 DEF DestroyDeferred
  <2>3. pending' \in Seq(Component) /\ flushing' \in Seq(Component)
    BY <1>1, <2>1, <2>2
  <2>. QED BY <1>3, <2>2, <2>3
<1>5. CASE FlushDeferred
  <2>1. pending' = <<>> /\ flushing' = pending /\ UNCHANGED <<slotVars, stores, registered, cache, generation, leaked>>
    BY <1>5 DEF FlushDeferred
  <2>2. pending' \in Seq(Component) /\ flushing' \in Seq(Component)
    BY <1>1, <2>1
  <2>. QED BY <1>3, <2>1, <2>2
<1>6. CASE FlushOne
  <2>1. /\ flushing # <<>> /\ flushing' = Tail(flushing) /\ pending' = pending
        /\ UNCHANGED <<registered, cache, generation>>
    BY <1>6 DEF FlushOne
  <2>2. Head(flushing) \in Component /\ pending' \in Seq(Component) /\ flushing' \in Seq(Component)
    BY <1>1, <2>1
  <2>3. CASE IsAlive(Head(flushing)) /\ DestroyInternal(Head(flushing))
    BY <2>1, <2>2, <2>3, DestroyInv
  <2>4. CASE UNCHANGED <<slotVars, stores, leaked>>
    BY <1>3, <2>1, <2>2, <2>4
  <2>. QED BY <1>6, <2>3, <2>4 DEF FlushOne
<1>7. CASE Create
  BY <1>7, CreateInv
<1>. QED BY <1>2, <1>4, <1>5, <1>6, <1>7 DEF SlotNext

\* The systems and the query.
LEMMA StoreStepInv == ASSUME EcsInv, StoreNext PROVE EcsInv'
<1>. USE DEF EcsInv
<1>1. ASSUME UNCHANGED <<slotVars, pending, flushing, generation>>
      PROVE  /\ slotVersion' = slotVersion /\ slotAlive' = slotAlive /\ freeList' = freeList
             /\ liveCount' = liveCount /\ pending' = pending /\ flushing' = flushing
             /\ generation' = generation
             /\ SlotsInv' /\ EntitiesAccounted'
  <2>1. /\ slotVersion' = slotVersion /\ slotAlive' = slotAlive /\ freeList' = freeList
        /\ liveCount' = liveCount /\ pending' = pending /\ flushing' = flushing /\ generation' = generation
    BY <1>1 DEF slotVars
  <2>. QED BY <2>1, Zenon DEF SlotsInv, EntitiesAccounted
<1>2. ASSUME NEW s \in Storages, RegisterStorage(s) PROVE EcsInv'
  <2>1. /\ UNCHANGED <<slotVars, pending, flushing, generation>> /\ stores' = stores /\ cache' = cache
        /\ leaked' = leaked /\ registered' = registered \cup {s}
    BY <1>2 DEF RegisterStorage
  <2>2. EcsTypeOK'
    BY <1>1, <2>1 DEF EcsTypeOK
  <2>3. ComponentsOwned'
    BY <1>1, <2>1, Zenon DEF ComponentsOwned
  <2>4. CacheTracks'
    BY <2>1, <2>2, StoresChanged
  <2>. QED BY <1>1, <2>1, <2>2, <2>3, <2>4
<1>3. CASE RefreshCache
  <2>1. /\ UNCHANGED <<slotVars, pending, flushing, generation>> /\ stores' = stores
        /\ leaked' = leaked /\ registered' = registered
    BY <1>3 DEF RefreshCache
  <2>2. CacheTracks' /\ cache' \in [valid : BOOLEAN, version : Nat, entities : SUBSET EntityIds]
    BY <1>3, RefreshInv DEF ComponentsOwned
  <2>3. EcsTypeOK'
    BY <1>1, <2>1, <2>2 DEF EcsTypeOK
  <2>4. ComponentsOwned'
    BY <1>1, <2>1, Zenon DEF ComponentsOwned
  <2>. QED BY <1>1, <2>1, <2>2, <2>3, <2>4
<1>4. ASSUME NEW s \in Storages, NEW r \in StorageRecord, stores' = [stores EXCEPT ![s] = r], WellFormed(r),
             r = stores[s] \/ r.version = stores[s].version + 1,
             leaked' \subseteq leaked, \A l \in leaked : l[1] # s => l \in leaked',
             \A j \in EntityIds : Has(r, j) => \/ j \in DOMAIN slotAlive /\ slotAlive[j]
                                              \/ <<s, j>> \in leaked',
             UNCHANGED <<slotVars, pending, flushing, generation>>, cache' = cache, registered' = registered
      PROVE  EcsInv'
  <2>1. /\ stores \in [Storages -> StorageRecord] /\ stores' \in [Storages -> StorageRecord]
        /\ stores'[s] = r /\ \A t \in Storages : t # s => stores'[t] = stores[t]
    BY <1>4 DEF EcsTypeOK
  <2>2. EcsTypeOK'
    BY <1>1, <1>4, <2>1 DEF EcsTypeOK
  <2>3. stores[s].version \in Nat
    BY <2>1 DEF StorageRecord
  <2>4. \A t \in Storages : stores'[t] = stores[t] \/ stores'[t].version > stores[t].version
    BY <1>4, <2>1, <2>3
  <2>5. CacheTracks'
    BY <1>4, <2>2, <2>4, StoresChanged
  <2>6. slotAlive' = slotAlive
    BY <1>1, <1>4
  <2>7. ASSUME NEW t \in Storages
        PROVE  /\ WellFormed(stores'[t])
               /\ \A j \in EntityIds : Has(stores'[t], j) /\ <<t, j>> \notin leaked' =>
                                         j \in DOMAIN slotAlive /\ slotAlive[j]
    <3>1. CASE t = s
      BY <1>4, <2>1, <3>1, Zenon
    <3>2. CASE t # s
      <4>1. \A j \in EntityIds : <<t, j>> \notin leaked' => <<t, j>> \notin leaked
        <5>1. ASSUME NEW j \in EntityIds, <<t, j>> \in leaked PROVE <<t, j>> \in leaked'
          <6>1. <<t, j>>[1] = t
            OBVIOUS
          <6>. QED BY <1>4, <3>2, <5>1, <6>1
        <5>. QED BY <5>1
      <4>. QED BY <2>1, <3>2, <4>1, Zenon DEF ComponentsOwned
    <3>. QED BY <3>1, <3>2
  <2>8. ComponentsOwned'
    BY <2>6, <2>7, Zenon DEF ComponentsOwned
  <2>. QED BY <1>1, <1>4, <2>2, <2>5, <2>8
<1>5. ASSUME NEW s \in Storages, ClearStorage(s) PROVE EcsInv'
  <2>. DEFINE r == Clear(stores[s])
  <2>1. /\ stores' = [stores EXCEPT ![s] = r] /\ leaked' = {l \in leaked : l[1] # s}
        /\ UNCHANGED <<slotVars, pending, flushing, generation>> /\ cache' = cache /\ registered' = registered
    BY <1>5 DEF ClearStorage
  <2>2. stores[s] \in StorageRecord
    BY DEF EcsTypeOK
  <2>3. r \in StorageRecord /\ WellFormed(r) /\ (\A j \in EntityIds : ~Has(r, j)) /\ r.version = stores[s].version + 1
    BY <2>2, StorageClear
  <2>. HIDE DEF r
  <2>. QED BY <1>4, <2>1, <2>3
<1>6. ASSUME NEW s \in Storages, NEW h \in Handles, ChangeStorage(s, h) PROVE EcsInv'
  <2>1. /\ UNCHANGED <<slotVars, pending, flushing, generation>> /\ cache' = cache /\ registered' = registered
        /\ leaked' = leaked
    BY <1>6 DEF ChangeStorage
  <2>2. stores[s] \in StorageRecord /\ WellFormed(stores[s])
    BY DEF EcsTypeOK, ComponentsOwned
  <2>3. h \in Component /\ h.id \in EntityIds
    BY HandleTyped
  <2>4. h.id \in DOMAIN slotAlive /\ slotAlive[h.id]
    BY <1>6, <2>3, SlotFacts DEF ChangeStorage, IsAlive
  <2>5. \A j \in EntityIds : Has(stores[s], j) => \/ j \in DOMAIN slotAlive /\ slotAlive[j]
                                                  \/ <<s, j>> \in leaked'
    BY <2>1, Zenon DEF ComponentsOwned
  <2>6. ASSUME NEW r \in StorageRecord, stores' = [stores EXCEPT ![s] = r], WellFormed(r),
               \A j \in EntityIds : Has(r, j) => j = h.id \/ Has(stores[s], j),
               r = stores[s] \/ r.version = stores[s].version + 1
        PROVE  EcsInv'
    <3>1. \A j \in EntityIds : Has(r, j) => \/ j \in DOMAIN slotAlive /\ slotAlive[j]
                                            \/ <<s, j>> \in leaked'
      BY <2>4, <2>5, <2>6, Zenon
    <3>2. leaked' \subseteq leaked /\ \A l \in leaked : l[1] # s => l \in leaked'
      BY <2>1
    <3>. QED BY <1>4, <2>1, <2>6, <3>1, <3>2
  <2>7. CASE ~Has(stores[s], h.id) /\ stores' = [stores EXCEPT ![s] = Add(stores[s], h.id, h)]
    <3>1. /\ Add(stores[s], h.id, h) \in StorageRecord /\ WellFormed(Add(stores[s], h.id, h))
          /\ \A j \in EntityIds : Has(Add(stores[s], h.id, h), j) => j = h.id \/ Has(stores[s], j)
          /\ Add(stores[s], h.id, h).version = stores[s].version + 1
      BY <2>2, <2>3, <2>7, StorageAdd
    <3>. QED BY <2>6, <2>7, <3>1
  <2>8. CASE Has(stores[s], h.id) /\ stores' = [stores EXCEPT ![s] = Replace(stores[s], h.id, h)]
    <3>1. /\ Replace(stores[s], h.id, h) \in StorageRecord /\ WellFormed(Replace(stores[s], h.id, h))
          /\ \A j \in EntityIds : Has(Replace(stores[s], h.id, h), j) => Has(stores[s], j)
          /\ Replace(stores[s], h.id, h).version = stores[s].version + 1
      BY <2>2, <2>3, <2>8, StorageReplace
    <3>. QED BY <2>6, <2>8, <3>1
  <2>9. CASE stores' = [stores EXCEPT ![s] = RemoveComponent(stores[s], h.id)]
    <3>1. /\ RemoveComponent(stores[s], h.id) \in StorageRecord /\ WellFormed(RemoveComponent(stores[s], h.id))
          /\ \A j \in EntityIds : Has(RemoveComponent(stores[s], h.id), j) => Has(stores[s], j)
          /\ \/ RemoveComponent(stores[s], h.id) = stores[s]
             \/ RemoveComponent(stores[s], h.id).version = stores[s].version + 1
      BY <2>2, <2>3, <2>9, StorageRemove
    <3>. QED BY <2>6, <2>9, <3>1
  <2>. QED BY <1>6, <2>7, <2>8, <2>9 DEF ChangeStorage
<1>. QED BY <1>2, <1>3, <1>5, <1>6 DEF StoreNext

\* The invariant holds at the start ...
LEMMA EcsBegins == EcsInit => EcsInv
<1>. SUFFICES ASSUME EcsInit PROVE EcsInv
  OBVIOUS
<1>1. EmptyStorage \in StorageRecord /\ WellFormed(EmptyStorage) /\ \A j \in EntityIds : ~Has(EmptyStorage, j)
  BY DEF EmptyStorage, StorageRecord, WellFormed, Has
<1>2. /\ slotVersion = <<>> /\ slotAlive = <<>> /\ freeList = <<>> /\ liveCount = 0
      /\ pending = <<>> /\ flushing = <<>> /\ registered = {} /\ leaked = {} /\ ~cache.valid
      /\ generation = [id \in EntityIds |-> 0]
      /\ \A s \in Storages : stores[s] = EmptyStorage
  BY DEF EcsInit
<1>3. EcsTypeOK
  BY <1>1 DEF EcsInit, EcsTypeOK
<1>4. SlotsInv
  BY <1>2 DEF SlotsInv
<1>5. EntitiesAccounted
  <2>1. Dead = {} /\ Cardinality(Dead) = 0 /\ Len(slotAlive) = 0
    BY <1>2, FS_EmptySet DEF Dead
  <2>2. IsInjective(freeList) /\ ToSet(freeList) = {}
    BY <1>2 DEF IsInjective, ToSet
  <2>. QED BY <1>2, <2>1, <2>2 DEF EntitiesAccounted, Dead
<1>6. ComponentsOwned
  BY <1>1, <1>2, Zenon DEF ComponentsOwned
<1>. QED BY <1>2, <1>3, <1>4, <1>5, <1>6 DEF EcsInv, CacheTracks

\* ... and whatever is called.
LEMMA EcsStep == EcsInv /\ [SlotNext \/ StoreNext]_ecsVars => EcsInv'
<1>. SUFFICES ASSUME EcsInv, [SlotNext \/ StoreNext]_ecsVars PROVE EcsInv'
  OBVIOUS
<1>1. CASE SlotNext
  BY <1>1, SlotStepInv
<1>2. CASE StoreNext
  BY <1>2, StoreStepInv
<1>3. CASE UNCHANGED ecsVars
  <2>1. /\ slotVersion' = slotVersion /\ slotAlive' = slotAlive /\ freeList' = freeList
        /\ liveCount' = liveCount /\ stores' = stores /\ registered' = registered /\ cache' = cache
        /\ pending' = pending /\ flushing' = flushing /\ generation' = generation /\ leaked' = leaked
    BY <1>3 DEF ecsVars, slotVars
  <2>2. EcsTypeOK'
    BY <2>1 DEF EcsTypeOK, EcsInv
  <2>3. SlotsInv' /\ EntitiesAccounted' /\ ComponentsOwned'
    BY <2>1, Zenon DEF SlotsInv, EntitiesAccounted, ComponentsOwned, EcsInv
  <2>4. CacheTracks'
    BY <2>1, <2>2, StoresChanged DEF EcsInv
  <2>. QED BY <2>2, <2>3, <2>4 DEF EcsInv
<1>. QED BY <1>1, <1>2, <1>3

\* Slots, storages and queues name entity ids, whatever is created, destroyed and changed.
THEOREM EcsTypeCorrect == EcsSpec => []EcsTypeOK
<1>1. EcsInv => EcsTypeOK
  BY DEF EcsInv
<1>. QED BY <1>1, EcsBegins, EcsStep, PTL DEF EcsSpec

\* Create(), Destroy(), DestroyDeferred(), FlushDeferred(), the storages and a query in any
\* order: the free list and the count are right, a stale handle is refused until the version
\* has gone all the way round, components belong to the living, and a cache that would be used
\* holds what a search would find.
THEOREM EntitiesSound == EcsSpec => []EcsSound
<1>1. EcsInv => EcsSound
  BY HandlesRefused, FingerprintTrusted DEF EcsInv, EcsSound
<1>. QED BY <1>1, EcsBegins, EcsStep, PTL DEF EcsSpec
=============================================================================
