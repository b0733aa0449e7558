----------------------- MODULE DelayableGraphsProofs -----------------------
(* Proofs about module DelayableGraphs. *)
EXTENDS DelayableGraphs, TLAPS, FiniteSetTheorems, WellFoundedInduction

\* A set of numbers that is not empty has a smallest element.
LEMMA Smallest ==
    ASSUME NEW S \in SUBSET Nat, S # {}
    PROVE  \E a \in S : \A c \in S : a <= c
<1>1. PICK R : IsWellFoundedOn(R, Nat) /\ \A b, c \in Nat : b < c => <<b, c>> \in R
  <2>1. IsWellFoundedOn(OpToRel(<, Nat), Nat)  BY NatLessThanWellFounded
  <2>2. \A b, c \in Nat : b < c => <<b, c>> \in OpToRel(<, Nat)  BY DEF OpToRel
  <2> QED  BY <2>1, <2>2, Zenon
<1>2. PICK a \in S : \A c \in S : <<c, a>> \notin R
  <2>1. IsWellFoundedOn(R, Nat) /\ S \subseteq Nat /\ S # {}  BY <1>1
  <2>2. \E a \in S : \A c \in S : ~(<<c, a>> \in R)  BY <2>1, WFMin, Zenon
  <2> QED  BY <2>2
<1>3. \A c \in S : ~(c < a)  BY <1>1, <1>2
<1> QED  BY <1>3

-----------------------------------------------------------------------------
(* Reachable *)

LEMMA ReachableInside ==
    ASSUME NEW next, NEW from
    PROVE  Reachable(next, from) \subseteq DOMAIN next
BY DEF Reachable

\* It is one of the sets that it is the least of ...
LEMMA ReachableClosed ==
    ASSUME NEW next, NEW from,
           from \subseteq DOMAIN next,
           \A y \in DOMAIN next : next[y] \subseteq DOMAIN next
    PROVE  /\ from \subseteq Reachable(next, from)
           /\ \A y \in Reachable(next, from) : next[y] \subseteq Reachable(next, from)
<1>1. from \subseteq Reachable(next, from)  BY DEF Reachable
<1>2. ASSUME NEW y \in Reachable(next, from), NEW z \in next[y]
      PROVE  z \in Reachable(next, from)
  <2>1. y \in DOMAIN next /\ z \in DOMAIN next  BY ReachableInside
  <2>2. ASSUME NEW S \in SUBSET DOMAIN next, from \subseteq S, \A w \in S : next[w] \subseteq S
        PROVE  z \in S
    <3>1. y \in S  BY <2>2 DEF Reachable
    <3> QED  BY <2>2, <3>1
  <2> QED  BY <2>1, <2>2 DEF Reachable
<1> QED  BY <1>1, <1>2

\* ... and it is part of every such set.
LEMMA ReachableLeast ==
    ASSUME NEW next, NEW from, NEW S \in SUBSET DOMAIN next,
           from \subseteq S, \A y \in S : next[y] \subseteq S
    PROVE  Reachable(next, from) \subseteq S
BY DEF Reachable

\* More is reachable along more.
LEMMA ReachableGrows ==
    ASSUME NEW next, NEW more, NEW from,
           DOMAIN next = DOMAIN more, from \subseteq DOMAIN next,
           \A y \in DOMAIN next : next[y] \subseteq more[y] /\ more[y] \subseteq DOMAIN next
    PROVE  Reachable(next, from) \subseteq Reachable(more, from)
<1> DEFINE S == Reachable(more, from)
<1>1. S \in SUBSET DOMAIN next  BY ReachableInside
<1>2. from \subseteq S /\ \A y \in S : more[y] \subseteq S  BY ReachableClosed
<1>3. \A y \in S : next[y] \subseteq S  BY <1>1, <1>2
<1> HIDE DEF S
<1> QED  BY <1>1, <1>2, <1>3, ReachableLeast DEF S

-----------------------------------------------------------------------------
(* The nesting of chains and groups *)

LEMMA ItemFacts ==
    ASSUME shape \in Shapes, NEW x \in Containers
    PROVE  /\ x \in Objects /\ x \notin Jobs
           /\ Kind(x) = shape.kind[x] /\ Kind(x) \in {"chain", "group"}
           /\ Len(shape.items[x]) \in Nat \ {0}
           /\ DOMAIN shape.items[x] = 1..Len(shape.items[x])
           /\ \A n \in 1..Len(shape.items[x]) : shape.items[x][n] \in Objects
           /\ \A y : y \in Items(x) <=> \E n \in 1..Len(shape.items[x]) : y = shape.items[x][n]
           /\ Items(x) \subseteq Objects
           /\ First(x) \in Items(x) /\ Last(x) \in Items(x)
<1>1. x \in Objects /\ x \notin Jobs  BY ObjectsFinite DEF Objects
<1>2. shape.kind[x] \in {"chain", "group"}  BY ShapesType
<1>3. shape.items[x] \in Seq(Objects) /\ shape.items[x] # <<>>  BY ShapesType
<1>4. /\ Len(shape.items[x]) \in Nat \ {0}
      /\ DOMAIN shape.items[x] = 1..Len(shape.items[x])
      /\ \A n \in 1..Len(shape.items[x]) : shape.items[x][n] \in Objects
  BY <1>3
<1>5. \A y : y \in Items(x) <=> \E n \in 1..Len(shape.items[x]) : y = shape.items[x][n]
  BY <1>4 DEF Items
<1>6. Items(x) \subseteq Objects  BY <1>4, <1>5
<1>7. 1 \in 1..Len(shape.items[x]) /\ Len(shape.items[x]) \in 1..Len(shape.items[x])  BY <1>4
<1>8. First(x) \in Items(x) /\ Last(x) \in Items(x)  BY <1>5, <1>7 DEF First, Last
<1> QED  BY <1>1, <1>2, <1>4, <1>5, <1>6, <1>8 DEF Kind

LEMMA RankType ==
    ASSUME shape \in Shapes
    PROVE  \E rank \in [Objects -> 0..Cardinality(Containers)] :
              \A x \in Containers : \A y \in Items(x) : rank[y] < rank[x]
BY NestingType DEF Items

\* What fails for an object fails for a job, or for a container whose items are
\* all spared: the form in which the proofs go through the nesting.
LEMMA Nesting ==
    ASSUME shape \in Shapes, NEW Bad \in SUBSET Objects, Bad # {}
    PROVE  \E x \in Bad : x \in Jobs \/ (x \in Containers /\ Items(x) \cap Bad = {})
<1>1. PICK rank \in [Objects -> 0..Cardinality(Containers)] :
         \A x \in Containers : \A y \in Items(x) : rank[y] < rank[x]
  BY RankType
<1>2. Cardinality(Containers) \in Nat  BY ObjectsFinite, FS_CardinalityType
<1> DEFINE S == {rank[x] : x \in Bad}
<1>3. S \in SUBSET Nat /\ S # {}  BY <1>2
<1>4. PICK n \in S : \A m \in S : n <= m
  <2> HIDE DEF S
  <2> QED  BY <1>3, Smallest
<1>5. PICK x \in Bad : rank[x] = n  BY <1>4
<1>6. CASE x \in Jobs  BY <1>6
<1>7. CASE x \in Containers
  <2>1. ASSUME NEW y \in Items(x), y \in Bad PROVE FALSE
    <3>1. rank[y] < rank[x]  BY <1>1, <1>7, <2>1
    <3>2. rank[x] <= rank[y]  BY <1>4, <1>5, <2>1
    <3>3. rank[x] \in Nat /\ rank[y] \in Nat  BY <1>2, <2>1
    <3> QED  BY <3>1, <3>2, <3>3
  <2> QED  BY <1>7, <2>1
<1> QED  BY <1>6, <1>7 DEF Objects
-----------------------------------------------------------------------------
(* Leaves and Ends *)

Inner == [y \in Objects |-> IF y \in Jobs THEN {} ELSE Items(y)]

LEMMA InnerType ==
    ASSUME shape \in Shapes
    PROVE  /\ DOMAIN Inner = Objects
           /\ \A j \in Jobs : Inner[j] = {}
           /\ \A x \in Containers : Inner[x] = Items(x)
           /\ \A y \in Objects : Inner[y] \subseteq Objects
<1>1. Jobs \subseteq Objects /\ Containers \subseteq Objects  BY DEF Objects
<1>2. \A x \in Containers : x \notin Jobs /\ Items(x) \subseteq Objects  BY ItemFacts
<1>3. DOMAIN Inner = Objects  BY DEF Inner
<1>4. \A j \in Jobs : Inner[j] = {}  BY <1>1 DEF Inner
<1>5. \A x \in Containers : Inner[x] = Items(x)  BY <1>1, <1>2 DEF Inner
<1> QED  BY <1>2, <1>3, <1>4, <1>5 DEF Objects

\* The jobs of an object: itself, or those of its items.
LEMMA LeavesFacts ==
    ASSUME shape \in Shapes
    PROVE  /\ \A j \in Jobs : Leaves(j) = {j}
           /\ \A x \in Containers : \A l : l \in Leaves(x) <=> \E y \in Items(x) : l \in Leaves(y)
           /\ \A x \in Objects : Leaves(x) \subseteq Jobs
<1> DEFINE Below(x) == Reachable(Inner, {x})
<1>1. \A x : Leaves(x) = Jobs \cap Below(x)  BY DEF Leaves, Inner
<1>2. ASSUME NEW x \in Objects
      PROVE  x \in Below(x) /\ \A y \in Below(x) : Inner[y] \subseteq Below(x)
  <2>1. {x} \subseteq DOMAIN Inner /\ \A y \in DOMAIN Inner : Inner[y] \subseteq DOMAIN Inner
    BY InnerType
  <2>2. /\ {x} \subseteq Reachable(Inner, {x})
        /\ \A y \in Reachable(Inner, {x}) : Inner[y] \subseteq Reachable(Inner, {x})
    BY <2>1, ReachableClosed
  <2> QED  BY <2>2
<1>3. ASSUME NEW x \in Objects PROVE Below(x) \subseteq Objects
  BY ReachableInside, InnerType
<1>4. ASSUME NEW x \in Objects, NEW S \in SUBSET Objects, x \in S, \A y \in S : Inner[y] \subseteq S
      PROVE  Below(x) \subseteq S
  <2>1. S \in SUBSET DOMAIN Inner /\ {x} \subseteq S  BY <1>4, InnerType
  <2> QED  BY <1>4, <2>1, ReachableLeast
<1> HIDE DEF Below
<1>5. ASSUME NEW j \in Jobs PROVE Leaves(j) = {j}
  <2>1. j \in Objects /\ {j} \in SUBSET Objects  BY DEF Objects
  <2>2. \A y \in {j} : Inner[y] \subseteq {j}  BY InnerType
  <2>3. Below(j) \subseteq {j}  BY <1>4, <2>1, <2>2
  <2> QED  BY <1>1, <1>2, <2>1, <2>3
<1>6. ASSUME NEW x \in Containers, NEW l, l \in Leaves(x)
      PROVE  \E y \in Items(x) : l \in Leaves(y)
  <2> DEFINE S == {x} \cup UNION {Below(y) : y \in Items(x)}
  <2>1. x \in Objects /\ x \notin Jobs /\ Items(x) \subseteq Objects  BY ItemFacts
  <2>2. S \in SUBSET Objects  BY <1>3, <2>1
  <2>3. ASSUME NEW y \in S, NEW z \in Inner[y] PROVE z \in S
    <3>1. CASE y = x
      <4>1. z \in Items(x)  BY <2>3, <3>1, InnerType
      <4>2. z \in Below(z)  BY <1>2, <2>1, <4>1
      <4> QED  BY <4>1, <4>2
    <3>2. CASE y # x
      <4>1. PICK w \in Items(x) : y \in Below(w)  BY <2>3, <3>2
      <4>2. z \in Below(w)  BY <1>2, <2>1, <2>3, <4>1
      <4> QED  BY <4>1, <4>2
    <3> QED  BY <3>1, <3>2
  <2>4. Below(x) \subseteq S  BY <1>4, <2>1, <2>2, <2>3
  <2>5. l \in Jobs /\ l \in S /\ l # x  BY <1>1, <1>6, <2>1, <2>4
  <2>6. PICK y \in Items(x) : l \in Below(y)  BY <2>5
  <2> QED  BY <1>1, <2>5, <2>6
<1>7. ASSUME NEW x \in Containers, NEW y \in Items(x), NEW l \in Leaves(y)
      PROVE  l \in Leaves(x)
  <2>1. x \in Objects /\ y \in Objects  BY ItemFacts
  <2>2. y \in Below(x)  BY <1>2, <2>1, InnerType
  <2>3. Below(y) \subseteq Below(x)  BY <1>2, <1>3, <1>4, <2>1, <2>2
  <2> QED  BY <1>1, <1>7, <2>3
<1>8. \A x \in Objects : Leaves(x) \subseteq Jobs  BY <1>1
<1> QED  BY <1>5, <1>6, <1>7, <1>8

LEMMA LeavesExist ==
    ASSUME shape \in Shapes, NEW x \in Objects
    PROVE  Leaves(x) # {}
<1> DEFINE Bad == {y \in Objects : Leaves(y) = {}}
<1> SUFFICES ASSUME Bad # {} PROVE FALSE  OBVIOUS
<1>1. PICK y \in Bad : y \in Jobs \/ (y \in Containers /\ Items(y) \cap Bad = {})
  <2>1. Bad \in SUBSET Objects  OBVIOUS
  <2> HIDE DEF Bad
  <2> QED  BY <2>1, Nesting
<1>2. CASE y \in Jobs  BY <1>1, <1>2, LeavesFacts
<1>3. CASE y \in Containers /\ Items(y) \cap Bad = {}
  <2>1. First(y) \in Items(y) /\ First(y) \in Objects  BY <1>3, ItemFacts
  <2>2. Leaves(First(y)) # {}  BY <1>3, <2>1
  <2>3. Leaves(y) # {}  BY <1>3, <2>1, <2>2, LeavesFacts
  <2> QED  BY <1>1, <2>3
<1> QED  BY <1>1, <1>2, <1>3

\* The body of Ends, for any function in its place.
EndsAt(f, x) ==
    CASE Kind(x) = "job"   -> [head |-> {x}, tail |-> {x}]
      [] Kind(x) = "group" -> [head |-> UNION {f[y].head : y \in Items(x)},
                               tail |-> UNION {f[y].tail : y \in Items(x)}]
      [] OTHER             -> [head |-> f[First(x)].tail, tail |-> f[Last(x)].head]

EndsType == [head : SUBSET Jobs, tail : SUBSET Jobs]

LEMMA EndsAtType ==
    ASSUME shape \in Shapes, NEW f \in [Objects -> EndsType], NEW x \in Objects
    PROVE  EndsAt(f, x) \in EndsType
<1>1. CASE x \in Jobs
  <2>1. Kind(x) = "job"  BY <1>1 DEF Kind
  <2>2. EndsAt(f, x) = [head |-> {x}, tail |-> {x}]  BY <2>1 DEF EndsAt
  <2> QED  BY <1>1, <2>2 DEF EndsType
<1>2. CASE x \in Containers /\ Kind(x) = "group"
  <2>1. EndsAt(f, x) = [head |-> UNION {f[y].head : y \in Items(x)},
                        tail |-> UNION {f[y].tail : y \in Items(x)}]  BY <1>2 DEF EndsAt
  <2>2. \A y \in Items(x) : f[y] \in EndsType  BY <1>2, ItemFacts
  <2>3. \A y \in Items(x) : f[y].head \subseteq Jobs /\ f[y].tail \subseteq Jobs
    BY <2>2 DEF EndsType
  <2> QED  BY <2>1, <2>3 DEF EndsType
<1>3. CASE x \in Containers /\ Kind(x) = "chain"
  <2>1. EndsAt(f, x) = [head |-> f[First(x)].tail, tail |-> f[Last(x)].head]  BY <1>3 DEF EndsAt
  <2>2. f[First(x)] \in EndsType /\ f[Last(x)] \in EndsType  BY <1>3, ItemFacts
  <2> QED  BY <2>1, <2>2 DEF EndsType
<1> QED  BY <1>1, <1>2, <1>3, ItemFacts DEF Objects

\* It looks at the items only.
LEMMA EndsAtFrame ==
    ASSUME shape \in Shapes, NEW f, NEW g, NEW x \in Objects,
           x \in Containers => \A y \in Items(x) : f[y] = g[y]
    PROVE  EndsAt(f, x) = EndsAt(g, x)
<1>1. CASE x \in Jobs
  <2>1. Kind(x) = "job"  BY <1>1 DEF Kind
  <2> QED  BY <2>1 DEF EndsAt
<1>2. CASE x \in Containers /\ Kind(x) = "group"
  <2>1. /\ UNION {f[y].head : y \in Items(x)} = UNION {g[y].head : y \in Items(x)}
        /\ UNION {f[y].tail : y \in Items(x)} = UNION {g[y].tail : y \in Items(x)}
    BY <1>2
  <2> QED  BY <1>2, <2>1 DEF EndsAt
<1>3. CASE x \in Containers /\ Kind(x) = "chain"
  <2>1. f[First(x)] = g[First(x)] /\ f[Last(x)] = g[Last(x)]  BY <1>3, ItemFacts
  <2> QED  BY <1>3, <2>1 DEF EndsAt
<1> QED  BY <1>1, <1>2, <1>3, ItemFacts DEF Objects

\* The recursion of Ends is well-founded: it can be answered for the objects of
\* rank below n, whatever n.
LEMMA EndsDefined ==
    ASSUME shape \in Shapes
    PROVE  \E f \in [Objects -> EndsType] : \A x \in Objects : f[x] = EndsAt(f, x)
<1>1. PICK rank \in [Objects -> 0..Cardinality(Containers)] :
         \A x \in Containers : \A y \in Items(x) : rank[y] < rank[x]
  BY RankType
<1>2. Cardinality(Containers) \in Nat  BY ObjectsFinite, FS_CardinalityType
<1> DEFINE Solves(n, f) == \A x \in Objects : rank[x] < n => f[x] = EndsAt(f, x)
           Open == {n \in Nat : ~\E f \in [Objects -> EndsType] : Solves(n, f)}
<1>3. Open = {}
  <2> SUFFICES ASSUME Open # {} PROVE FALSE  OBVIOUS
  <2>1. PICK n \in Open : \A k \in Open : n <= k
    <3>1. Open \in SUBSET Nat  OBVIOUS
    <3> HIDE DEF Open
    <3> QED  BY <3>1, Smallest
  <2>2. n # 0
    <3> DEFINE f == [x \in Objects |-> [head |-> {}, tail |-> {}]]
    <3>1. f \in [Objects -> EndsType]  BY DEF EndsType
    <3>2. Solves(0, f)  BY <1>2
    <3> QED  BY <2>1, <3>1, <3>2
  <2>3. n \in Nat /\ n - 1 \in Nat /\ n - 1 \notin Open
    <3>1. n \in Nat /\ \A k \in Open : n <= k  BY <2>1
    <3> HIDE DEF Open
    <3>2. n - 1 \in Nat  BY <2>2, <3>1
    <3>3. ~(n <= n - 1)  BY <3>1
    <3> QED  BY <3>1, <3>2, <3>3
  <2>4. PICK f \in [Objects -> EndsType] : Solves(n - 1, f)  BY <2>3
  <2> DEFINE h == [x \in Objects |-> EndsAt(f, x)]
  <2>5. \A x \in Objects : h[x] = EndsAt(f, x)  OBVIOUS
  <2>6. h \in [Objects -> EndsType]  BY EndsAtType
  <2> HIDE DEF h
  <2>7. ASSUME NEW x \in Objects, rank[x] < n PROVE h[x] = EndsAt(h, x)
    <3>1. x \in Containers => \A y \in Items(x) : f[y] = h[y]
      <4> SUFFICES ASSUME x \in Containers, NEW y \in Items(x) PROVE f[y] = h[y]  OBVIOUS
      <4>1. y \in Objects /\ rank[y] < rank[x]  BY <1>1, ItemFacts
      <4>2. rank[y] < n - 1  BY <1>2, <2>3, <2>7, <4>1
      <4> QED  BY <2>4, <2>5, <4>1, <4>2
    <3> QED  BY <2>5, <3>1, EndsAtFrame
  <2>8. Solves(n, h)  BY <2>7
  <2> QED  BY <2>1, <2>6, <2>8
<1>4. Cardinality(Containers) + 1 \in Nat  BY <1>2
<1>5. PICK f \in [Objects -> EndsType] : Solves(Cardinality(Containers) + 1, f)
  BY <1>3, <1>4
<1>6. \A x \in Objects : rank[x] < Cardinality(Containers) + 1  BY <1>2
<1> QED  BY <1>5, <1>6

LEMMA EndsEquation ==
    ASSUME shape \in Shapes
    PROVE  /\ Ends \in [Objects -> EndsType]
           /\ \A x \in Objects : Ends[x] = EndsAt(Ends, x)
<1>1. PICK g \in [Objects -> EndsType] : \A x \in Objects : g[x] = EndsAt(g, x)
  BY EndsDefined
<1>2. g = [x \in Objects |-> EndsAt(g, x)]  BY <1>1
<1>3. Ends = CHOOSE f : f = [x \in Objects |-> EndsAt(f, x)]  BY DEF Ends, EndsAt
<1>4. Ends = [x \in Objects |-> EndsAt(Ends, x)]
  <2> DEFINE Fix(f) == f = [x \in Objects |-> EndsAt(f, x)]
  <2>1. Fix(g)  BY <1>2
  <2>2. Ends = CHOOSE f : Fix(f)  BY <1>3
  <2> HIDE DEF Fix
  <2>3. Fix(Ends)  BY <2>1, <2>2
  <2> QED  BY <2>3 DEF Fix
<1> DEFINE Bad == {x \in Objects : Ends[x] # g[x]}
<1>5. Bad = {}
  <2> SUFFICES ASSUME Bad # {} PROVE FALSE  OBVIOUS
  <2>1. PICK x \in Bad : x \in Jobs \/ (x \in Containers /\ Items(x) \cap Bad = {})
    <3>1. Bad \in SUBSET Objects  OBVIOUS
    <3> HIDE DEF Bad
    <3> QED  BY <3>1, Nesting
  <2>2. x \in Objects /\ Ends[x] # g[x]  OBVIOUS
  <2>3. x \in Containers => \A y \in Items(x) : Ends[y] = g[y]
    <3> SUFFICES ASSUME x \in Containers, NEW y \in Items(x) PROVE Ends[y] = g[y]  OBVIOUS
    <3>1. y \in Objects /\ x \notin Jobs  BY ItemFacts
    <3> QED  BY <2>1, <3>1
  <2>4. EndsAt(Ends, x) = EndsAt(g, x)  BY <2>2, <2>3, EndsAtFrame
  <2>5. Ends[x] = EndsAt(Ends, x)
    <3> DEFINE F == Ends
    <3>1. F = [y \in Objects |-> EndsAt(F, y)]  BY <1>4
    <3> HIDE DEF F
    <3>2. F[x] = EndsAt(F, x)  BY <2>2, <3>1
    <3> QED  BY <3>2 DEF F
  <2> QED  BY <1>1, <2>2, <2>4, <2>5
<1>6. \A x \in Objects : Ends[x] = g[x]  BY <1>5
<1>7. Ends = g
  <2>1. DOMAIN Ends = Objects /\ Ends = [x \in Objects |-> Ends[x]]
    <3> DEFINE F == Ends
    <3>1. F = [y \in Objects |-> EndsAt(F, y)]  BY <1>4
    <3> HIDE DEF F
    <3>2. DOMAIN F = Objects /\ F = [y \in Objects |-> F[y]]  BY <3>1
    <3> QED  BY <3>2 DEF F
  <2> QED  BY <1>6, <2>1
<1> QED  BY <1>1, <1>7

\* _head and _tail are jobs of the object.
LEMMA EndsFacts ==
    ASSUME shape \in Shapes
    PROVE  /\ \A j \in Jobs : Ends[j].head = {j} /\ Ends[j].tail = {j}
           /\ \A x \in Containers :
                 /\ Kind(x) = "group" =>
                       /\ \A l : l \in Ends[x].head <=> \E y \in Items(x) : l \in Ends[y].head
                       /\ \A l : l \in Ends[x].tail <=> \E y \in Items(x) : l \in Ends[y].tail
                 /\ Kind(x) = "chain" => /\ Ends[x].head = Ends[First(x)].tail
                                         /\ Ends[x].tail = Ends[Last(x)].head
<1>1. ASSUME NEW j \in Jobs PROVE Ends[j].head = {j} /\ Ends[j].tail = {j}
  <2>1. j \in Objects /\ Kind(j) = "job"  BY DEF Objects, Kind
  <2>2. EndsAt(Ends, j) = [head |-> {j}, tail |-> {j}]  BY <2>1 DEF EndsAt
  <2>3. Ends[j] = EndsAt(Ends, j)  BY <2>1, EndsEquation
  <2> QED  BY <2>2, <2>3
<1>2. ASSUME NEW x \in Containers, Kind(x) = "group"
      PROVE  /\ \A l : l \in Ends[x].head <=> \E y \in Items(x) : l \in Ends[y].head
             /\ \A l : l \in Ends[x].tail <=> \E y \in Items(x) : l \in Ends[y].tail
  <2>1. x \in Objects  BY DEF Objects
  <2>2. EndsAt(Ends, x) = [head |-> UNION {Ends[y].head : y \in Items(x)},
                           tail |-> UNION {Ends[y].tail : y \in Items(x)}]  BY <1>2 DEF EndsAt
  <2>3. Ends[x] = EndsAt(Ends, x)  BY <2>1, EndsEquation
  <2>4. /\ Ends[x].head = UNION {Ends[y].head : y \in Items(x)}
        /\ Ends[x].tail = UNION {Ends[y].tail : y \in Items(x)}  BY <2>2, <2>3
  <2> QED  BY <2>4
<1>3. ASSUME NEW x \in Containers, Kind(x) = "chain"
      PROVE  Ends[x].head = Ends[First(x)].tail /\ Ends[x].tail = Ends[Last(x)].head
  <2>1. x \in Objects  BY DEF Objects
  <2>2. EndsAt(Ends, x) = [head |-> Ends[First(x)].tail, tail |-> Ends[Last(x)].head]
    BY <1>3 DEF EndsAt
  <2>3. Ends[x] = EndsAt(Ends, x)  BY <2>1, EndsEquation
  <2> QED  BY <2>2, <2>3
<1> QED  BY <1>1, <1>2, <1>3

LEMMA EndsAreLeaves ==
    ASSUME shape \in Shapes, NEW x \in Objects
    PROVE  /\ Ends[x].head \subseteq Leaves(x) /\ Ends[x].head # {}
           /\ Ends[x].tail \subseteq Leaves(x) /\ Ends[x].tail # {}
<1> DEFINE Good(y) == /\ Ends[y].head \subseteq Leaves(y) /\ Ends[y].head # {}
                      /\ Ends[y].tail \subseteq Leaves(y) /\ Ends[y].tail # {}
           Bad == {y \in Objects : ~Good(y)}
<1> SUFFICES ASSUME Bad # {} PROVE FALSE  OBVIOUS
<1>1. PICK y \in Bad : y \in Jobs \/ (y \in Containers /\ Items(y) \cap Bad = {})
  <2>1. Bad \in SUBSET Objects  OBVIOUS
  <2> HIDE DEF Bad
  <2> QED  BY <2>1, Nesting
<1>2. y \in Objects /\ ~Good(y)  OBVIOUS
<1>3. CASE y \in Jobs  BY <1>2, <1>3, LeavesFacts, EndsFacts
<1>4. CASE y \in Containers /\ Items(y) \cap Bad = {}
  <2>1. \A z \in Items(y) : z \in Objects /\ Good(z) /\ Leaves(z) \subseteq Leaves(y)
    BY <1>4, ItemFacts, LeavesFacts
  <2>2. First(y) \in Items(y) /\ Last(y) \in Items(y) /\ Kind(y) \in {"chain", "group"}
    BY <1>4, ItemFacts
  <2>3. CASE Kind(y) = "chain"
    <3>1. Ends[y].head = Ends[First(y)].tail /\ Ends[y].tail = Ends[Last(y)].head
      BY <1>4, <2>3, EndsFacts
    <3> QED  BY <1>2, <2>1, <2>2, <3>1
  <2>4. CASE Kind(y) = "group"
    <3>1. /\ \A l : l \in Ends[y].head <=> \E z \in Items(y) : l \in Ends[z].head
          /\ \A l : l \in Ends[y].tail <=> \E z \in Items(y) : l \in Ends[z].tail
      BY <1>4, <2>4, EndsFacts
    <3> QED  BY <1>2, <2>1, <2>2, <3>1
  <2> QED  BY <2>2, <2>3, <2>4
<1> QED  BY <1>1, <1>3, <1>4

-----------------------------------------------------------------------------
(* Visited and Meaning *)

LEMMA VisitedFacts ==
    ASSUME shape \in Shapes, NEW g, \A x \in Objects : DOMAIN g[x] \subseteq Objects
    PROVE  /\ Visited(g) \subseteq Objects
           /\ shape.top \in Visited(g)
           /\ \A x \in Visited(g) : DOMAIN g[x] \subseteq Visited(g)
<1> DEFINE next == [x \in Objects |-> DOMAIN g[x]]
<1>1. {shape.top} \subseteq DOMAIN next  BY ShapesType
<1>2. DOMAIN next = Objects /\ \A y \in Objects : next[y] = DOMAIN g[y]  OBVIOUS
<1>3. Visited(g) = Reachable(next, {shape.top})  BY DEF Visited
<1> HIDE DEF next
<1>4. \A y \in DOMAIN next : next[y] \subseteq DOMAIN next  BY <1>2
<1>5. /\ {shape.top} \subseteq Reachable(next, {shape.top})
      /\ \A y \in Reachable(next, {shape.top}) : next[y] \subseteq Reachable(next, {shape.top})
  BY <1>1, <1>4, ReachableClosed
<1>6. Visited(g) \subseteq Objects  BY <1>2, <1>3, ReachableInside
<1>7. shape.top \in Visited(g)  BY <1>3, <1>5
<1>8. ASSUME NEW x \in Visited(g) PROVE DOMAIN g[x] \subseteq Visited(g)
  <2>1. next[x] = DOMAIN g[x]  BY <1>2, <1>6
  <2>2. next[x] \subseteq Visited(g)  BY <1>3, <1>5
  <2> QED  BY <2>1, <2>2
<1> QED  BY <1>6, <1>7, <1>8

\* More is visited when the graphs have more vertices.
LEMMA VisitedGrows ==
    ASSUME shape \in Shapes, NEW g, NEW h,
           \A x \in Objects : DOMAIN g[x] \subseteq DOMAIN h[x] /\ DOMAIN h[x] \subseteq Objects
    PROVE  Visited(g) \subseteq Visited(h)
<1> DEFINE next == [x \in Objects |-> DOMAIN g[x]]
           more == [x \in Objects |-> DOMAIN h[x]]
<1>1. DOMAIN next = DOMAIN more /\ {shape.top} \subseteq DOMAIN next  BY ShapesType
<1>2. \A y \in DOMAIN next : next[y] \subseteq more[y] /\ more[y] \subseteq DOMAIN next  OBVIOUS
<1>3. Visited(g) = Reachable(next, {shape.top}) /\ Visited(h) = Reachable(more, {shape.top})
  BY DEF Visited
<1> HIDE DEF next, more
<1> QED  BY <1>1, <1>2, <1>3, ReachableGrows

InOneChain(k, u, w) ==
    /\ Kind(k) = "chain"
    /\ \E n, m \in DOMAIN shape.items[k] :
          n < m /\ u = shape.items[k][n] /\ w = shape.items[k][m]

LEMMA InChainsFacts ==
    ASSUME NEW xs
    PROVE  /\ \A p \in InChains(xs) : \E k \in xs : \E u, w : p = <<u, w>> /\ InOneChain(k, u, w)
           /\ \A k \in xs : \A u, w : InOneChain(k, u, w) => <<u, w>> \in InChains(xs)
<1> DEFINE Pairs(k) == {<<shape.items[k][p[1]], shape.items[k][p[2]]>> :
                          p \in {q \in (DOMAIN shape.items[k]) \X (DOMAIN shape.items[k]) :
                                    q[1] < q[2]}}
<1>1. InChains(xs) = UNION {Pairs(k) : k \in {x \in xs : Kind(x) = "chain"}}
  BY DEF InChains
<1>2. ASSUME NEW k, NEW p \in Pairs(k)
      PROVE  \E u, w : /\ p = <<u, w>>
                       /\ \E n, m \in DOMAIN shape.items[k] :
                             n < m /\ u = shape.items[k][n] /\ w = shape.items[k][m]
  <2>1. PICK q \in (DOMAIN shape.items[k]) \X (DOMAIN shape.items[k]) :
           q[1] < q[2] /\ p = <<shape.items[k][q[1]], shape.items[k][q[2]]>>
    BY <1>2
  <2>2. q[1] \in DOMAIN shape.items[k] /\ q[2] \in DOMAIN shape.items[k]  OBVIOUS
  <2> QED  BY <2>1, <2>2
<1>3. ASSUME NEW k, NEW n \in DOMAIN shape.items[k], NEW m \in DOMAIN shape.items[k], n < m
      PROVE  <<shape.items[k][n], shape.items[k][m]>> \in Pairs(k)
  <2>1. <<n, m>> \in {q \in (DOMAIN shape.items[k]) \X (DOMAIN shape.items[k]) : q[1] < q[2]}
    BY <1>3
  <2>2. <<n, m>>[1] = n /\ <<n, m>>[2] = m  OBVIOUS
  <2> QED  BY <2>1, <2>2
<1> HIDE DEF Pairs
<1>4. ASSUME NEW p \in InChains(xs)
      PROVE  \E k \in xs : \E u, w : p = <<u, w>> /\ InOneChain(k, u, w)
  <2>1. PICK k \in xs : Kind(k) = "chain" /\ p \in Pairs(k)  BY <1>1
  <2> QED  BY <1>2, <2>1 DEF InOneChain
<1>5. ASSUME NEW k \in xs, NEW u, NEW w, InOneChain(k, u, w) PROVE <<u, w>> \in InChains(xs)
  BY <1>1, <1>3, <1>5 DEF InOneChain
<1> QED  BY <1>4, <1>5

\* The pairs of jobs that calls of on_done and the chains among xs order.
Ordered(xs, calls) == UNION {Leaves(p[1]) \X Leaves(p[2]) : p \in calls \cup InChains(xs)}

LEMMA OrderedFacts ==
    ASSUME NEW xs, NEW calls \in SUBSET (Objects \X Objects), NEW i, NEW j
    PROVE  <<i, j>> \in Ordered(xs, calls) <=>
              \E u, w : /\ i \in Leaves(u) /\ j \in Leaves(w)
                        /\ \/ <<u, w>> \in calls
                           \/ \E k \in xs : InOneChain(k, u, w)
<1>1. ASSUME <<i, j>> \in Ordered(xs, calls)
      PROVE  \E u, w : /\ i \in Leaves(u) /\ j \in Leaves(w)
                       /\ \/ <<u, w>> \in calls
                          \/ \E k \in xs : InOneChain(k, u, w)
  <2>1. PICK p \in calls \cup InChains(xs) : <<i, j>> \in Leaves(p[1]) \X Leaves(p[2])
    BY <1>1 DEF Ordered
  <2>2. i \in Leaves(p[1]) /\ j \in Leaves(p[2])  BY <2>1
  <2>3. CASE p \in calls
    <3>1. p = <<p[1], p[2]>>  BY <2>3
    <3> QED  BY <2>2, <2>3, <3>1
  <2>4. CASE p \in InChains(xs)
    <3>1. PICK k \in xs : \E u, w : p = <<u, w>> /\ InOneChain(k, u, w)
      BY <2>4, InChainsFacts
    <3>2. PICK u, w : p = <<u, w>> /\ InOneChain(k, u, w)  BY <3>1
    <3>3. p[1] = u /\ p[2] = w  BY <3>2
    <3> QED  BY <2>2, <3>2, <3>3
  <2> QED  BY <2>3, <2>4
<1>2. ASSUME NEW u, NEW w, i \in Leaves(u), j \in Leaves(w),
             <<u, w>> \in calls \/ \E k \in xs : InOneChain(k, u, w)
      PROVE  <<i, j>> \in Ordered(xs, calls)
  <2>1. <<u, w>> \in calls \cup InChains(xs)  BY <1>2, InChainsFacts
  <2> DEFINE p == <<u, w>>
  <2>2. p[1] = u /\ p[2] = w  OBVIOUS
  <2>3. <<i, j>> \in Leaves(p[1]) \X Leaves(p[2])  BY <1>2, <2>2
  <2> HIDE DEF p
  <2>4. p \in calls \cup InChains(xs)  BY <2>1 DEF p
  <2> QED  BY <2>3, <2>4 DEF Ordered
<1> QED  BY <1>1, <1>2

SmallestOrder(m, xs, calls) ==
    /\ m \in [jobs : SUBSET Jobs, before : [Jobs -> SUBSET Jobs]]
    /\ \A l : l \in m.jobs <=> \E x \in xs : l \in Leaves(x)
    /\ \A i, j \in Jobs : <<i, j>> \in Ordered(xs, calls) => i \in m.before[j]
    /\ \A i, j, k \in Jobs : i \in m.before[k] /\ k \in m.before[j] => i \in m.before[j]
    /\ \A j \in Jobs, S \in SUBSET Jobs :
          (\A i, k \in Jobs : <<i, k>> \in Ordered(xs, calls) /\ k \in S \cup {j} => i \in S)
             => m.before[j] \subseteq S

\* The order is the smallest transitive one with these pairs.
LEMMA MeaningFacts ==
    ASSUME shape \in Shapes, NEW xs \in SUBSET Objects, NEW calls \in SUBSET (Objects \X Objects),
           NEW m, m = Meaning(xs, calls)
    PROVE  SmallestOrder(m, xs, calls)
<1> DEFINE next == [j \in Jobs |-> {i \in Jobs : <<i, j>> \in Ordered(xs, calls)}]
<1>1. m = [jobs |-> UNION {Leaves(x) : x \in xs},
           before |-> [j \in Jobs |-> Reachable(next, next[j])]]
  BY DEF Meaning, Ordered
<1>2. /\ DOMAIN next = Jobs
      /\ \A j \in Jobs : next[j] = {i \in Jobs : <<i, j>> \in Ordered(xs, calls)}
  OBVIOUS
<1> HIDE DEF next
<1>3. /\ m.jobs = UNION {Leaves(x) : x \in xs}
      /\ \A j \in Jobs : m.before[j] = Reachable(next, next[j])
      /\ DOMAIN m.before = Jobs
  BY <1>1
<1>4. \A j \in Jobs : next[j] \subseteq Jobs  BY <1>2
<1>5. \A j \in Jobs : m.before[j] \subseteq Jobs  BY <1>2, <1>3, ReachableInside
<1>6. ASSUME NEW j \in Jobs
      PROVE  next[j] \subseteq m.before[j] /\ \A k \in m.before[j] : next[k] \subseteq m.before[j]
  <2>1. next[j] \subseteq DOMAIN next /\ \A y \in DOMAIN next : next[y] \subseteq DOMAIN next
    BY <1>2, <1>4
  <2>2. /\ next[j] \subseteq Reachable(next, next[j])
        /\ \A y \in Reachable(next, next[j]) : next[y] \subseteq Reachable(next, next[j])
    BY <2>1, ReachableClosed
  <2> QED  BY <1>3, <2>2
<1>7. m \in [jobs : SUBSET Jobs, before : [Jobs -> SUBSET Jobs]]
  <2>1. UNION {Leaves(x) : x \in xs} \subseteq Jobs  BY LeavesFacts
  <2>2. \A j \in Jobs : Reachable(next, next[j]) \subseteq Jobs  BY <1>3, <1>5
  <2> QED  BY <1>1, <2>1, <2>2
<1>8. ASSUME NEW j \in Jobs, NEW S \in SUBSET Jobs, next[j] \subseteq S, \A k \in S : next[k] \subseteq S
      PROVE  m.before[j] \subseteq S
  <2>1. S \in SUBSET DOMAIN next  BY <1>2
  <2>2. Reachable(next, next[j]) \subseteq S  BY <1>8, <2>1, ReachableLeast
  <2> QED  BY <1>3, <2>2
<1>9. ASSUME NEW i \in Jobs, NEW j \in Jobs, NEW k \in Jobs, i \in m.before[k], k \in m.before[j]
      PROVE  i \in m.before[j]
  <2>1. next[k] \subseteq m.before[j] /\ \A y \in m.before[j] : next[y] \subseteq m.before[j]
    BY <1>6, <1>9
  <2>2. m.before[j] \in SUBSET Jobs  BY <1>5
  <2>3. m.before[k] \subseteq m.before[j]  BY <1>8, <2>1, <2>2
  <2> QED  BY <1>9, <2>3
<1>10. ASSUME NEW j \in Jobs, NEW S \in SUBSET Jobs,
              \A i, k \in Jobs : <<i, k>> \in Ordered(xs, calls) /\ k \in S \cup {j} => i \in S
       PROVE  m.before[j] \subseteq S
  <2>1. \A k \in S \cup {j} : next[k] \subseteq S
    <3> SUFFICES ASSUME NEW k \in S \cup {j}, NEW i \in next[k] PROVE i \in S  OBVIOUS
    <3>1. k \in Jobs  OBVIOUS
    <3>2. i \in Jobs /\ <<i, k>> \in Ordered(xs, calls)  BY <1>2, <3>1
    <3> QED  BY <1>10, <3>1, <3>2
  <2> QED  BY <1>8, <2>1
<1>11. \A i, j \in Jobs : <<i, j>> \in Ordered(xs, calls) => i \in m.before[j]
  BY <1>2, <1>6
<1>12. \A l : l \in m.jobs <=> \E x \in xs : l \in Leaves(x)  BY <1>3
<1> QED  BY <1>7, <1>9, <1>10, <1>11, <1>12 DEF SmallestOrder

-----------------------------------------------------------------------------
(* The program: what the graphs of the objects hold *)

Own(x) == IF x \in Jobs THEN {x} ELSE Items(x)

Linked(x) == {y \in Objects : <<x, y>> \in links}

\* What follows v in the chain x.
Following(x, v) ==
    {y \in Objects : /\ Kind(x) = "chain"
                     /\ \E n \in DOMAIN shape.items[x] :
                           /\ n < Len(shape.items[x])
                           /\ v = shape.items[x][n] /\ y = shape.items[x][n + 1]}

ProgramInv ==
    /\ shape \in Shapes
    /\ links \subseteq Objects \X Objects
    /\ DOMAIN graph = Objects
    /\ \A x \in Objects : DOMAIN graph[x] = Own(x) \cup Linked(x)
    /\ \A x \in Objects : \A v \in DOMAIN graph[x] :
          graph[x][v] = Following(x, v) \cup (IF v \in Sources(x) THEN Linked(x) ELSE {})
    /\ \A x, y \in Objects : <<x, y>> \in links => x \in Visited(graph)
    /\ meaning = Meaning(Visited(graph), links)
    /\ Acyclic(meaning)

LEMMA OwnType ==
    ASSUME shape \in Shapes, NEW x \in Objects
    PROVE  /\ Own(x) \subseteq Objects
           /\ Sources(x) \subseteq Own(x)
           /\ x \in Jobs => Own(x) = {x} /\ Sources(x) = {x}
           /\ x \in Containers => Own(x) = Items(x)
<1>1. CASE x \in Jobs
  <2>1. Kind(x) = "job" /\ x \notin Containers  BY <1>1, ObjectsFinite DEF Kind
  <2> QED  BY <1>1, <2>1 DEF Own, Sources
<1>2. CASE x \in Containers
  <2>1. Own(x) = Items(x)  BY <1>2, ItemFacts DEF Own
  <2>2. CASE Kind(x) = "chain"
    <3>1. Sources(x) = {Last(x)}  BY <2>2 DEF Sources
    <3> QED  BY <1>2, <2>1, <3>1, ItemFacts
  <2>3. CASE Kind(x) = "group"
    <3>1. Sources(x) = Items(x)  BY <2>3 DEF Sources
    <3> QED  BY <1>2, <2>1, <3>1, ItemFacts
  <2> QED  BY <1>2, <2>2, <2>3, ItemFacts
<1> QED  BY <1>1, <1>2 DEF Objects

LEMMA GraphFacts ==
    ASSUME ProgramInv, NEW x \in Visited(graph)
    PROVE  /\ x \in Objects
           /\ DOMAIN graph[x] \subseteq Objects
           /\ DOMAIN graph[x] \subseteq Visited(graph)
           /\ Own(x) \subseteq Visited(graph)
           /\ Visited(graph) \subseteq Objects
<1>1. \A y \in Objects : DOMAIN graph[y] \subseteq Objects
  <2> SUFFICES ASSUME NEW y \in Objects PROVE DOMAIN graph[y] \subseteq Objects  OBVIOUS
  <2>1. DOMAIN graph[y] = Own(y) \cup Linked(y)  BY DEF ProgramInv
  <2>2. Own(y) \subseteq Objects  BY OwnType DEF ProgramInv
  <2> QED  BY <2>1, <2>2 DEF Linked
<1>2. /\ Visited(graph) \subseteq Objects
      /\ \A y \in Visited(graph) : DOMAIN graph[y] \subseteq Visited(graph)
  BY <1>1, VisitedFacts DEF ProgramInv
<1>3. DOMAIN graph[x] = Own(x) \cup Linked(x)  BY <1>2 DEF ProgramInv
<1> QED  BY <1>1, <1>2, <1>3

\* The edges of a visited object: between its own vertices, or to what on_done added.
LEMMA EdgeFacts ==
    ASSUME ProgramInv, NEW x \in Visited(graph), NEW v \in DOMAIN graph[x], NEW n
    PROVE  n \in graph[x][v] <=> \/ n \in Following(x, v)
                                 \/ v \in Sources(x) /\ n \in Linked(x)
<1>1. x \in Objects  BY GraphFacts
<1>2. graph[x][v] = Following(x, v) \cup (IF v \in Sources(x) THEN Linked(x) ELSE {})
  BY <1>1 DEF ProgramInv
<1> QED  BY <1>2

LEMMA FollowingFacts ==
    ASSUME shape \in Shapes, NEW x \in Objects, NEW v, NEW n \in Following(x, v)
    PROVE  /\ x \in Containers /\ Kind(x) = "chain" /\ v \in Items(x) /\ n \in Items(x)
           /\ InOneChain(x, v, n)
<1>1. x \in Containers /\ Kind(x) = "chain"
  <2>1. Kind(x) = "chain"  BY DEF Following
  <2>2. x \notin Jobs  BY <2>1 DEF Kind
  <2> QED  BY <2>1, <2>2 DEF Objects
<1>2. PICK m \in DOMAIN shape.items[x] :
         /\ m < Len(shape.items[x]) /\ v = shape.items[x][m] /\ n = shape.items[x][m + 1]
  BY DEF Following
<1>3. /\ Len(shape.items[x]) \in Nat /\ DOMAIN shape.items[x] = 1..Len(shape.items[x])
      /\ \A y : y \in Items(x) <=> \E k \in 1..Len(shape.items[x]) : y = shape.items[x][k]
  BY <1>1, ItemFacts
<1>4. m \in 1..Len(shape.items[x]) /\ m + 1 \in 1..Len(shape.items[x]) /\ m < m + 1
  BY <1>2, <1>3
<1>5. v \in Items(x) /\ n \in Items(x)  BY <1>2, <1>3, <1>4
<1>6. InOneChain(x, v, n)  BY <1>1, <1>2, <1>3, <1>4 DEF InOneChain
<1> QED  BY <1>1, <1>5, <1>6

\* The edges of the merged graph lead from jobs to jobs ...
LEMMA ConnectedFacts ==
    ASSUME NEW i, NEW j
    PROVE  <<i, j>> \in Connected <=>
              \E x \in Visited(graph) : \E v \in DOMAIN graph[x] : \E n \in graph[x][v] :
                 i \in Ends[v].tail /\ j \in Ends[n].head
<1>1. ASSUME <<i, j>> \in Connected
      PROVE  \E x \in Visited(graph) : \E v \in DOMAIN graph[x] : \E n \in graph[x][v] :
                i \in Ends[v].tail /\ j \in Ends[n].head
  <2>1. PICK x \in Visited(graph) : <<i, j>> \in Merged(graph[x])  BY <1>1 DEF Connected
  <2>2. PICK v \in DOMAIN graph[x] :
           <<i, j>> \in Ends[v].tail \X UNION {Ends[n].head : n \in graph[x][v]}
    BY <2>1 DEF Merged
  <2> QED  BY <2>2
<1>2. ASSUME NEW x \in Visited(graph), NEW v \in DOMAIN graph[x], NEW n \in graph[x][v],
             i \in Ends[v].tail, j \in Ends[n].head
      PROVE  <<i, j>> \in Connected
  <2>1. <<i, j>> \in Ends[v].tail \X UNION {Ends[k].head : k \in graph[x][v]}  BY <1>2
  <2>2. <<i, j>> \in Merged(graph[x])  BY <2>1 DEF Merged
  <2> QED  BY <2>2 DEF Connected
<1> QED  BY <1>1, <1>2

LEMMA DelayedFacts ==
    ASSUME ProgramInv
    PROVE  /\ meaning \in [jobs : SUBSET Jobs, before : [Jobs -> SUBSET Jobs]]
           /\ \A l : l \in Delayed <=> \E x \in Visited(graph) : l \in Leaves(x)
           /\ \A i, j \in Jobs : <<i, j>> \in Ordered(Visited(graph), links) => i \in Before(j)
           /\ \A i, j, k \in Jobs : i \in Before(k) /\ k \in Before(j) => i \in Before(j)
           /\ \A j \in Jobs, S \in SUBSET Jobs :
                 (\A i, k \in Jobs : <<i, k>> \in Ordered(Visited(graph), links) /\ k \in S \cup {j}
                                        => i \in S)
                    => Before(j) \subseteq S
<1>1. \A y \in Objects : DOMAIN graph[y] \subseteq Objects
  <2> SUFFICES ASSUME NEW y \in Objects PROVE DOMAIN graph[y] \subseteq Objects  OBVIOUS
  <2>1. DOMAIN graph[y] = Own(y) \cup Linked(y)  BY DEF ProgramInv
  <2>2. Own(y) \subseteq Objects  BY OwnType DEF ProgramInv
  <2> QED  BY <2>1, <2>2 DEF Linked
<1>2. Visited(graph) \in SUBSET Objects /\ links \in SUBSET (Objects \X Objects) /\ shape \in Shapes
  BY <1>1, VisitedFacts DEF ProgramInv
<1>3. PICK xs \in SUBSET Objects : xs = Visited(graph)  BY <1>2
<1>4. PICK calls \in SUBSET (Objects \X Objects) : calls = links  BY <1>2
<1>5. PICK m : m = meaning  OBVIOUS
<1>6. m = Meaning(xs, calls)  BY <1>3, <1>5, <1>4 DEF ProgramInv
<1>7. SmallestOrder(m, xs, calls)  BY <1>2, <1>6, MeaningFacts
<1>8. SmallestOrder(meaning, Visited(graph), links)  BY <1>3, <1>4, <1>5, <1>7
<1>9. /\ meaning \in [jobs : SUBSET Jobs, before : [Jobs -> SUBSET Jobs]]
      /\ \A l : l \in Delayed <=> \E x \in Visited(graph) : l \in Leaves(x)
  BY <1>8 DEF SmallestOrder, Delayed
<1>10. /\ \A i, j \in Jobs : <<i, j>> \in Ordered(Visited(graph), links) => i \in Before(j)
       /\ \A i, j, k \in Jobs : i \in Before(k) /\ k \in Before(j) => i \in Before(j)
  BY <1>8 DEF SmallestOrder, Before
<1>11. \A j \in Jobs, S \in SUBSET Jobs :
          (\A i, k \in Jobs : <<i, k>> \in Ordered(Visited(graph), links) /\ k \in S \cup {j}
                                 => i \in S)
             => Before(j) \subseteq S
  BY <1>8 DEF SmallestOrder, Before
<1> QED  BY <1>9, <1>10, <1>11

\* ... of visited objects, in the order that the documentation gives them.
LEMMA ConnectedOrdered ==
    ASSUME ProgramInv, NEW i, NEW j, <<i, j>> \in Connected
    PROVE  /\ i \in Delayed /\ j \in Delayed /\ i \in Jobs /\ j \in Jobs
           /\ i \in Before(j)
<1>x. PICK x \in Visited(graph) : \E v \in DOMAIN graph[x] : \E n \in graph[x][v] :
         i \in Ends[v].tail /\ j \in Ends[n].head
  BY ConnectedFacts
<1>v. PICK v \in DOMAIN graph[x] : \E n \in graph[x][v] :
         i \in Ends[v].tail /\ j \in Ends[n].head
  BY <1>x
<1>1. PICK n \in graph[x][v] : i \in Ends[v].tail /\ j \in Ends[n].head  BY <1>v
<1>2. /\ shape \in Shapes /\ x \in Objects /\ v \in Visited(graph)
      /\ links \in SUBSET (Objects \X Objects) /\ Visited(graph) \subseteq Objects
  BY GraphFacts DEF ProgramInv
<1>3. n \in Following(x, v) \/ (v \in Sources(x) /\ n \in Linked(x))  BY EdgeFacts
<1>4. n \in Visited(graph)
  <2>1. CASE n \in Following(x, v)
    <3>1. x \in Containers /\ n \in Items(x)  BY <1>2, <2>1, FollowingFacts
    <3>2. n \in Own(x)  BY <1>2, <3>1, OwnType
    <3> QED  BY <3>2, GraphFacts
  <2>2. CASE n \in Linked(x)
    <3>1. n \in DOMAIN graph[x]  BY <1>2, <2>2 DEF ProgramInv
    <3> QED  BY <3>1, GraphFacts
  <2> QED  BY <1>3, <2>1, <2>2
<1>5. v \in Objects /\ n \in Objects  BY <1>2, <1>4
<1>6. i \in Leaves(v) /\ j \in Leaves(n)  BY <1>1, <1>2, <1>5, EndsAreLeaves
<1>7. i \in Jobs /\ j \in Jobs  BY <1>2, <1>5, <1>6, LeavesFacts
<1>8. i \in Delayed /\ j \in Delayed  BY <1>2, <1>4, <1>6, DelayedFacts
<1>9. <<i, j>> \in Ordered(Visited(graph), links)
  <2>1. CASE n \in Following(x, v)
    <3>1. InOneChain(x, v, n)  BY <1>2, <2>1, FollowingFacts
    <3> QED  BY <1>2, <1>6, <3>1, OrderedFacts
  <2>2. CASE v \in Sources(x) /\ n \in Linked(x)
    <3>1. i \in Leaves(x)
      <4>1. CASE x \in Jobs
        <5>1. v = x  BY <1>2, <2>2, <4>1, OwnType
        <5> QED  BY <1>6, <5>1
      <4>2. CASE x \in Containers
        <5>1. v \in Items(x)  BY <1>2, <2>2, <4>2, OwnType
        <5> QED  BY <1>2, <1>6, <4>2, <5>1, LeavesFacts
      <4> QED  BY <1>2, <4>1, <4>2 DEF Objects
    <3>2. <<x, n>> \in links  BY <2>2 DEF Linked
    <3> QED  BY <1>2, <1>6, <3>1, <3>2, OrderedFacts
  <2> QED  BY <1>3, <2>1, <2>2
<1>10. i \in Before(j)  BY <1>7, <1>9, DelayedFacts
<1> QED  BY <1>7, <1>8, <1>10

\* The vertices of the merged graph are the jobs below the visited objects.
LEMMA VerticesDelayed ==
    ASSUME ProgramInv
    PROVE  Vertices = Delayed
<1>1. shape \in Shapes  BY DEF ProgramInv
<1>2. \A l : l \in Vertices <=>
               \E x \in Visited(graph) : \E v \in DOMAIN graph[x] : l \in Ends[v].tail
  <2>1. ASSUME NEW l \in Vertices
        PROVE  \E x \in Visited(graph) : \E v \in DOMAIN graph[x] : l \in Ends[v].tail
    <3>1. PICK v \in UNION {DOMAIN graph[x] : x \in Visited(graph)} : l \in Ends[v].tail
      BY DEF Vertices
    <3> QED  BY <3>1
  <2>2. ASSUME NEW l, NEW x \in Visited(graph), NEW v \in DOMAIN graph[x], l \in Ends[v].tail
        PROVE  l \in Vertices
    <3>1. v \in UNION {DOMAIN graph[y] : y \in Visited(graph)}  OBVIOUS
    <3> QED  BY <2>2, <3>1 DEF Vertices
  <2> QED  BY <2>1, <2>2
<1>3. ASSUME NEW l \in Vertices PROVE l \in Delayed
  <2>x. PICK x \in Visited(graph) : \E v \in DOMAIN graph[x] : l \in Ends[v].tail  BY <1>2
  <2>1. PICK v \in DOMAIN graph[x] : l \in Ends[v].tail  BY <2>x
  <2>2. v \in Visited(graph) /\ v \in Objects  BY GraphFacts
  <2>3. l \in Leaves(v)  BY <1>1, <2>1, <2>2, EndsAreLeaves
  <2> QED  BY <2>2, <2>3, DelayedFacts
<1>4. ASSUME NEW x \in Visited(graph) PROVE Leaves(x) \subseteq Vertices
  <2> DEFINE Bad == {y \in Visited(graph) : ~(Leaves(y) \subseteq Vertices)}
  <2> SUFFICES ASSUME Bad # {} PROVE FALSE  OBVIOUS
  <2>1. PICK y \in Bad : y \in Jobs \/ (y \in Containers /\ Items(y) \cap Bad = {})
    <3>1. Bad \in SUBSET Objects  BY GraphFacts
    <3> HIDE DEF Bad
    <3> QED  BY <1>1, <3>1, Nesting
  <2>2. y \in Visited(graph) /\ y \in Objects /\ ~(Leaves(y) \subseteq Vertices)
    BY <2>1, GraphFacts
  <2>3. Own(y) \subseteq DOMAIN graph[y] /\ Own(y) \subseteq Visited(graph)
    BY <2>2, GraphFacts DEF ProgramInv
  <2>4. CASE y \in Jobs
    <3>1. y \in DOMAIN graph[y]  BY <1>1, <2>2, <2>3, <2>4, OwnType
    <3>2. Ends[y].tail = {y} /\ Leaves(y) = {y}  BY <1>1, <2>4, EndsFacts, LeavesFacts
    <3>3. y \in Vertices  BY <1>2, <2>2, <3>1, <3>2
    <3> QED  BY <2>2, <3>2, <3>3
  <2>5. CASE y \in Containers /\ Items(y) \cap Bad = {}
    <3>1. Items(y) \subseteq Visited(graph)  BY <1>1, <2>2, <2>3, <2>5, OwnType
    <3>2. \A z \in Items(y) : Leaves(z) \subseteq Vertices  BY <2>5, <3>1
    <3>3. Leaves(y) \subseteq Vertices  BY <1>1, <2>5, <3>2, LeavesFacts
    <3> QED  BY <2>2, <3>3
  <2> QED  BY <2>1, <2>4, <2>5
<1>5. \A l \in Delayed : l \in Vertices  BY <1>4, DelayedFacts
<1> QED  BY <1>3, <1>5

-----------------------------------------------------------------------------
(* The program, step by step *)

\* The nesting does not change; neither does what follows from it.
LEMMA ShapeFrame ==
    ASSUME shape' = shape
    PROVE  /\ \A x : Kind(x)' = Kind(x) /\ Items(x)' = Items(x) /\ Own(x)' = Own(x)
           /\ \A x : Sources(x)' = Sources(x)
           /\ \A x, v : Following(x, v)' = Following(x, v)
           /\ \A x : Leaves(x)' = Leaves(x)
<1>1. ASSUME NEW x PROVE Kind(x)' = Kind(x) /\ Items(x)' = Items(x)
  BY DEF Kind, Items
<1>2. ASSUME NEW x PROVE Own(x)' = Own(x)  BY <1>1 DEF Own
<1>3. ASSUME NEW x PROVE Sources(x)' = Sources(x)  BY <1>1 DEF Sources, Last
<1>4. ASSUME NEW x, NEW v PROVE Following(x, v)' = Following(x, v)  BY <1>1 DEF Following
<1>5. ASSUME NEW x PROVE Leaves(x)' = Leaves(x)
  <2>1. [y \in Objects |-> IF y \in Jobs THEN {} ELSE Items(y)']
           = [y \in Objects |-> IF y \in Jobs THEN {} ELSE Items(y)]
    BY <1>1
  <2> QED  BY <2>1 DEF Leaves
<1> QED  BY <1>1, <1>2, <1>3, <1>4, <1>5

LEMMA MeaningFrame ==
    ASSUME shape' = shape, NEW xs, NEW calls
    PROVE  Meaning(xs, calls)' = Meaning(xs, calls)
<1> DEFINE Pairs(k) == {<<shape.items[k][p[1]], shape.items[k][p[2]]>> :
                          p \in {q \in (DOMAIN shape.items[k]) \X (DOMAIN shape.items[k]) :
                                    q[1] < q[2]}}
<1>1. InChains(xs)' = InChains(xs)
  <2>1. InChains(xs) = UNION {Pairs(k) : k \in {x \in xs : Kind(x) = "chain"}}  BY DEF InChains
  <2>2. InChains(xs)' = UNION {Pairs(k)' : k \in {x \in xs : Kind(x)' = "chain"}}  BY DEF InChains
  <2>3. \A k : Pairs(k)' = Pairs(k)  OBVIOUS
  <2>4. \A k : Kind(k)' = Kind(k)  BY ShapeFrame
  <2> HIDE DEF Pairs
  <2>5. {x \in xs : Kind(x)' = "chain"} = {x \in xs : Kind(x) = "chain"}  BY <2>4
  <2> QED  BY <2>1, <2>2, <2>3, <2>5
<1>2. Ordered(xs, calls)' = Ordered(xs, calls)
  <2>1. \A x : Leaves(x)' = Leaves(x)  BY ShapeFrame
  <2>2. \A p : Leaves(p[1])' \X Leaves(p[2])' = Leaves(p[1]) \X Leaves(p[2])  BY <2>1
  <2>3. Ordered(xs, calls)' = UNION {Leaves(p[1])' \X Leaves(p[2])' : p \in calls \cup InChains(xs)'}
    BY DEF Ordered
  <2> QED  BY <1>1, <2>2, <2>3 DEF Ordered
<1> DEFINE next == [j \in Jobs |-> {i \in Jobs : <<i, j>> \in Ordered(xs, calls)}]
           jobs == UNION {Leaves(x) : x \in xs}
<1>3. Meaning(xs, calls) = [jobs |-> jobs, before |-> [j \in Jobs |-> Reachable(next, next[j])]]
  BY DEF Meaning, Ordered
<1>4. Meaning(xs, calls)' = [jobs |-> jobs', before |-> [j \in Jobs |-> Reachable(next', next'[j])]]
  BY DEF Meaning, Ordered
<1>5. next' = next  BY <1>2
<1>6. jobs' = jobs
  <2>1. \A x : Leaves(x)' = Leaves(x)  BY ShapeFrame
  <2> QED  BY <2>1
<1> HIDE DEF next, jobs
<1> QED  BY <1>3, <1>4, <1>5, <1>6

LEMMA NewGraphFacts ==
    ASSUME shape \in Shapes, NEW x \in Objects
    PROVE  /\ DOMAIN NewGraph(shape, x) = Own(x)
           /\ \A v \in Own(x) : NewGraph(shape, x)[v] = Following(x, v)
<1>1. CASE x \in Jobs
  <2>1. NewGraph(shape, x) = [v \in {x} |-> {}] /\ Own(x) = {x} /\ Kind(x) = "job"
    BY <1>1 DEF NewGraph, Own, Kind
  <2>2. \A v : Following(x, v) = {}  BY <2>1 DEF Following
  <2> QED  BY <2>1, <2>2
<1>2. CASE x \in Containers
  <2> DEFINE its == shape.items[x]
             After(v) == {its[i + 1] : i \in {k \in DOMAIN its : /\ shape.kind[x] = "chain"
                                                                 /\ its[k] = v /\ k < Len(its)}}
  <2>1. /\ x \notin Jobs /\ Kind(x) = shape.kind[x]
        /\ Len(its) \in Nat /\ DOMAIN its = 1..Len(its)
        /\ \A n \in 1..Len(its) : its[n] \in Objects
    BY <1>2, ItemFacts
  <2>2. NewGraph(shape, x) = [v \in {its[i] : i \in DOMAIN its} |-> After(v)]
    BY <2>1 DEF NewGraph
  <2>3. Own(x) = {its[i] : i \in DOMAIN its}  BY <2>1 DEF Own, Items
  <2>4. ASSUME NEW v PROVE After(v) = Following(x, v)
    <3>1. ASSUME NEW y \in After(v) PROVE y \in Following(x, v)
      <4>1. PICK k \in DOMAIN its : /\ shape.kind[x] = "chain" /\ its[k] = v /\ k < Len(its)
                                    /\ y = its[k + 1]
        BY <3>1
      <4>2. k + 1 \in 1..Len(its)
        <5>1. k \in Nat /\ Len(its) \in Nat /\ 1 <= k /\ k < Len(its)  BY <2>1, <4>1
        <5> HIDE DEF its
        <5> QED  BY <5>1
      <4>3. y \in Objects  BY <2>1, <4>1, <4>2
      <4> QED  BY <2>1, <4>1, <4>3 DEF Following
    <3>2. ASSUME NEW y \in Following(x, v) PROVE y \in After(v)
      BY <2>1 DEF Following
    <3> QED  BY <3>1, <3>2
  <2> HIDE DEF After, its
  <2> QED  BY <2>2, <2>3, <2>4
<1> QED  BY <1>1, <1>2 DEF Objects

LEMMA ProgramInit == Init => ProgramInv
<1> SUFFICES ASSUME Init PROVE ProgramInv  OBVIOUS
<1>1. shape \in Shapes /\ links = {} /\ graph = [x \in Objects |-> NewGraph(shape, x)]
  BY DEF Init
<1>2. meaning = Meaning(Visited(graph), links) /\ Acyclic(meaning)  BY DEF Init
<1>3. \A x : Linked(x) = {}  BY <1>1 DEF Linked
<1>4. DOMAIN graph = Objects /\ \A x \in Objects : graph[x] = NewGraph(shape, x)  BY <1>1
<1>5. ASSUME NEW x \in Objects
      PROVE  /\ DOMAIN graph[x] = Own(x)
             /\ \A v \in Own(x) : graph[x][v] = Following(x, v)
  <2>1. /\ DOMAIN NewGraph(shape, x) = Own(x)
        /\ \A v \in Own(x) : NewGraph(shape, x)[v] = Following(x, v)
    BY <1>1, NewGraphFacts
  <2> QED  BY <1>4, <2>1
<1>6. ASSUME NEW x \in Objects
      PROVE  /\ DOMAIN graph[x] = Own(x) \cup Linked(x)
             /\ \A v \in DOMAIN graph[x] :
                  graph[x][v] = Following(x, v) \cup (IF v \in Sources(x) THEN Linked(x) ELSE {})
  BY <1>3, <1>5
<1>7. \A x, y \in Objects : <<x, y>> \in links => x \in Visited(graph)  BY <1>1
<1>8. links \subseteq Objects \X Objects  BY <1>1
<1> QED  BY <1>1, <1>2, <1>4, <1>6, <1>7, <1>8 DEF ProgramInv

LEMMA ProgramOnDone ==
    ASSUME ProgramInv, NEW x \in Objects, NEW y \in Objects, OnDone(x, y)
    PROVE  ProgramInv'
<1> DEFINE calls == links \cup {<<x, y>>}
           g     == [graph EXCEPT ![x] = AddEdges(@, Sources(x), y)]
<1>1. /\ shape' = shape /\ links' = calls /\ graph' = g
      /\ meaning' = Meaning(Visited(g), calls) /\ Acyclic(Meaning(Visited(g), calls))
      /\ x \in Visited(graph)
  BY DEF OnDone
<1>2. shape' \in Shapes /\ shape \in Shapes  BY <1>1 DEF ProgramInv
<1>3. links' \subseteq Objects \X Objects  BY <1>1 DEF ProgramInv
<1>4. /\ DOMAIN graph = Objects /\ DOMAIN g = Objects
      /\ g[x] = AddEdges(graph[x], Sources(x), y)
      /\ \A z \in Objects \ {x} : g[z] = graph[z]
  BY DEF ProgramInv
<1>5. /\ Linked(x)' = Linked(x) \cup {y}
      /\ \A z \in Objects \ {x} : Linked(z)' = Linked(z)
  <2>1. \A z, w : <<z, w>> \in links' <=> (<<z, w>> \in links \/ (z = x /\ w = y))  BY <1>1
  <2> QED  BY <2>1 DEF Linked
<1>6. /\ \A z : Own(z)' = Own(z) /\ Sources(z)' = Sources(z)
      /\ \A z, v : Following(z, v)' = Following(z, v)
  BY <1>1, ShapeFrame
<1> DEFINE F(z, v) == Following(z, v) \cup (IF v \in Sources(z) THEN Linked(z) ELSE {})
<1>7. \A z \in Objects : /\ DOMAIN graph[z] = Own(z) \cup Linked(z)
                         /\ \A v \in DOMAIN graph[z] : graph[z][v] = F(z, v)
  BY DEF ProgramInv
<1>8. DOMAIN g[x] = Own(x) \cup Linked(x) \cup {y}
  BY <1>4, <1>7 DEF AddEdges
<1>9. ASSUME NEW v \in DOMAIN g[x]
      PROVE  g[x][v] = Following(x, v) \cup (IF v \in Sources(x) THEN Linked(x) \cup {y} ELSE {})
  <2>1. g[x][v] = (IF v \in DOMAIN graph[x] THEN graph[x][v] ELSE {})
                     \cup (IF v \in Sources(x) THEN {y} ELSE {})
    BY <1>4, <1>7, <1>8 DEF AddEdges
  <2>2. CASE v \in DOMAIN graph[x]
    <3>1. graph[x][v] = F(x, v)  BY <1>7, <2>2
    <3> QED  BY <2>1, <2>2, <3>1
  <2>3. CASE v \notin DOMAIN graph[x]
    <3>1. v \notin Own(x)  BY <1>7, <2>3
    <3>2. v \notin Sources(x)  BY <1>2, <3>1, OwnType
    <3>3. Following(x, v) = {}
      <4> SUFFICES ASSUME NEW n \in Following(x, v) PROVE FALSE  OBVIOUS
      <4>1. x \in Containers /\ v \in Items(x)  BY <1>2, FollowingFacts
      <4> QED  BY <1>2, <3>1, <4>1, OwnType
    <3> QED  BY <2>1, <2>3, <3>2, <3>3
  <2> QED  BY <2>2, <2>3
<1> HIDE DEF g
<1>10. \A z \in Objects : /\ DOMAIN graph'[z] = (Own(z) \cup Linked(z))'
                          /\ \A v \in DOMAIN graph'[z] : graph'[z][v] = F(z, v)'
  <2> SUFFICES ASSUME NEW z \in Objects
               PROVE  /\ DOMAIN graph'[z] = (Own(z) \cup Linked(z))'
                      /\ \A v \in DOMAIN graph'[z] : graph'[z][v] = F(z, v)'
    OBVIOUS
  <2>1. CASE z = x
    <3>1. DOMAIN graph'[z] = (Own(z) \cup Linked(z))'  BY <1>1, <1>5, <1>6, <1>8, <2>1
    <3>2. ASSUME NEW v \in DOMAIN graph'[z] PROVE graph'[z][v] = F(z, v)'
      <4>1. g[x][v] = Following(x, v) \cup (IF v \in Sources(x) THEN Linked(x) \cup {y} ELSE {})
        BY <1>1, <1>9, <2>1, <3>2
      <4>2. Linked(z)' = Linked(x) \cup {y} /\ graph'[z][v] = g[x][v]  BY <1>1, <1>5, <2>1
      <4>3. Following(z, v)' = Following(x, v) /\ Sources(z)' = Sources(x)  BY <1>6, <2>1
      <4> QED  BY <4>1, <4>2, <4>3
    <3> QED  BY <3>1, <3>2
  <2>2. CASE z # x
    <3>1. graph'[z] = graph[z] /\ Linked(z)' = Linked(z) /\ Own(z)' = Own(z)
          /\ Sources(z)' = Sources(z)
      BY <1>1, <1>4, <1>5, <1>6, <2>2
    <3>2. DOMAIN graph'[z] = (Own(z) \cup Linked(z))'  BY <1>7, <3>1
    <3>3. ASSUME NEW v \in DOMAIN graph'[z] PROVE graph'[z][v] = F(z, v)'
      <4>1. graph[z][v] = F(z, v)  BY <1>7, <3>1, <3>3
      <4> QED  BY <1>6, <3>1, <4>1
    <3> QED  BY <3>2, <3>3
  <2> QED  BY <2>1, <2>2
<1>11. Visited(graph) \subseteq Visited(g)
  <2>1. \A z \in Objects : DOMAIN graph[z] \subseteq DOMAIN g[z] /\ DOMAIN g[z] \subseteq Objects
    <3> SUFFICES ASSUME NEW z \in Objects
                 PROVE  DOMAIN graph[z] \subseteq DOMAIN g[z] /\ DOMAIN g[z] \subseteq Objects
      OBVIOUS
    <3>1. DOMAIN graph[z] = Own(z) \cup Linked(z) /\ Own(z) \subseteq Objects
      BY <1>2, <1>7, OwnType
    <3>2. DOMAIN graph[z] \subseteq Objects  BY <3>1 DEF Linked
    <3>3. CASE z = x  BY <1>8, <3>1, <3>2, <3>3
    <3>4. CASE z # x  BY <1>4, <3>2, <3>4
    <3> QED  BY <3>3, <3>4
  <2> QED  BY <1>2, <2>1, VisitedGrows
<1>12. \A h : Visited(h)' = Visited(h)
  <2> SUFFICES ASSUME NEW h PROVE Visited(h)' = Visited(h)  OBVIOUS
  <2> QED  BY <1>1 DEF Visited
<1>13. PICK h : h = g  OBVIOUS
<1>14. Visited(graph)' = Visited(g)
  <2>1. graph' = h  BY <1>1, <1>13
  <2>2. Visited(graph)' = Visited(h)'  BY <2>1 DEF Visited
  <2> QED  BY <1>12, <1>13, <2>2
<1>15. \A z, w \in Objects : <<z, w>> \in links' => z \in Visited(graph)'
  <2> SUFFICES ASSUME NEW z \in Objects, NEW w \in Objects, <<z, w>> \in links'
               PROVE  z \in Visited(graph)
    BY <1>11, <1>14
  <2>1. <<z, w>> \in links \/ z = x  BY <1>1
  <2> QED  BY <1>1, <2>1 DEF ProgramInv
<1>16. meaning' = Meaning(Visited(graph), links)'
  <2>1. PICK xs, c : xs = Visited(g) /\ c = calls  OBVIOUS
  <2>2. Visited(graph)' = xs /\ links' = c  BY <1>1, <1>14, <2>1
  <2>3. Meaning(Visited(graph), links)' = Meaning(xs, c)'  BY <2>2 DEF Meaning
  <2>4. Meaning(xs, c)' = Meaning(xs, c)  BY <1>1, MeaningFrame
  <2> QED  BY <1>1, <2>1, <2>3, <2>4
<1>17. Acyclic(meaning)'
  <2>1. Acyclic(meaning')  BY <1>1
  <2> QED  BY <2>1 DEF Acyclic
<1>18. DOMAIN graph' = Objects  BY <1>1, <1>4
<1>19. \A z \in Objects : DOMAIN graph'[z] = (Own(z) \cup Linked(z))'  BY <1>10
<1>20. \A z \in Objects : \A v \in DOMAIN graph'[z] : graph'[z][v] = F(z, v)'  BY <1>10
<1> QED  BY <1>2, <1>3, <1>15, <1>16, <1>17, <1>18, <1>19, <1>20 DEF ProgramInv

LEMMA ProgramFrame ==
    ASSUME ProgramInv, UNCHANGED program
    PROVE  ProgramInv'
<1>1. shape' = shape /\ links' = links /\ meaning' = meaning /\ graph' = graph  BY DEF program
<1>2. /\ \A z : Own(z)' = Own(z) /\ Sources(z)' = Sources(z)
      /\ \A z, v : Following(z, v)' = Following(z, v)
  BY <1>1, ShapeFrame
<1>3. \A z : Linked(z)' = Linked(z)  BY <1>1 DEF Linked
<1>4. Visited(graph)' = Visited(graph)  BY <1>1 DEF Visited
<1>5. Meaning(Visited(graph), links)' = Meaning(Visited(graph), links)
  <2>1. PICK xs, c : xs = Visited(graph) /\ c = links  OBVIOUS
  <2>2. Visited(graph)' = xs /\ links' = c  BY <1>1, <1>4, <2>1
  <2>3. Meaning(Visited(graph), links)' = Meaning(xs, c)'  BY <2>2 DEF Meaning
  <2>4. Meaning(xs, c)' = Meaning(xs, c)  BY <1>1, MeaningFrame
  <2> QED  BY <2>1, <2>3, <2>4
<1>6. Acyclic(meaning)'  BY <1>1 DEF ProgramInv, Acyclic
<1>7. ASSUME NEW z \in Objects
      PROVE  /\ DOMAIN graph'[z] = Own(z)' \cup Linked(z)'
             /\ \A v \in DOMAIN graph'[z] :
                   graph'[z][v] = Following(z, v)' \cup (IF v \in Sources(z)' THEN Linked(z)' ELSE {})
  <2>1. /\ DOMAIN graph[z] = Own(z) \cup Linked(z)
        /\ \A v \in DOMAIN graph[z] :
              graph[z][v] = Following(z, v) \cup (IF v \in Sources(z) THEN Linked(z) ELSE {})
    BY DEF ProgramInv
  <2> QED  BY <1>1, <1>2, <1>3, <2>1
<1>8. \A x, y \in Objects : <<x, y>> \in links' => x \in Visited(graph)'
  BY <1>1, <1>4 DEF ProgramInv
<1>9. meaning' = Meaning(Visited(graph), links)'  BY <1>1, <1>5 DEF ProgramInv
<1>10. shape' \in Shapes /\ links' \subseteq Objects \X Objects /\ DOMAIN graph' = Objects
  BY <1>1 DEF ProgramInv
<1> QED  BY <1>6, <1>7, <1>8, <1>9, <1>10 DEF ProgramInv

-----------------------------------------------------------------------------
(* The callers *)

CallersType ==
    /\ caller \in [Callers -> [pc : {"idle", "begun", "known", "stored", "committed",
                                     "direct", "executed"},
                               found : SUBSET Keyed]]
    /\ edges \in [Callers -> SUBSET (Jobs \X Jobs)]
    /\ row \in [Callers -> [Jobs -> {"none", "wait", "pending", "started", "done"}]]
    /\ ran \in [Callers -> SUBSET Jobs]
    /\ sort \in [Callers -> [queue : SUBSET Jobs, left : [Jobs -> Nat]]]

Undelayed(c) == caller[c].pc \in {"idle", "begun"}
Queued(c)    == caller[c].pc \in {"stored", "committed"}
Sorted(c)    == caller[c].pc \in {"direct", "executed"}

\* The edges that the caller found lead forward.
EdgesInv(c) ==
    /\ Undelayed(c) => edges[c] = {}
    /\ \A i, j \in Jobs : <<i, j>> \in edges[c] =>
          i \in Delayed /\ j \in Delayed /\ i \in Before(j)

\* What is stored waits for its parents and for nothing else.
RowInv(c) ==
    /\ \A j \in Jobs : row[c][j] # "none" <=> Queued(c) /\ j \in Delayed
    /\ \A j \in Jobs : row[c][j] = "wait" => \E i \in Parents(c, j) : row[c][i] # "done"
    /\ \A j \in Jobs : row[c][j] \in {"pending", "started", "done"} =>
          \A i \in Parents(c, j) : row[c][i] = "done"
    /\ ~Sorted(c) => \A j \in Jobs : j \in ran[c] <=> row[c][j] = "done"

\* The generator has the jobs ready that have no parent left, and counts the others'.
SortInv(c) ==
    Sorted(c) =>
        /\ ran[c] \subseteq Delayed
        /\ \A j \in ran[c] : Parents(c, j) \subseteq ran[c]
        /\ caller[c].pc = "direct" =>
              /\ \A j \in Jobs : j \in sort[c].queue <=>
                    j \in Delayed /\ j \notin ran[c] /\ Parents(c, j) \subseteq ran[c]
              /\ \A j \in Jobs : sort[c].left[j] = Cardinality(Parents(c, j) \ ran[c])
        /\ caller[c].pc = "executed" => ran[c] = Delayed

\* A key is found where another caller committed its job.
FoundInv(c) ==
    /\ \A j \in caller[c].found :
          \E d \in Callers : caller[d].pc = "committed" /\ row[d][j] # "none"
    /\ caller[c].pc = "known" =>
          Delayed \cap Keyed # {} /\ Delayed \cap Keyed \subseteq caller[c].found

CallerInv(c) == EdgesInv(c) /\ RowInv(c) /\ SortInv(c)

Inv ==
    /\ ProgramInv
    /\ CallersType
    /\ \A c \in Callers : CallerInv(c)
    /\ \A c \in Callers : FoundInv(c)

LEMMA TypeFromInv == Inv => TypeOK
<1> SUFFICES ASSUME Inv PROVE TypeOK  OBVIOUS
<1>1. CallersType /\ ProgramInv  BY DEF Inv
<1>2. shape \in Shapes /\ links \subseteq Objects \X Objects  BY <1>1 DEF ProgramInv
<1>3. meaning \in [jobs : SUBSET Jobs, before : [Jobs -> SUBSET Jobs]]  BY <1>1, DelayedFacts
<1>4. \A x \in Objects : \A v \in DOMAIN graph[x] : v \in Objects /\ graph[x][v] \subseteq Objects
  <2> SUFFICES ASSUME NEW x \in Objects, NEW v \in DOMAIN graph[x]
               PROVE  v \in Objects /\ graph[x][v] \subseteq Objects
    OBVIOUS
  <2>1. /\ DOMAIN graph[x] = Own(x) \cup Linked(x)
        /\ graph[x][v] = Following(x, v) \cup (IF v \in Sources(x) THEN Linked(x) ELSE {})
    BY <1>1 DEF ProgramInv
  <2>2. Own(x) \subseteq Objects  BY <1>2, OwnType
  <2>3. Linked(x) \subseteq Objects /\ Following(x, v) \subseteq Objects
    BY DEF Linked, Following
  <2> QED  BY <2>1, <2>2, <2>3
<1> QED  BY <1>1, <1>2, <1>3, <1>4 DEF TypeOK, CallersType

\* What another caller does leaves a caller alone.
Same(d) ==
    /\ caller'[d] = caller[d] /\ edges'[d] = edges[d] /\ row'[d] = row[d]
    /\ ran'[d] = ran[d] /\ sort'[d] = sort[d]

LEMMA CallerFrame ==
    ASSUME NEW d \in Callers, CallerInv(d), Same(d), meaning' = meaning
    PROVE  CallerInv(d)'
<1>1. /\ caller'[d] = caller[d] /\ edges'[d] = edges[d] /\ row'[d] = row[d]
      /\ ran'[d] = ran[d] /\ sort'[d] = sort[d]
  BY DEF Same
<1>2. Delayed' = Delayed /\ \A j : Before(j)' = Before(j)  BY DEF Delayed, Before
<1>3. \A j : Parents(d, j)' = Parents(d, j)  BY <1>1 DEF Parents
<1>4. Undelayed(d)' = Undelayed(d) /\ Queued(d)' = Queued(d) /\ Sorted(d)' = Sorted(d)
  BY <1>1 DEF Undelayed, Queued, Sorted
<1>5. EdgesInv(d)'  BY <1>1, <1>2, <1>4 DEF CallerInv, EdgesInv
<1>6. RowInv(d)'
  <2>1. \A j \in Jobs : row'[d][j] # "none" <=> Queued(d)' /\ j \in Delayed'
    BY <1>1, <1>2, <1>4 DEF CallerInv, RowInv
  <2>2. \A j \in Jobs : row'[d][j] = "wait" => \E i \in Parents(d, j)' : row'[d][i] # "done"
    BY <1>1, <1>3 DEF CallerInv, RowInv
  <2>3. \A j \in Jobs : row'[d][j] \in {"pending", "started", "done"} =>
           \A i \in Parents(d, j)' : row'[d][i] = "done"
    BY <1>1, <1>3 DEF CallerInv, RowInv
  <2>4. ~Sorted(d)' => \A j \in Jobs : j \in ran'[d] <=> row'[d][j] = "done"
    BY <1>1, <1>4 DEF CallerInv, RowInv
  <2> QED  BY <2>1, <2>2, <2>3, <2>4 DEF RowInv
<1>7. SortInv(d)'
  <2> SUFFICES ASSUME Sorted(d)
      PROVE /\ ran'[d] \subseteq Delayed'
            /\ \A j \in ran'[d] : Parents(d, j)' \subseteq ran'[d]
            /\ caller'[d].pc = "direct" =>
                  /\ \A j \in Jobs : j \in sort'[d].queue <=>
                        j \in Delayed' /\ j \notin ran'[d] /\ Parents(d, j)' \subseteq ran'[d]
                  /\ \A j \in Jobs : sort'[d].left[j] = Cardinality(Parents(d, j)' \ ran'[d])
            /\ caller'[d].pc = "executed" => ran'[d] = Delayed'
    BY <1>4 DEF SortInv
  <2>1. SortInv(d)  BY DEF CallerInv
  <2> QED  BY <1>1, <1>2, <1>3, <2>1 DEF SortInv
<1> QED  BY <1>5, <1>6, <1>7 DEF CallerInv

\* Committed jobs remain.
Remain ==
    \A d \in Callers : caller[d].pc = "committed" =>
        /\ caller'[d].pc = "committed"
        /\ \A j \in Jobs : row[d][j] # "none" => row'[d][j] # "none"

LEMMA FoundFrame ==
    ASSUME NEW c \in Callers, CallersType, FoundInv(c), Remain,
           caller'[c].found = caller[c].found,
           caller'[c].pc = "known" => caller[c].pc = "known" /\ meaning' = meaning
    PROVE  FoundInv(c)'
<1>1. caller[c].found \subseteq Jobs  BY KeyedType DEF CallersType
<1>2. \A j \in caller'[c].found :
         \E d \in Callers : caller'[d].pc = "committed" /\ row'[d][j] # "none"
  <2> SUFFICES ASSUME NEW j \in caller[c].found
               PROVE  \E d \in Callers : caller'[d].pc = "committed" /\ row'[d][j] # "none"
    OBVIOUS
  <2>1. PICK d \in Callers : caller[d].pc = "committed" /\ row[d][j] # "none"  BY DEF FoundInv
  <2> QED  BY <1>1, <2>1 DEF Remain
<1>3. ASSUME caller'[c].pc = "known"
      PROVE  Delayed' \cap Keyed # {} /\ Delayed' \cap Keyed \subseteq caller'[c].found
  BY <1>3 DEF FoundInv, Delayed
<1> QED  BY <1>2, <1>3 DEF FoundInv

\* A step of one caller: its own part remains to be shown.
LEMMA CallerStep ==
    ASSUME Inv, NEW c \in Callers, UNCHANGED program, CallersType',
           \A d \in Callers \ {c} : Same(d),
           CallerInv(c)', FoundInv(c)', Remain
    PROVE  Inv'
<1>1. ProgramInv'  BY ProgramFrame DEF Inv
<1>2. meaning' = meaning  BY DEF program
<1>3. ASSUME NEW d \in Callers PROVE CallerInv(d)'
  <2>1. CASE d = c  BY <2>1
  <2>2. CASE d # c
    <3>1. Same(d) /\ CallerInv(d)  BY <2>2 DEF Inv
    <3> QED  BY <1>2, <3>1, CallerFrame
  <2> QED  BY <2>1, <2>2
<1>4. ASSUME NEW d \in Callers PROVE FoundInv(d)'
  <2>1. CASE d = c  BY <2>1
  <2>2. CASE d # c
    <3>1. Same(d) /\ FoundInv(d) /\ CallersType  BY <2>2 DEF Inv
    <3>2. caller'[d] = caller[d]  BY <3>1 DEF Same
    <3> QED  BY <1>2, <3>1, <3>2, FoundFrame
  <2> QED  BY <2>1, <2>2
<1> QED  BY <1>1, <1>3, <1>4 DEF Inv

-----------------------------------------------------------------------------
(* One lemma per action *)

LEMMA CallersInit == Init => Inv
<1> SUFFICES ASSUME Init PROVE Inv  OBVIOUS
<1>1. ProgramInv  BY ProgramInit
<1>2. \A c \in Callers : /\ caller[c] = [pc |-> "idle", found |-> {}] /\ edges[c] = {}
                         /\ row[c] = [j \in Jobs |-> "none"] /\ ran[c] = {}
  BY DEF Init
<1>3. CallersType  BY DEF Init, CallersType
<1>4. ASSUME NEW c \in Callers PROVE CallerInv(c)
  <2>1. Undelayed(c) /\ ~Queued(c) /\ ~Sorted(c)  BY <1>2 DEF Undelayed, Queued, Sorted
  <2>2. EdgesInv(c)  BY <1>2 DEF EdgesInv
  <2>3. RowInv(c)  BY <1>2, <2>1 DEF RowInv
  <2>4. SortInv(c)  BY <2>1 DEF SortInv
  <2> QED  BY <2>2, <2>3, <2>4 DEF CallerInv
<1>5. \A c \in Callers : FoundInv(c)  BY <1>2 DEF FoundInv
<1> QED  BY <1>1, <1>3, <1>4, <1>5 DEF Inv

LEMMA OnDoneInv ==
    ASSUME Inv, NEW x \in Objects, NEW y \in Objects, OnDone(x, y)
    PROVE  Inv'
<1>1. /\ caller' = caller /\ edges' = edges /\ row' = row /\ ran' = ran /\ sort' = sort
      /\ \A c \in Callers : caller[c].pc = "idle"
  BY DEF OnDone
<1>2. ProgramInv'  BY ProgramOnDone DEF Inv
<1>3. CallersType'  BY <1>1 DEF Inv, CallersType
<1>4. ASSUME NEW c \in Callers PROVE CallerInv(c)'
  <2>1. Undelayed(c) /\ Undelayed(c)' /\ ~Queued(c) /\ ~Queued(c)' /\ ~Sorted(c) /\ ~Sorted(c)'
    BY <1>1 DEF Undelayed, Queued, Sorted
  <2>2. EdgesInv(c) /\ RowInv(c)  BY DEF Inv, CallerInv
  <2>3. edges'[c] = {}  BY <1>1, <2>1, <2>2 DEF EdgesInv
  <2>4. EdgesInv(c)'  BY <2>3 DEF EdgesInv
  <2>5. \A j \in Jobs : row'[c][j] = "none"  BY <1>1, <2>1, <2>2 DEF RowInv
  <2>6. \A j \in Jobs : j \notin ran'[c]  BY <1>1, <2>1, <2>2, <2>5 DEF RowInv
  <2>7. RowInv(c)'  BY <2>1, <2>5, <2>6 DEF RowInv
  <2>8. SortInv(c)'  BY <2>1 DEF SortInv
  <2> QED  BY <2>4, <2>7, <2>8 DEF CallerInv
<1>5. ASSUME NEW c \in Callers PROVE FoundInv(c)'
  <2>1. FoundInv(c)  BY DEF Inv
  <2> QED  BY <1>1, <2>1 DEF FoundInv
<1> QED  BY <1>2, <1>3, <1>4, <1>5 DEF Inv

LEMMA BeginInv ==
    ASSUME Inv, NEW c \in Callers, Begin(c)
    PROVE  Inv'
<1> DEFINE found == {j \in Keyed : \E d \in Callers : /\ caller[d].pc = "committed"
                                                      /\ row[d][j] = "pending"}
<1>1. /\ caller[c].pc = "idle"
      /\ caller' = [caller EXCEPT ![c] = [pc |-> "begun", found |-> found]]
      /\ UNCHANGED program /\ edges' = edges /\ row' = row /\ ran' = ran /\ sort' = sort
  BY DEF Begin
<1>2. CallersType  BY DEF Inv
<1>3. caller'[c].pc = "begun" /\ caller'[c].found = found
  BY <1>1, <1>2 DEF CallersType
<1>4. \A d \in Callers \ {c} : Same(d)  BY <1>1, <1>2 DEF CallersType, Same
<1>5. \A j \in found : \E d \in Callers : caller[d].pc = "committed" /\ row[d][j] = "pending"
  OBVIOUS
<1>6. found \subseteq Keyed  OBVIOUS
<1> HIDE DEF found
<1>7. CallersType'
  <2>1. caller' \in [Callers -> [pc : {"idle", "begun", "known", "stored", "committed",
                                       "direct", "executed"},
                                 found : SUBSET Keyed]]
    BY <1>1, <1>2, <1>6 DEF CallersType
  <2> QED  BY <1>1, <1>2, <2>1 DEF CallersType
<1>8. CallerInv(c)'
  <2>1. Undelayed(c) /\ Undelayed(c)' /\ ~Queued(c) /\ ~Queued(c)' /\ ~Sorted(c) /\ ~Sorted(c)'
    BY <1>1, <1>3 DEF Undelayed, Queued, Sorted
  <2>2. EdgesInv(c) /\ RowInv(c)  BY DEF Inv, CallerInv
  <2>3. edges'[c] = {}  BY <1>1, <2>1, <2>2 DEF EdgesInv
  <2>4. EdgesInv(c)'  BY <2>3 DEF EdgesInv
  <2>5. \A j \in Jobs : row'[c][j] = "none"  BY <1>1, <2>1, <2>2 DEF RowInv
  <2>6. \A j \in Jobs : j \notin ran'[c]  BY <1>1, <2>1, <2>2, <2>5 DEF RowInv
  <2>7. RowInv(c)'  BY <2>1, <2>5, <2>6 DEF RowInv
  <2>8. SortInv(c)'  BY <2>1 DEF SortInv
  <2> QED  BY <2>4, <2>7, <2>8 DEF CallerInv
<1>9. Remain
  <2> SUFFICES ASSUME NEW d \in Callers, caller[d].pc = "committed"
               PROVE  caller'[d].pc = "committed"
    BY <1>1 DEF Remain
  <2>1. d # c  BY <1>1
  <2> QED  BY <1>4, <2>1 DEF Same
<1>10. FoundInv(c)'
  <2>1. ASSUME NEW j \in found
        PROVE  \E d \in Callers : caller'[d].pc = "committed" /\ row'[d][j] # "none"
    <3>1. PICK d \in Callers : caller[d].pc = "committed" /\ row[d][j] = "pending"  BY <1>5
    <3>2. caller'[d].pc = "committed"  BY <1>9, <3>1 DEF Remain
    <3> QED  BY <1>1, <3>1, <3>2
  <2> QED  BY <1>3, <2>1 DEF FoundInv
<1> QED  BY <1>1, <1>4, <1>7, <1>8, <1>9, <1>10, CallerStep

\* What delay() builds.
LEMMA DelayEdges ==
    ASSUME Inv, NEW c \in Callers, UNCHANGED program,
           edges' = [edges EXCEPT ![c] = Connected], ~Undelayed(c)'
    PROVE  /\ edges' \in [Callers -> SUBSET (Jobs \X Jobs)]
           /\ edges'[c] = Connected
           /\ \A d \in Callers \ {c} : edges'[d] = edges[d]
           /\ EdgesInv(c)'
           /\ \A j \in Jobs : Parents(c, j)' \subseteq Delayed \cap Before(j)
           /\ Vertices = Delayed /\ Delayed' = Delayed /\ Delayed \subseteq Jobs
<1>1. ProgramInv /\ CallersType /\ meaning' = meaning  BY DEF Inv, program
<1>2. Connected \in SUBSET (Jobs \X Jobs)
  <2> SUFFICES ASSUME NEW p \in Connected PROVE p \in Jobs \X Jobs  OBVIOUS
  <2>1. PICK x \in Visited(graph) : p \in Merged(graph[x])  BY DEF Connected
  <2>2. PICK v \in DOMAIN graph[x] :
           p \in Ends[v].tail \X UNION {Ends[n].head : n \in graph[x][v]}
    BY <2>1 DEF Merged
  <2>3. p = <<p[1], p[2]>>  BY <2>2
  <2>4. p[1] \in Jobs /\ p[2] \in Jobs
    <3>1. <<p[1], p[2]>> \in Connected  BY <2>3
    <3> QED  BY <1>1, <3>1, ConnectedOrdered
  <2> QED  BY <2>3, <2>4
<1>3. edges \in [Callers -> SUBSET (Jobs \X Jobs)]  BY <1>1 DEF CallersType
<1>4. edges' \in [Callers -> SUBSET (Jobs \X Jobs)]  BY <1>2, <1>3
<1>5. edges'[c] = Connected /\ \A d \in Callers \ {c} : edges'[d] = edges[d]  BY <1>3
<1>6. \A i, j \in Jobs : <<i, j>> \in Connected =>
         i \in Delayed /\ j \in Delayed /\ i \in Before(j)
  BY <1>1, ConnectedOrdered
<1>7. Delayed' = Delayed /\ \A j : Before(j)' = Before(j)  BY <1>1 DEF Delayed, Before
<1>8. EdgesInv(c)'  BY <1>5, <1>6, <1>7 DEF EdgesInv
<1>9. \A j \in Jobs : Parents(c, j)' \subseteq Delayed \cap Before(j)  BY <1>5, <1>6 DEF Parents
<1>10. Vertices = Delayed  BY <1>1, VerticesDelayed
<1>11. Delayed \subseteq Jobs  BY <1>1, DelayedFacts DEF Delayed
<1> QED  BY <1>4, <1>5, <1>7, <1>8, <1>9, <1>10, <1>11

\* A step that leaves the records and the keys found alone.
LEMMA KeepsRecords ==
    ASSUME Inv, NEW c \in Callers, NEW pc \in {"known", "stored", "committed", "direct", "executed"},
           caller' = [caller EXCEPT ![c].pc = pc]
    PROVE  /\ caller'[c].pc = pc /\ caller'[c].found = caller[c].found
           /\ \A d \in Callers \ {c} : caller'[d] = caller[d]
           /\ caller' \in [Callers -> [pc : {"idle", "begun", "known", "stored", "committed",
                                             "direct", "executed"},
                                       found : SUBSET Keyed]]
<1> DEFINE pcs == {"idle", "begun", "known", "stored", "committed", "direct", "executed"}
           S   == [pc : pcs, found : SUBSET Keyed]
<1>1. caller \in [Callers -> S]  BY DEF Inv, CallersType
<1>2. caller[c] \in S  BY <1>1
<1> DEFINE new == [caller[c] EXCEPT !.pc = pc]
<1>3. new.pc = pc /\ new.found = caller[c].found /\ new \in S  BY <1>2
<1>4. caller' = [caller EXCEPT ![c] = new]  OBVIOUS
<1> HIDE DEF new, S
<1>5. /\ caller'[c] = new /\ caller' \in [Callers -> S]
      /\ \A d \in Callers \ {c} : caller'[d] = caller[d]
  BY <1>1, <1>3, <1>4
<1> QED  BY <1>3, <1>5 DEF S

LEMMA DelayKnownInv ==
    ASSUME Inv, NEW c \in Callers, DelayKnown(c)
    PROVE  Inv'
<1>1. /\ caller[c].pc = "begun" /\ KeysKnown(c)
      /\ caller' = [caller EXCEPT ![c].pc = "known"]
      /\ edges' = [edges EXCEPT ![c] = Connected]
      /\ UNCHANGED program /\ row' = row /\ ran' = ran /\ sort' = sort
  BY DEF DelayKnown
<1>2. CallersType /\ CallerInv(c) /\ FoundInv(c)  BY DEF Inv
<1>3. /\ caller'[c].pc = "known" /\ caller'[c].found = caller[c].found
      /\ \A d \in Callers \ {c} : caller'[d] = caller[d]
      /\ caller' \in [Callers -> [pc : {"idle", "begun", "known", "stored", "committed",
                                        "direct", "executed"},
                                  found : SUBSET Keyed]]
  BY <1>1, KeepsRecords
<1>4. /\ Undelayed(c) /\ ~Undelayed(c)' /\ ~Queued(c) /\ ~Queued(c)' /\ ~Sorted(c) /\ ~Sorted(c)'
  BY <1>1, <1>3 DEF Undelayed, Queued, Sorted
<1>5. /\ edges' \in [Callers -> SUBSET (Jobs \X Jobs)]
      /\ \A d \in Callers \ {c} : edges'[d] = edges[d]
      /\ EdgesInv(c)' /\ Vertices = Delayed /\ Delayed' = Delayed
  BY <1>1, <1>4, DelayEdges
<1>6. CallersType'  BY <1>1, <1>2, <1>3, <1>5 DEF CallersType
<1>7. \A d \in Callers \ {c} : Same(d)  BY <1>1, <1>3, <1>5 DEF Same
<1>8. CallerInv(c)'
  <2>1. \A j \in Jobs : row'[c][j] = "none"  BY <1>1, <1>2, <1>4 DEF CallerInv, RowInv
  <2>2. \A j \in Jobs : j \notin ran'[c]  BY <1>1, <1>2, <1>4, <2>1 DEF CallerInv, RowInv
  <2>3. RowInv(c)'  BY <1>4, <2>1, <2>2 DEF RowInv
  <2>4. SortInv(c)'  BY <1>4 DEF SortInv
  <2> QED  BY <1>5, <2>3, <2>4 DEF CallerInv
<1>9. Remain
  <2> SUFFICES ASSUME NEW d \in Callers, caller[d].pc = "committed"
               PROVE  caller'[d].pc = "committed"
    BY <1>1 DEF Remain
  <2>1. d # c  BY <1>1
  <2> QED  BY <1>3, <2>1
<1>10. FoundInv(c)'
  <2>1. \A j \in caller'[c].found :
           \E d \in Callers : caller'[d].pc = "committed" /\ row'[d][j] # "none"
    <3> SUFFICES ASSUME NEW j \in caller[c].found
                 PROVE  \E d \in Callers : caller'[d].pc = "committed" /\ row[d][j] # "none"
      BY <1>1, <1>3
    <3>1. PICK d \in Callers : caller[d].pc = "committed" /\ row[d][j] # "none"
      BY <1>2 DEF FoundInv
    <3> QED  BY <1>9, <3>1 DEF Remain
  <2>2. Delayed' \cap Keyed # {} /\ Delayed' \cap Keyed \subseteq caller'[c].found
    BY <1>1, <1>3, <1>5 DEF KeysKnown
  <2> QED  BY <2>1, <2>2 DEF FoundInv
<1> QED  BY <1>1, <1>6, <1>7, <1>8, <1>9, <1>10, CallerStep

LEMMA DelayStoreInv ==
    ASSUME Inv, NEW c \in Callers, DelayStore(c)
    PROVE  Inv'
<1> DEFINE new == [j \in Jobs |-> CASE j \notin Vertices -> "none"
                                    [] j \in Vertices /\ Parents(c, j)' # {} -> "wait"
                                    [] OTHER -> "pending"]
<1>1. /\ caller[c].pc = "begun"
      /\ caller' = [caller EXCEPT ![c].pc = "stored"]
      /\ edges' = [edges EXCEPT ![c] = Connected]
      /\ row' = [row EXCEPT ![c] = new]
      /\ UNCHANGED program /\ ran' = ran /\ sort' = sort
  BY DEF DelayStore
<1>2. CallersType /\ CallerInv(c) /\ FoundInv(c)  BY DEF Inv
<1>3. /\ caller'[c].pc = "stored" /\ caller'[c].found = caller[c].found
      /\ \A d \in Callers \ {c} : caller'[d] = caller[d]
      /\ caller' \in [Callers -> [pc : {"idle", "begun", "known", "stored", "committed",
                                        "direct", "executed"},
                                  found : SUBSET Keyed]]
  BY <1>1, KeepsRecords
<1>4. /\ Undelayed(c) /\ ~Undelayed(c)' /\ ~Queued(c) /\ Queued(c)' /\ ~Sorted(c) /\ ~Sorted(c)'
  BY <1>1, <1>3 DEF Undelayed, Queued, Sorted
<1>5. /\ edges' \in [Callers -> SUBSET (Jobs \X Jobs)]
      /\ \A d \in Callers \ {c} : edges'[d] = edges[d]
      /\ EdgesInv(c)' /\ Vertices = Delayed /\ Delayed' = Delayed
      /\ \A j \in Jobs : Parents(c, j)' \subseteq Delayed
  BY <1>1, <1>4, DelayEdges
<1>6. \A j \in Jobs : /\ j \notin Delayed => new[j] = "none"
                      /\ j \in Delayed /\ Parents(c, j)' # {} => new[j] = "wait"
                      /\ j \in Delayed /\ Parents(c, j)' = {} => new[j] = "pending"
  BY <1>5
<1>7. new \in [Jobs -> {"none", "wait", "pending", "started", "done"}]  OBVIOUS
<1> HIDE DEF new
<1>8. row'[c] = new /\ \A d \in Callers \ {c} : row'[d] = row[d]  BY <1>1, <1>2 DEF CallersType
<1>9. CallersType'
  <2>1. row' \in [Callers -> [Jobs -> {"none", "wait", "pending", "started", "done"}]]
    BY <1>1, <1>2, <1>7 DEF CallersType
  <2> QED  BY <1>1, <1>2, <1>3, <1>5, <2>1 DEF CallersType
<1>10. \A d \in Callers \ {c} : Same(d)  BY <1>1, <1>3, <1>5, <1>8 DEF Same
<1>11. CallerInv(c)'
  <2>1. \A j \in Jobs : row[c][j] = "none"  BY <1>2, <1>4 DEF CallerInv, RowInv
  <2>2. \A j \in Jobs : j \notin ran'[c]  BY <1>1, <1>2, <1>4, <2>1 DEF CallerInv, RowInv
  <2>3. \A j \in Jobs : new[j] \in {"none", "wait", "pending"}  BY <1>6
  <2>4. \A j \in Jobs : row'[c][j] # "none" <=> Queued(c)' /\ j \in Delayed'
    BY <1>4, <1>5, <1>6, <1>8
  <2>5. \A j \in Jobs : row'[c][j] = "wait" => \E i \in Parents(c, j)' : row'[c][i] # "done"
    <3> SUFFICES ASSUME NEW j \in Jobs, new[j] = "wait"
                 PROVE  \E i \in Parents(c, j)' : new[i] # "done"
      BY <1>8
    <3>1. Parents(c, j)' # {}  BY <1>6
    <3>2. Parents(c, j)' \subseteq Jobs  BY DEF Parents
    <3> QED  BY <2>3, <3>1, <3>2
  <2>6. \A j \in Jobs : row'[c][j] \in {"pending", "started", "done"} =>
           \A i \in Parents(c, j)' : row'[c][i] = "done"
    <3> SUFFICES ASSUME NEW j \in Jobs, new[j] \in {"pending", "started", "done"}
                 PROVE  Parents(c, j)' = {}
      BY <1>8
    <3> QED  BY <1>6
  <2>7. ~Sorted(c)' => \A j \in Jobs : j \in ran'[c] <=> row'[c][j] = "done"
    BY <1>8, <2>2, <2>3
  <2>8. RowInv(c)'  BY <2>4, <2>5, <2>6, <2>7 DEF RowInv
  <2>9. SortInv(c)'  BY <1>4 DEF SortInv
  <2> QED  BY <1>5, <2>8, <2>9 DEF CallerInv
<1>12. Remain
  <2> SUFFICES ASSUME NEW d \in Callers, caller[d].pc = "committed"
               PROVE  caller'[d].pc = "committed" /\ row'[d] = row[d]
    BY DEF Remain
  <2>1. d # c  BY <1>1
  <2> QED  BY <1>3, <1>8, <2>1
<1>13. FoundInv(c)'  BY <1>2, <1>3, <1>12, FoundFrame
<1> QED  BY <1>1, <1>9, <1>10, <1>11, <1>12, <1>13, CallerStep

LEMMA DelayDirectInv ==
    ASSUME Inv, NEW c \in Callers, DelayDirect(c)
    PROVE  Inv'
<1> DEFINE new == [queue |-> {j \in Vertices : Parents(c, j)' = {}},
                   left |-> [j \in Jobs |-> Cardinality(Parents(c, j)')]]
<1>1. /\ caller[c].pc = "begun"
      /\ caller' = [caller EXCEPT ![c].pc = "direct"]
      /\ edges' = [edges EXCEPT ![c] = Connected]
      /\ sort' = [sort EXCEPT ![c] = new]
      /\ UNCHANGED program /\ row' = row /\ ran' = ran
  BY DEF DelayDirect
<1>2. CallersType /\ CallerInv(c) /\ FoundInv(c)  BY DEF Inv
<1>3. /\ caller'[c].pc = "direct" /\ caller'[c].found = caller[c].found
      /\ \A d \in Callers \ {c} : caller'[d] = caller[d]
      /\ caller' \in [Callers -> [pc : {"idle", "begun", "known", "stored", "committed",
                                        "direct", "executed"},
                                  found : SUBSET Keyed]]
  BY <1>1, KeepsRecords
<1>4. /\ Undelayed(c) /\ ~Undelayed(c)' /\ ~Queued(c) /\ ~Queued(c)' /\ ~Sorted(c) /\ Sorted(c)'
  BY <1>1, <1>3 DEF Undelayed, Queued, Sorted
<1>5. /\ edges' \in [Callers -> SUBSET (Jobs \X Jobs)]
      /\ \A d \in Callers \ {c} : edges'[d] = edges[d]
      /\ EdgesInv(c)' /\ Vertices = Delayed /\ Delayed' = Delayed /\ Delayed \subseteq Jobs
      /\ \A j \in Jobs : Parents(c, j)' \subseteq Delayed
  BY <1>1, <1>4, DelayEdges
<1>6. /\ \A j \in Jobs : j \in new.queue <=> j \in Delayed /\ Parents(c, j)' = {}
      /\ \A j \in Jobs : new.left[j] = Cardinality(Parents(c, j)')
      /\ new.queue \subseteq Jobs
  BY <1>5
<1>7. new \in [queue : SUBSET Jobs, left : [Jobs -> Nat]]
  <2>1. \A j \in Jobs : Cardinality(Parents(c, j)') \in Nat
    <3> SUFFICES ASSUME NEW j \in Jobs PROVE Cardinality(Parents(c, j)') \in Nat  OBVIOUS
    <3>1. Parents(c, j)' \in SUBSET Jobs  BY DEF Parents
    <3>2. IsFiniteSet(Jobs)  BY ObjectsFinite
    <3>3. IsFiniteSet(Parents(c, j)')  BY <3>1, <3>2, FS_Subset
    <3> QED  BY <3>3, FS_CardinalityType
  <2> QED  BY <1>6, <2>1
<1> HIDE DEF new
<1>8. sort'[c] = new /\ \A d \in Callers \ {c} : sort'[d] = sort[d]  BY <1>1, <1>2 DEF CallersType
<1>9. CallersType'
  <2>1. sort' \in [Callers -> [queue : SUBSET Jobs, left : [Jobs -> Nat]]]
    BY <1>1, <1>2, <1>7 DEF CallersType
  <2> QED  BY <1>1, <1>2, <1>3, <1>5, <2>1 DEF CallersType
<1>10. \A d \in Callers \ {c} : Same(d)  BY <1>1, <1>3, <1>5, <1>8 DEF Same
<1>11. CallerInv(c)'
  <2>1. \A j \in Jobs : row'[c][j] = "none"  BY <1>1, <1>2, <1>4 DEF CallerInv, RowInv
  <2>2. ran[c] = {}
    <3>1. \A j \in Jobs : j \notin ran[c]  BY <1>1, <1>2, <1>4, <2>1 DEF CallerInv, RowInv
    <3> QED  BY <1>2, <3>1 DEF CallersType
  <2>3. ran'[c] = {}  BY <1>1, <2>2
  <2>4. RowInv(c)'  BY <1>4, <2>1 DEF RowInv
  <2>5. \A j \in Jobs : Parents(c, j)' \ ran'[c] = Parents(c, j)'  BY <2>3
  <2>6. \A j \in Jobs : j \in sort'[c].queue <=>
             j \in Delayed' /\ j \notin ran'[c] /\ Parents(c, j)' \subseteq ran'[c]
    BY <1>5, <1>6, <1>8, <2>3
  <2>7. \A j \in Jobs : sort'[c].left[j] = Cardinality(Parents(c, j)' \ ran'[c])
    BY <1>6, <1>8, <2>5
  <2>8. SortInv(c)'  BY <1>3, <2>3, <2>6, <2>7 DEF SortInv
  <2> QED  BY <1>5, <2>4, <2>8 DEF CallerInv
<1>12. Remain
  <2> SUFFICES ASSUME NEW d \in Callers, caller[d].pc = "committed"
               PROVE  caller'[d].pc = "committed"
    BY <1>1 DEF Remain
  <2>1. d # c  BY <1>1
  <2> QED  BY <1>3, <2>1
<1>13. FoundInv(c)'  BY <1>2, <1>3, <1>12, FoundFrame
<1> QED  BY <1>1, <1>9, <1>10, <1>11, <1>12, <1>13, CallerStep

LEMMA SortStepInv ==
    ASSUME Inv, NEW c \in Callers, NEW j \in Jobs, SortStep(c, j)
    PROVE  Inv'
<1> DEFINE left == [i \in Jobs |-> IF i \in Children(c, j) THEN sort[c].left[i] - 1
                                                           ELSE sort[c].left[i]]
           new  == [queue |-> (sort[c].queue \ {j}) \cup {i \in Children(c, j) : left[i] = 0},
                    left |-> left]
<1>1. /\ caller[c].pc = "direct" /\ j \in sort[c].queue
      /\ sort' = [sort EXCEPT ![c] = new]
      /\ ran' = [ran EXCEPT ![c] = @ \cup {j}]
      /\ UNCHANGED program /\ caller' = caller /\ edges' = edges /\ row' = row
  BY DEF SortStep
<1>2. CallersType /\ CallerInv(c) /\ FoundInv(c) /\ ProgramInv  BY DEF Inv
<1>3. Sorted(c) /\ Sorted(c)' /\ ~Queued(c) /\ ~Queued(c)'  BY <1>1 DEF Sorted, Queued
<1>4. /\ ran[c] \subseteq Delayed
      /\ \A i \in ran[c] : Parents(c, i) \subseteq ran[c]
      /\ \A i \in Jobs : i \in sort[c].queue <=>
            i \in Delayed /\ i \notin ran[c] /\ Parents(c, i) \subseteq ran[c]
      /\ \A i \in Jobs : sort[c].left[i] = Cardinality(Parents(c, i) \ ran[c])
  BY <1>1, <1>2, <1>3 DEF CallerInv, SortInv
<1>5. j \in Delayed /\ j \notin ran[c] /\ Parents(c, j) \subseteq ran[c]  BY <1>1, <1>4
<1>6. ran'[c] = ran[c] \cup {j} /\ \A d \in Callers \ {c} : ran'[d] = ran[d]
  BY <1>1, <1>2 DEF CallersType
<1>7. /\ \A i : Parents(c, i)' = Parents(c, i)
      /\ Delayed' = Delayed
      /\ \A i \in Jobs : i \in Children(c, j) <=> j \in Parents(c, i)
      /\ \A i : Parents(c, i) \subseteq Jobs
  BY <1>1 DEF program, Delayed, Parents, Children
<1>8. ASSUME NEW i \in Jobs
      PROVE  left[i] \in Nat /\ left[i] = Cardinality(Parents(c, i) \ ran'[c])
             /\ (left[i] = 0 <=> Parents(c, i) \subseteq ran'[c])
  <2> DEFINE open == Parents(c, i) \ ran[c]
             rest == Parents(c, i) \ ran'[c]
  <2>1. open \in SUBSET Jobs /\ rest \in SUBSET Jobs /\ IsFiniteSet(Jobs)
    BY <1>7, ObjectsFinite
  <2>2. rest = open \ {j}  BY <1>6
  <2>3. j \in open <=> i \in Children(c, j)  BY <1>5, <1>7
  <2>4. rest = {} <=> Parents(c, i) \subseteq ran'[c]  OBVIOUS
  <2>5. sort[c].left[i] = Cardinality(open)  BY <1>4
  <2> HIDE DEF open, rest
  <2>6. IsFiniteSet(open) /\ IsFiniteSet(rest)  BY <2>1, FS_Subset
  <2>7. Cardinality(open) \in Nat /\ Cardinality(rest) \in Nat  BY <2>6, FS_CardinalityType
  <2>8. Cardinality(rest) = IF j \in open THEN Cardinality(open) - 1 ELSE Cardinality(open)
    BY <2>2, <2>6, FS_RemoveElement
  <2>9. left[i] = Cardinality(rest)  BY <2>3, <2>5, <2>8
  <2>10. Cardinality(rest) = 0 <=> rest = {}  BY <2>6, FS_EmptySet
  <2> HIDE DEF left
  <2>11. left[i] \in Nat /\ (left[i] = 0 <=> Parents(c, i) \subseteq ran'[c])
    BY <2>4, <2>7, <2>9, <2>10
  <2> QED  BY <2>9, <2>11 DEF rest
<1>9. DOMAIN left = Jobs /\ left = [i \in Jobs |-> left[i]]  OBVIOUS
<1> HIDE DEF left
<1>10. ASSUME NEW i \in Jobs
       PROVE  i \in new.queue <=> i \in Delayed /\ i \notin ran'[c] /\ Parents(c, i) \subseteq ran'[c]
  <2>1. i \in new.queue <=> \/ i \in sort[c].queue /\ i # j
                            \/ i \in Children(c, j) /\ left[i] = 0
    OBVIOUS
  <2>2. CASE i \in Children(c, j)
    <3>1. j \in Parents(c, i)  BY <1>7, <2>2
    <3>2. i \notin sort[c].queue /\ i \notin ran[c]  BY <1>4, <1>5, <3>1
    <3>3. <<j, i>> \in edges[c]  BY <3>1 DEF Parents
    <3>4. i \in Delayed /\ j \in Before(i)
      BY <1>2, <3>3 DEF CallerInv, EdgesInv
    <3>5. i # j  BY <1>2, <3>4 DEF ProgramInv, Acyclic, Before
    <3>6. left[i] = 0 <=> Parents(c, i) \subseteq ran'[c]  BY <1>8
    <3> HIDE DEF new
    <3> QED  BY <1>6, <2>1, <2>2, <3>2, <3>4, <3>5, <3>6
  <2>3. CASE i \notin Children(c, j)
    <3>1. j \notin Parents(c, i)  BY <1>7, <2>3
    <3>2. Parents(c, i) \subseteq ran'[c] <=> Parents(c, i) \subseteq ran[c]  BY <1>6, <3>1
    <3>3. i \in sort[c].queue <=> i \in Delayed /\ i \notin ran[c] /\ Parents(c, i) \subseteq ran[c]
      BY <1>4
    <3> HIDE DEF new
    <3> QED  BY <1>6, <2>1, <2>3, <3>2, <3>3
  <2> QED  BY <2>2, <2>3
<1>11. new.left = left  OBVIOUS
<1>12. new \in [queue : SUBSET Jobs, left : [Jobs -> Nat]]
  <2>1. sort[c].queue \subseteq Jobs /\ Children(c, j) \subseteq Jobs
    BY <1>2 DEF CallersType, Children
  <2>2. left \in [Jobs -> Nat]  BY <1>8, <1>9
  <2> QED  BY <2>1, <2>2
<1> HIDE DEF new
<1>13. sort'[c] = new /\ \A d \in Callers \ {c} : sort'[d] = sort[d]  BY <1>1, <1>2 DEF CallersType
<1>14. CallersType'
  <2>1. sort' \in [Callers -> [queue : SUBSET Jobs, left : [Jobs -> Nat]]]
    BY <1>1, <1>2, <1>12 DEF CallersType
  <2>2. ran' \in [Callers -> SUBSET Jobs]  BY <1>1, <1>2 DEF CallersType
  <2> QED  BY <1>1, <1>2, <2>1, <2>2 DEF CallersType
<1>15. \A d \in Callers \ {c} : Same(d)  BY <1>1, <1>6, <1>13 DEF Same
<1>16. CallerInv(c)'
  <2>1. EdgesInv(c)'
    <3>1. \A i : Before(i)' = Before(i)  BY <1>1 DEF program, Before
    <3>2. Undelayed(c)' = Undelayed(c)  BY <1>1 DEF Undelayed
    <3> QED  BY <1>1, <1>2, <1>7, <3>1, <3>2 DEF CallerInv, EdgesInv
  <2>2. RowInv(c)'
    <3>1. \A i \in Jobs : row'[c][i] = "none"  BY <1>1, <1>2, <1>3 DEF CallerInv, RowInv
    <3> QED  BY <1>3, <3>1 DEF RowInv
  <2>3. ran'[c] \subseteq Delayed'  BY <1>4, <1>5, <1>6, <1>7
  <2>4. \A i \in ran'[c] : Parents(c, i)' \subseteq ran'[c]
    <3> SUFFICES ASSUME NEW i \in ran'[c] PROVE Parents(c, i) \subseteq ran[c]
      BY <1>6, <1>7
    <3> QED  BY <1>4, <1>5, <1>6
  <2>5. \A i \in Jobs : i \in sort'[c].queue <=>
             i \in Delayed' /\ i \notin ran'[c] /\ Parents(c, i)' \subseteq ran'[c]
    BY <1>7, <1>10, <1>13
  <2>6. \A i \in Jobs : sort'[c].left[i] = Cardinality(Parents(c, i)' \ ran'[c])
    BY <1>7, <1>8, <1>11, <1>13
  <2>7. caller'[c].pc = "direct"  BY <1>1
  <2>8. SortInv(c)'  BY <2>3, <2>4, <2>5, <2>6, <2>7 DEF SortInv
  <2> QED  BY <2>1, <2>2, <2>8 DEF CallerInv
<1>17. Remain  BY <1>1 DEF Remain
<1>18. FoundInv(c)'  BY <1>1, <1>2, <1>17, FoundFrame DEF program
<1> QED  BY <1>1, <1>14, <1>15, <1>16, <1>17, <1>18, CallerStep

\* Of some delayed jobs, one has the fewest jobs before it, and none of the others
\* is among them.
LEMMA FewestBefore ==
    ASSUME ProgramInv, NEW Open \in SUBSET Delayed, Open # {}
    PROVE  \E j \in Open : \A i \in Open : i \notin Before(j)
<1>1. /\ Delayed \subseteq Jobs /\ \A i \in Jobs : Before(i) \subseteq Jobs
      /\ \A i, j, k \in Jobs : i \in Before(k) /\ k \in Before(j) => i \in Before(j)
  BY DelayedFacts DEF Delayed, Before
<1>2. \A i \in Jobs : i \notin Before(i)  BY DEF ProgramInv, Acyclic, Before
<1>3. \A i \in Jobs : IsFiniteSet(Before(i)) /\ Cardinality(Before(i)) \in Nat
  BY <1>1, ObjectsFinite, FS_Subset, FS_CardinalityType
<1> DEFINE S == {Cardinality(Before(i)) : i \in Open}
<1>4. Open \subseteq Jobs  BY <1>1
<1>5. S \in SUBSET Nat /\ S # {}  BY <1>3, <1>4
<1>6. PICK n \in S : \A m \in S : n <= m
  <2> HIDE DEF S
  <2> QED  BY <1>5, Smallest
<1>7. PICK j \in Open : n = Cardinality(Before(j))  BY <1>6
<1>8. ASSUME NEW i \in Open, i \in Before(j) PROVE FALSE
  <2>1. i \in Jobs /\ j \in Jobs  BY <1>4, <1>7
  <2>2. Before(i) \in SUBSET Before(j)  BY <1>1, <1>8, <2>1
  <2>3. Before(i) # Before(j)  BY <1>2, <1>8, <2>1
  <2>4. Cardinality(Before(i)) <= Cardinality(Before(j))
        /\ Cardinality(Before(i)) # Cardinality(Before(j))
    BY <1>3, <2>1, <2>2, <2>3, FS_Subset
  <2>5. n <= Cardinality(Before(i))
    <3>1. Cardinality(Before(i)) \in S  BY <1>8
    <3> QED  BY <1>6, <3>1
  <2> HIDE DEF S
  <2> QED  BY <1>3, <1>7, <2>1, <2>4, <2>5
<1> QED  BY <1>7, <1>8

\* When nothing is ready any more, everything was performed.
LEMMA SortComplete ==
    ASSUME Inv, NEW c \in Callers, caller[c].pc = "direct", sort[c].queue = {}
    PROVE  ran[c] = Delayed
<1>1. ProgramInv /\ CallersType /\ CallerInv(c)  BY DEF Inv
<1>2. /\ ran[c] \subseteq Delayed /\ Delayed \subseteq Jobs
      /\ \A i \in Jobs : i \in sort[c].queue <=>
            i \in Delayed /\ i \notin ran[c] /\ Parents(c, i) \subseteq ran[c]
  BY <1>1, DelayedFacts DEF CallerInv, SortInv, Sorted, Delayed
<1> DEFINE Open == Delayed \ ran[c]
<1> SUFFICES ASSUME Open # {} PROVE FALSE  BY <1>2
<1>3. PICK j \in Open : \A i \in Open : i \notin Before(j)
  <2>1. Open \in SUBSET Delayed  OBVIOUS
  <2> HIDE DEF Open
  <2> QED  BY <1>1, <2>1, FewestBefore
<1>4. ASSUME NEW i \in Parents(c, j) PROVE i \in ran[c]
  <2>1. <<i, j>> \in edges[c] /\ i \in Jobs /\ j \in Jobs  BY <1>2 DEF Parents
  <2>2. i \in Delayed /\ i \in Before(j)  BY <1>1, <2>1 DEF CallerInv, EdgesInv
  <2> QED  BY <1>3, <2>2
<1>5. j \in sort[c].queue  BY <1>2, <1>4
<1> QED  BY <1>5

LEMMA SortEndInv ==
    ASSUME Inv, NEW c \in Callers, SortEnd(c)
    PROVE  Inv'
<1>1. /\ caller[c].pc = "direct" /\ sort[c].queue = {}
      /\ caller' = [caller EXCEPT ![c].pc = "executed"]
      /\ UNCHANGED program /\ edges' = edges /\ row' = row /\ ran' = ran /\ sort' = sort
  BY DEF SortEnd
<1>2. CallersType /\ CallerInv(c) /\ FoundInv(c)  BY DEF Inv
<1>3. /\ caller'[c].pc = "executed" /\ caller'[c].found = caller[c].found
      /\ \A d \in Callers \ {c} : caller'[d] = caller[d]
      /\ caller' \in [Callers -> [pc : {"idle", "begun", "known", "stored", "committed",
                                        "direct", "executed"},
                                  found : SUBSET Keyed]]
  BY <1>1, KeepsRecords
<1>4. /\ ~Undelayed(c) /\ ~Undelayed(c)' /\ ~Queued(c) /\ ~Queued(c)' /\ Sorted(c) /\ Sorted(c)'
  BY <1>1, <1>3 DEF Undelayed, Queued, Sorted
<1>5. CallersType'  BY <1>1, <1>2, <1>3 DEF CallersType
<1>6. \A d \in Callers \ {c} : Same(d)  BY <1>1, <1>3 DEF Same
<1>7. /\ Delayed' = Delayed /\ \A j : Before(j)' = Before(j)
      /\ \A j : Parents(c, j)' = Parents(c, j)
  BY <1>1 DEF program, Delayed, Before, Parents
<1>8. CallerInv(c)'
  <2>1. EdgesInv(c)'  BY <1>1, <1>2, <1>4, <1>7 DEF CallerInv, EdgesInv
  <2>2. \A j \in Jobs : row'[c][j] = "none"  BY <1>1, <1>2, <1>4 DEF CallerInv, RowInv
  <2>3. RowInv(c)'  BY <1>4, <2>2 DEF RowInv
  <2>4. ran'[c] = Delayed'  BY <1>1, <1>7, SortComplete
  <2>5. \A j \in ran[c] : Parents(c, j) \subseteq ran[c]  BY <1>2, <1>4 DEF CallerInv, SortInv
  <2>6. SortInv(c)'  BY <1>1, <1>3, <1>7, <2>4, <2>5 DEF SortInv
  <2> QED  BY <2>1, <2>3, <2>6 DEF CallerInv
<1>9. Remain
  <2> SUFFICES ASSUME NEW d \in Callers, caller[d].pc = "committed"
               PROVE  caller'[d].pc = "committed"
    BY <1>1 DEF Remain
  <2>1. d # c  BY <1>1
  <2> QED  BY <1>3, <2>1
<1>10. FoundInv(c)'  BY <1>2, <1>3, <1>9, FoundFrame
<1> QED  BY <1>1, <1>5, <1>6, <1>8, <1>9, <1>10, CallerStep

LEMMA CommitInv ==
    ASSUME Inv, NEW c \in Callers, Commit(c)
    PROVE  Inv'
<1>1. /\ caller[c].pc = "stored"
      /\ caller' = [caller EXCEPT ![c].pc = "committed"]
      /\ UNCHANGED program /\ edges' = edges /\ row' = row /\ ran' = ran /\ sort' = sort
  BY DEF Commit
<1>2. CallersType /\ CallerInv(c) /\ FoundInv(c)  BY DEF Inv
<1>3. /\ caller'[c].pc = "committed" /\ caller'[c].found = caller[c].found
      /\ \A d \in Callers \ {c} : caller'[d] = caller[d]
      /\ caller' \in [Callers -> [pc : {"idle", "begun", "known", "stored", "committed",
                                        "direct", "executed"},
                                  found : SUBSET Keyed]]
  BY <1>1, KeepsRecords
<1>4. /\ ~Undelayed(c) /\ ~Undelayed(c)' /\ Queued(c) /\ Queued(c)' /\ ~Sorted(c) /\ ~Sorted(c)'
  BY <1>1, <1>3 DEF Undelayed, Queued, Sorted
<1>5. CallersType'  BY <1>1, <1>2, <1>3 DEF CallersType
<1>6. \A d \in Callers \ {c} : Same(d)  BY <1>1, <1>3 DEF Same
<1>7. /\ Delayed' = Delayed /\ \A j : Before(j)' = Before(j)
      /\ \A j : Parents(c, j)' = Parents(c, j)
  BY <1>1 DEF program, Delayed, Before, Parents
<1>8. CallerInv(c)'
  <2>1. EdgesInv(c)'  BY <1>1, <1>2, <1>4, <1>7 DEF CallerInv, EdgesInv
  <2>2. RowInv(c)'  BY <1>1, <1>2, <1>4, <1>7 DEF CallerInv, RowInv
  <2>3. SortInv(c)'  BY <1>4 DEF SortInv
  <2> QED  BY <2>1, <2>2, <2>3 DEF CallerInv
<1>9. Remain
  <2> SUFFICES ASSUME NEW d \in Callers, caller[d].pc = "committed"
               PROVE  caller'[d].pc = "committed"
    BY <1>1 DEF Remain
  <2> QED  BY <1>3
<1>10. FoundInv(c)'  BY <1>2, <1>3, <1>9, FoundFrame
<1> QED  BY <1>1, <1>5, <1>6, <1>8, <1>9, <1>10, CallerStep

\* What Start and Finish have in common: "new" are the states of the records.
LEMMA RowStep ==
    ASSUME Inv, NEW c \in Callers,
           NEW new \in [Jobs -> {"none", "wait", "pending", "started", "done"}],
           row' = [row EXCEPT ![c] = new],
           NEW done \in SUBSET Jobs, ran' = [ran EXCEPT ![c] = done],
           Queued(c), UNCHANGED program, caller' = caller, edges' = edges, sort' = sort,
           \A j \in Jobs : new[j] # "none" <=> row[c][j] # "none",
           \A j \in Jobs : new[j] = "wait" => \E i \in Parents(c, j) : new[i] # "done",
           \A j \in Jobs : new[j] \in {"pending", "started", "done"} =>
              \A i \in Parents(c, j) : new[i] = "done",
           \A j \in Jobs : j \in done <=> new[j] = "done"
    PROVE  Inv'
<1>1. CallersType /\ CallerInv(c) /\ FoundInv(c)  BY DEF Inv
<1>2. /\ row'[c] = new /\ \A d \in Callers \ {c} : row'[d] = row[d]
      /\ ran'[c] = done /\ \A d \in Callers \ {c} : ran'[d] = ran[d]
  BY <1>1 DEF CallersType
<1>3. CallersType'
  <2>1. row' \in [Callers -> [Jobs -> {"none", "wait", "pending", "started", "done"}]]
    BY <1>1 DEF CallersType
  <2>2. ran' \in [Callers -> SUBSET Jobs]  BY <1>1 DEF CallersType
  <2> QED  BY <1>1, <2>1, <2>2 DEF CallersType
<1>4. \A d \in Callers \ {c} : Same(d)  BY <1>2 DEF Same
<1>5. /\ Delayed' = Delayed /\ \A j : Before(j)' = Before(j)
      /\ \A j : Parents(c, j)' = Parents(c, j)
      /\ Undelayed(c)' = Undelayed(c) /\ Queued(c)' = Queued(c) /\ Sorted(c)' = Sorted(c)
  BY DEF program, Delayed, Before, Parents, Undelayed, Queued, Sorted
<1>6. CallerInv(c)'
  <2>1. EdgesInv(c)'  BY <1>1, <1>5 DEF CallerInv, EdgesInv
  <2>2. \A j \in Jobs : row'[c][j] # "none" <=> Queued(c)' /\ j \in Delayed'
    BY <1>1, <1>2, <1>5 DEF CallerInv, RowInv
  <2>3. RowInv(c)'  BY <1>2, <1>5, <2>2 DEF RowInv
  <2>4. ~Sorted(c)'  BY <1>5 DEF Queued, Sorted
  <2>5. SortInv(c)'  BY <2>4 DEF SortInv
  <2> QED  BY <2>1, <2>3, <2>5 DEF CallerInv
<1>7. Remain
  <2> SUFFICES ASSUME NEW d \in Callers, NEW j \in Jobs, row[d][j] # "none"
               PROVE  row'[d][j] # "none"
    BY DEF Remain
  <2>1. CASE d = c  BY <1>2, <2>1
  <2>2. CASE d # c  BY <1>2, <2>2
  <2> QED  BY <2>1, <2>2
<1>8. FoundInv(c)'  BY <1>1, <1>7, FoundFrame DEF program
<1> QED  BY <1>3, <1>4, <1>6, <1>7, <1>8, CallerStep

LEMMA StartInv ==
    ASSUME Inv, NEW c \in Callers, NEW j \in Jobs, Start(c, j)
    PROVE  Inv'
<1> DEFINE new == [row[c] EXCEPT ![j] = "started"]
<1>1. /\ caller[c].pc = "committed" /\ row[c][j] = "pending"
      /\ row' = [row EXCEPT ![c][j] = "started"]
      /\ UNCHANGED program /\ caller' = caller /\ edges' = edges /\ ran' = ran /\ sort' = sort
  BY DEF Start
<1>2. CallersType /\ CallerInv(c)  BY DEF Inv
<1>3. row[c] \in [Jobs -> {"none", "wait", "pending", "started", "done"}] /\ ran[c] \in SUBSET Jobs
  BY <1>2 DEF CallersType
<1>4. row' = [row EXCEPT ![c] = new]  BY <1>1
<1>5. ran' = [ran EXCEPT ![c] = ran[c]]  BY <1>1, <1>2 DEF CallersType
<1>6. new \in [Jobs -> {"none", "wait", "pending", "started", "done"}]  BY <1>3
<1>7. new[j] = "started" /\ \A i \in Jobs \ {j} : new[i] = row[c][i]  BY <1>3
<1> HIDE DEF new
<1>8. Queued(c) /\ ~Sorted(c)  BY <1>1 DEF Queued, Sorted
<1>9. /\ \A k \in Jobs : row[c][k] = "wait" => \E i \in Parents(c, k) : row[c][i] # "done"
      /\ \A k \in Jobs : row[c][k] \in {"pending", "started", "done"} =>
            \A i \in Parents(c, k) : row[c][i] = "done"
      /\ \A k \in Jobs : k \in ran[c] <=> row[c][k] = "done"
  BY <1>2, <1>8 DEF CallerInv, RowInv
<1>10. \A k \in Jobs : new[k] = "done" <=> row[c][k] = "done"  BY <1>1, <1>7
<1>11. \A k : Parents(c, k) \subseteq Jobs  BY DEF Parents
<1>12. \A k \in Jobs : new[k] # "none" <=> row[c][k] # "none"  BY <1>1, <1>7
<1>13. \A k \in Jobs : new[k] = "wait" => \E i \in Parents(c, k) : new[i] # "done"
  <2> SUFFICES ASSUME NEW k \in Jobs, new[k] = "wait"
               PROVE  \E i \in Parents(c, k) : new[i] # "done"
    OBVIOUS
  <2>1. row[c][k] = "wait"  BY <1>7
  <2>2. PICK i \in Parents(c, k) : row[c][i] # "done"  BY <1>9, <2>1
  <2> QED  BY <1>10, <1>11, <2>2
<1>14. \A k \in Jobs : new[k] \in {"pending", "started", "done"} =>
          \A i \in Parents(c, k) : new[i] = "done"
  <2> SUFFICES ASSUME NEW k \in Jobs, new[k] \in {"pending", "started", "done"},
                      NEW i \in Parents(c, k)
               PROVE  new[i] = "done"
    OBVIOUS
  <2>1. row[c][k] \in {"pending", "started", "done"}  BY <1>1, <1>7
  <2>2. row[c][i] = "done"  BY <1>9, <2>1
  <2> QED  BY <1>10, <1>11, <2>2
<1>15. \A k \in Jobs : k \in ran[c] <=> new[k] = "done"  BY <1>9, <1>10
<1> QED  BY <1>1, <1>3, <1>4, <1>5, <1>6, <1>8, <1>12, <1>13, <1>14, <1>15, RowStep

LEMMA FinishInv ==
    ASSUME Inv, NEW c \in Callers, NEW j \in Jobs, Finish(c, j)
    PROVE  Inv'
<1> DEFINE done == {i \in Jobs : row[c][i] = "done"} \cup {j}
           new  == [i \in Jobs |->
                      CASE i = j -> "done"
                        [] i \in Children(c, j) /\ row[c][i] = "wait" /\ Parents(c, i) \subseteq done
                             -> "pending"
                        [] OTHER -> row[c][i]]
<1>1. /\ row[c][j] = "started" /\ UNCHANGED program
      /\ caller' = caller /\ edges' = edges /\ sort' = sort
      /\ ran' = [ran EXCEPT ![c] = @ \cup {j}]
  BY DEF Finish
<1>2. CallersType /\ CallerInv(c) /\ ProgramInv  BY DEF Inv
<1>3. row[c] \in [Jobs -> {"none", "wait", "pending", "started", "done"}] /\ ran[c] \in SUBSET Jobs
  BY <1>2 DEF CallersType
<1>4. row' = [row EXCEPT ![c] = new]  BY <1>2 DEF Finish, CallersType
<1>5. Queued(c) /\ ~Sorted(c)
  <2>1. Queued(c)  BY <1>1, <1>2 DEF CallerInv, RowInv
  <2> QED  BY <2>1 DEF Queued, Sorted
<1>6. /\ \A k \in Jobs : row[c][k] = "wait" => \E i \in Parents(c, k) : row[c][i] # "done"
      /\ \A k \in Jobs : row[c][k] \in {"pending", "started", "done"} =>
            \A i \in Parents(c, k) : row[c][i] = "done"
      /\ \A k \in Jobs : k \in ran[c] <=> row[c][k] = "done"
  BY <1>2, <1>5 DEF CallerInv, RowInv
<1>7. done \in SUBSET Jobs /\ ran[c] \cup {j} = done
  BY <1>3, <1>6
<1>8. ran' = [ran EXCEPT ![c] = done]  BY <1>1, <1>2, <1>7 DEF CallersType
<1>9. /\ \A i : Parents(c, i) \subseteq Jobs
      /\ \A i \in Jobs : i \in Children(c, j) <=> j \in Parents(c, i)
  BY DEF Parents, Children
<1>10. /\ new[j] = "done"
       /\ \A i \in Jobs \ {j} :
             IF j \in Parents(c, i) /\ row[c][i] = "wait" /\ Parents(c, i) \subseteq done
             THEN new[i] = "pending" ELSE new[i] = row[c][i]
  <2> HIDE DEF done
  <2>1. new[j] = "done"  BY <1>1
  <2>2. ASSUME NEW i \in Jobs, i # j,
               i \in Children(c, j) /\ row[c][i] = "wait" /\ Parents(c, i) \subseteq done
        PROVE  new[i] = "pending"
    BY <2>2
  <2>3. ASSUME NEW i \in Jobs, i # j,
               ~(i \in Children(c, j) /\ row[c][i] = "wait" /\ Parents(c, i) \subseteq done)
        PROVE  new[i] = row[c][i]
    BY <2>3
  <2> HIDE DEF new
  <2> QED  BY <1>9, <2>1, <2>2, <2>3
<1>11. new \in [Jobs -> {"none", "wait", "pending", "started", "done"}]  BY <1>3
<1>12. \A i \in Jobs : i \in done <=> row[c][i] = "done" \/ i = j  OBVIOUS
<1> HIDE DEF new, done
<1>13. \A i \in Jobs : i \in done <=> new[i] = "done"  BY <1>10, <1>12
<1>14. \A i \in Jobs : new[i] # "none" <=> row[c][i] # "none"  BY <1>1, <1>10
<1>15. \A k \in Jobs : new[k] = "wait" => \E i \in Parents(c, k) : new[i] # "done"
  <2> SUFFICES ASSUME NEW k \in Jobs, new[k] = "wait"
               PROVE  \E i \in Parents(c, k) : new[i] # "done"
    OBVIOUS
  <2>1. k # j /\ row[c][k] = "wait" /\ ~(j \in Parents(c, k) /\ Parents(c, k) \subseteq done)
    BY <1>10
  <2>2. CASE j \in Parents(c, k)
    <3>1. PICK i \in Parents(c, k) : i \notin done  BY <2>1, <2>2
    <3> QED  BY <1>9, <1>13, <3>1
  <2>3. CASE j \notin Parents(c, k)
    <3>1. PICK i \in Parents(c, k) : row[c][i] # "done"  BY <1>6, <2>1
    <3>2. i \in Jobs /\ i # j  BY <1>9, <2>3, <3>1
    <3> QED  BY <1>12, <1>13, <3>1, <3>2
  <2> QED  BY <2>2, <2>3
<1>16. \A k \in Jobs : new[k] \in {"pending", "started", "done"} =>
          \A i \in Parents(c, k) : new[i] = "done"
  <2> SUFFICES ASSUME NEW k \in Jobs, new[k] \in {"pending", "started", "done"},
                      NEW i \in Parents(c, k)
               PROVE  i \in done
    BY <1>9, <1>13
  <2>1. CASE row[c][k] \in {"pending", "started", "done"}
    <3>1. row[c][i] = "done"  BY <1>6, <2>1
    <3> QED  BY <1>9, <1>12, <3>1
  <2>2. CASE row[c][k] \notin {"pending", "started", "done"}
    <3>1. k # j /\ Parents(c, k) \subseteq done  BY <1>1, <1>10, <2>2
    <3> QED  BY <3>1
  <2> QED  BY <2>1, <2>2
<1>17. /\ UNCHANGED program /\ caller' = caller /\ edges' = edges /\ sort' = sort
       /\ Queued(c) /\ done \in SUBSET Jobs
  BY <1>1, <1>5, <1>7
<1> QED  BY <1>4, <1>8, <1>11, <1>13, <1>14, <1>15, <1>16, <1>17, RowStep

LEMMA CallersStep ==
    ASSUME Inv, [Next]_vars
    PROVE  Inv'
<1>1. CASE UNCHANGED vars
  <2>1. /\ UNCHANGED program /\ caller' = caller /\ edges' = edges
        /\ row' = row /\ ran' = ran /\ sort' = sort
    BY <1>1 DEF vars
  <2>2. ProgramInv' /\ CallersType'  BY <2>1, ProgramFrame DEF Inv, CallersType
  <2>3. ASSUME NEW c \in Callers PROVE CallerInv(c)' /\ FoundInv(c)'
    <3>1. Same(c) /\ meaning' = meaning /\ Remain  BY <2>1 DEF Same, program, Remain
    <3>2. CallerInv(c) /\ FoundInv(c) /\ CallersType  BY DEF Inv
    <3>3. CallerInv(c)'  BY <3>1, <3>2, CallerFrame
    <3>4. FoundInv(c)'  BY <2>1, <3>1, <3>2, FoundFrame
    <3> QED  BY <3>3, <3>4
  <2> QED  BY <2>2, <2>3 DEF Inv
<1>2. ASSUME NEW c \in Callers, Perform(c) PROVE Inv'
  BY <1>2, StartInv, FinishInv DEF Perform
<1>3. ASSUME NEW c \in Callers, Direct(c) PROVE Inv'
  BY <1>3, SortEndInv, SortStepInv DEF Direct
<1>4. ASSUME NEW c \in Callers, Begin(c) \/ DelayKnown(c) \/ DelayStore(c) \/ DelayDirect(c) \/ Commit(c)
      PROVE Inv'
  BY <1>4, BeginInv, DelayKnownInv, DelayStoreInv, DelayDirectInv, CommitInv
<1> QED  BY <1>1, <1>2, <1>3, <1>4, OnDoneInv DEF Next

\* For any program, however its chains and groups are nested and connected, and
\* for any number of callers.
THEOREM TypeCorrect == Spec => []TypeOK
<1>1. Inv /\ [Next]_vars => Inv'  BY CallersStep
<1> QED  BY <1>1, CallersInit, TypeFromInv, PTL DEF Spec

\* No stored job waits for nothing: a parent that is not done comes before it by
\* the documentation too, since every edge of the merged graph does.
THEOREM WaitsForBefore == Spec => []WaitsForReason
<1>1. Inv /\ [Next]_vars => Inv'  BY CallersStep
<1>2. Inv => WaitsForReason
  <2> SUFFICES ASSUME Inv, NEW c \in Callers, NEW j \in Jobs, row[c][j] = "wait"
               PROVE  \E i \in Before(j) : row[c][i] # "done"
    BY DEF WaitsForReason
  <2>1. CallerInv(c)  BY DEF Inv
  <2>2. PICK i \in Parents(c, j) : row[c][i] # "done"  BY <2>1 DEF CallerInv, RowInv
  <2>3. i \in Jobs /\ <<i, j>> \in edges[c]  BY DEF Parents
  <2>4. i \in Before(j)  BY <2>1, <2>3 DEF CallerInv, EdgesInv
  <2> QED  BY <2>2, <2>4
<1> QED  BY <1>1, <1>2, CallersInit, PTL DEF Spec

\* A graph is stored or executed as a whole: the merged graph has the jobs that
\* the objects are made of, and as no job comes before itself, topological_sort
\* does not run out of jobs before it has yielded them all.
THEOREM Whole == Spec => []WholeOrKnown
<1>1. Inv /\ [Next]_vars => Inv'  BY CallersStep
<1>2. Inv => WholeOrKnown
  <2> SUFFICES ASSUME Inv, NEW c \in Callers
               PROVE  /\ caller[c].pc \in {"stored", "committed"} =>
                            {j \in Jobs : row[c][j] # "none"} = Delayed
                      /\ caller[c].pc = "executed" => ran[c] = Delayed
                      /\ caller[c].pc = "known" =>
                            /\ {j \in Jobs : row[c][j] # "none"} = {}
                            /\ Delayed \cap Keyed # {}
                            /\ \A j \in Delayed \cap Keyed :
                                  \E d \in Callers \ {c} : /\ caller[d].pc = "committed"
                                                           /\ row[d][j] # "none"
    BY DEF WholeOrKnown
  <2>1. CallerInv(c) /\ FoundInv(c) /\ ProgramInv  BY DEF Inv
  <2>2. Delayed \subseteq Jobs  BY <2>1, DelayedFacts DEF Delayed
  <2>3. \A j \in Jobs : row[c][j] # "none" <=> Queued(c) /\ j \in Delayed
    BY <2>1 DEF CallerInv, RowInv
  <2>4. ASSUME caller[c].pc \in {"stored", "committed"}
        PROVE  {j \in Jobs : row[c][j] # "none"} = Delayed
    BY <2>2, <2>3, <2>4 DEF Queued
  <2>5. ASSUME caller[c].pc = "executed" PROVE ran[c] = Delayed
    BY <2>1, <2>5 DEF CallerInv, SortInv, Sorted
  <2>6. ASSUME caller[c].pc = "known"
        PROVE  /\ {j \in Jobs : row[c][j] # "none"} = {}
               /\ Delayed \cap Keyed # {}
               /\ \A j \in Delayed \cap Keyed :
                     \E d \in Callers \ {c} : caller[d].pc = "committed" /\ row[d][j] # "none"
    <3>1. {j \in Jobs : row[c][j] # "none"} = {}  BY <2>3, <2>6 DEF Queued
    <3>2. Delayed \cap Keyed # {} /\ Delayed \cap Keyed \subseteq caller[c].found
      BY <2>1, <2>6 DEF FoundInv
    <3>3. ASSUME NEW j \in Delayed \cap Keyed
          PROVE  \E d \in Callers \ {c} : caller[d].pc = "committed" /\ row[d][j] # "none"
      <4>1. PICK d \in Callers : caller[d].pc = "committed" /\ row[d][j] # "none"
        BY <2>1, <3>2 DEF FoundInv
      <4>2. d # c  BY <2>6, <4>1
      <4> QED  BY <4>1, <4>2
    <3> QED  BY <3>1, <3>2, <3>3
  <2> QED  BY <2>4, <2>5, <2>6
<1> QED  BY <1>1, <1>2, CallersInit, PTL DEF Spec

-----------------------------------------------------------------------------
(* No job starts too early *)

\* The part of NoChainAtEnds that speaks of this program.
Plain(plain) ==
    \A x \in Containers :
        /\ x \in plain => Kind(x) = "group" /\ Items(x) \subseteq plain
        /\ Kind(x) = "chain" => First(x) \in plain /\ Last(x) \in plain

\* Groups of groups of jobs begin and end with all their jobs.
LEMMA PlainEnds ==
    ASSUME shape \in Shapes, NEW plain \in SUBSET Objects, Plain(plain), NEW x \in plain
    PROVE  Ends[x].head = Leaves(x) /\ Ends[x].tail = Leaves(x)
<1> DEFINE Good(y) == Ends[y].head = Leaves(y) /\ Ends[y].tail = Leaves(y)
           Bad == {y \in plain : ~Good(y)}
<1> SUFFICES ASSUME Bad # {} PROVE FALSE  OBVIOUS
<1>1. PICK y \in Bad : y \in Jobs \/ (y \in Containers /\ Items(y) \cap Bad = {})
  <2>1. Bad \in SUBSET Objects  OBVIOUS
  <2> HIDE DEF Bad
  <2> QED  BY <2>1, Nesting
<1>2. y \in plain /\ ~Good(y)  OBVIOUS
<1>3. CASE y \in Jobs  BY <1>2, <1>3, EndsFacts, LeavesFacts
<1>4. CASE y \in Containers /\ Items(y) \cap Bad = {}
  <2>1. Kind(y) = "group" /\ Items(y) \subseteq plain  BY <1>2, <1>4 DEF Plain
  <2>2. \A z \in Items(y) : Good(z)  BY <1>4, <2>1
  <2>3. /\ \A l : l \in Ends[y].head <=> \E z \in Items(y) : l \in Ends[z].head
        /\ \A l : l \in Ends[y].tail <=> \E z \in Items(y) : l \in Ends[z].tail
    BY <1>4, <2>1, EndsFacts
  <2>4. \A l : l \in Leaves(y) <=> \E z \in Items(y) : l \in Leaves(z)  BY <1>4, LeavesFacts
  <2>5. \A l : l \in Ends[y].head <=> l \in Leaves(y)  BY <2>2, <2>3, <2>4
  <2>6. \A l : l \in Ends[y].tail <=> l \in Leaves(y)  BY <2>2, <2>3, <2>4
  <2> QED  BY <1>2, <2>5, <2>6
<1> QED  BY <1>1, <1>3, <1>4

\* A set of jobs that has, with a job, its parents in the merged graph.
Closed(R) == \A i, j \in Jobs : <<i, j>> \in Connected /\ j \in R => i \in R

\* Who has a job of x has one that it begins with; who has those that it ends with
\* has all.
Back(x, R) ==
    /\ Leaves(x) \cap R # {} => Ends[x].head \cap R # {}
    /\ Ends[x].tail \subseteq R => Leaves(x) \subseteq R

\* Then the items of a chain are filled from the front.
LEMMA ChainBack ==
    ASSUME ProgramInv, NEW R \in SUBSET Jobs, Closed(R),
           NEW x \in Visited(graph), x \in Containers, Kind(x) = "chain",
           \A y \in Items(x) : Back(y, R),
           NEW q \in 1..Len(shape.items[x]), Leaves(shape.items[x][q]) \cap R # {},
           NEW p \in 1..Len(shape.items[x]), p < q
    PROVE  Leaves(shape.items[x][p]) \subseteq R
<1> DEFINE its == shape.items[x]
           Bad == {k \in 1..Len(its) : k < q /\ ~(Leaves(its[k]) \subseteq R)}
           S   == {q - k : k \in Bad}
<1>1. /\ shape \in Shapes /\ x \in Objects /\ Visited(graph) \subseteq Objects
      /\ Own(x) \subseteq DOMAIN graph[x]
  BY GraphFacts DEF ProgramInv
<1>2. /\ Len(its) \in Nat /\ DOMAIN its = 1..Len(its)
      /\ \A k \in 1..Len(its) : its[k] \in Objects /\ its[k] \in Items(x)
      /\ Own(x) = Items(x)
  BY <1>1, ItemFacts, OwnType
<1> HIDE DEF its
<1> SUFFICES ASSUME Bad # {} PROVE FALSE  BY DEF its
<1>3. S \in SUBSET Nat /\ S # {}  BY <1>2 DEF its
<1>4. PICK n \in S : \A m \in S : n <= m
  <2> HIDE DEF S
  <2> QED  BY <1>3, Smallest
<1>5. PICK k \in Bad : n = q - k  BY <1>4
<1>6. k \in 1..Len(its) /\ k < q /\ ~(Leaves(its[k]) \subseteq R) /\ k + 1 \in 1..Len(its)
      /\ k < Len(its) /\ q \in Nat
  BY <1>2, <1>5 DEF its
<1>7. Leaves(its[k + 1]) \cap R # {}
  <2>1. CASE k + 1 = q  BY <2>1 DEF its
  <2>2. CASE k + 1 # q
    <3>1. k + 1 < q  BY <1>6, <2>2
    <3>2. k + 1 \notin Bad
      <4>1. ASSUME k + 1 \in Bad PROVE FALSE
        <5>1. q - (k + 1) \in S  BY <4>1
        <5>2. n <= q - (k + 1)  BY <1>4, <5>1
        <5> HIDE DEF S, Bad
        <5> QED  BY <1>5, <1>6, <5>2
      <4> QED  BY <4>1
    <3>3. Leaves(its[k + 1]) \subseteq R  BY <1>6, <3>1, <3>2
    <3>4. Leaves(its[k + 1]) # {}  BY <1>1, <1>2, <1>6, LeavesExist
    <3> QED  BY <3>3, <3>4
  <2> QED  BY <2>1, <2>2
<1>8. PICK h : h \in Ends[its[k + 1]].head /\ h \in R
  <2>1. its[k + 1] \in Items(x)  BY <1>2, <1>6
  <2>2. Back(its[k + 1], R)  BY <2>1
  <2> QED  BY <1>7, <2>2 DEF Back
<1>9. its[k + 1] \in graph[x][its[k]] /\ its[k] \in DOMAIN graph[x]
  <2>1. its[k + 1] \in Following(x, its[k])
    <3>1. its[k + 1] \in Objects /\ k \in DOMAIN its  BY <1>2, <1>6
    <3> QED  BY <1>6, <3>1 DEF Following, its
  <2>2. its[k] \in DOMAIN graph[x]  BY <1>1, <1>2, <1>6
  <2> QED  BY <2>1, <2>2, EdgeFacts
<1>10. ASSUME NEW i \in Ends[its[k]].tail PROVE i \in R
  <2>1. <<i, h>> \in Connected  BY <1>8, <1>9, ConnectedFacts
  <2>2. i \in Jobs /\ h \in Jobs  BY <2>1, ConnectedOrdered
  <2> QED  BY <1>8, <2>1, <2>2 DEF Closed
<1>11. Leaves(its[k]) \subseteq R
  <2>1. its[k] \in Items(x)  BY <1>2, <1>6
  <2>2. Back(its[k], R)  BY <2>1
  <2> QED  BY <1>10, <2>2 DEF Back
<1> QED  BY <1>6, <1>11

LEMMA AllBack ==
    ASSUME ProgramInv, NEW R \in SUBSET Jobs, Closed(R),
           NEW plain \in SUBSET Objects, Plain(plain), NEW x \in Visited(graph)
    PROVE  Back(x, R)
<1> DEFINE Bad == {y \in Visited(graph) : ~Back(y, R)}
<1> SUFFICES ASSUME Bad # {} PROVE FALSE  OBVIOUS
<1>1. shape \in Shapes  BY DEF ProgramInv
<1>2. PICK y \in Bad : y \in Jobs \/ (y \in Containers /\ Items(y) \cap Bad = {})
  <2>1. Bad \in SUBSET Objects  BY GraphFacts
  <2> HIDE DEF Bad
  <2> QED  BY <1>1, <2>1, Nesting
<1>3. y \in Visited(graph) /\ y \in Objects /\ ~Back(y, R)  BY <1>2, GraphFacts
<1>4. CASE y \in Jobs
  <2>1. Leaves(y) = {y} /\ Ends[y].head = {y} /\ Ends[y].tail = {y}
    BY <1>1, <1>4, LeavesFacts, EndsFacts
  <2> QED  BY <1>3, <2>1 DEF Back
<1>5. CASE y \in Containers /\ Items(y) \cap Bad = {}
  <2>1. Own(y) = Items(y) /\ Items(y) \subseteq Visited(graph) /\ Items(y) \subseteq Objects
    BY <1>1, <1>3, <1>5, OwnType, GraphFacts
  <2>2. \A z \in Items(y) : Back(z, R)  BY <1>5, <2>1
  <2>3. \A l : l \in Leaves(y) <=> \E z \in Items(y) : l \in Leaves(z)  BY <1>1, <1>5, LeavesFacts
  <2>4. CASE Kind(y) = "group"
    <3>1. /\ \A l : l \in Ends[y].head <=> \E z \in Items(y) : l \in Ends[z].head
          /\ \A l : l \in Ends[y].tail <=> \E z \in Items(y) : l \in Ends[z].tail
      BY <1>1, <1>5, <2>4, EndsFacts
    <3>2. ASSUME NEW l \in Leaves(y), l \in R PROVE Ends[y].head \cap R # {}
      <4>1. PICK z \in Items(y) : l \in Leaves(z)  BY <2>3
      <4>2. Ends[z].head \cap R # {}  BY <2>2, <3>2, <4>1 DEF Back
      <4> QED  BY <3>1, <4>2
    <3>3. ASSUME Ends[y].tail \subseteq R, NEW l \in Leaves(y) PROVE l \in R
      <4>1. PICK z \in Items(y) : l \in Leaves(z)  BY <2>3
      <4>2. Ends[z].tail \subseteq R  BY <3>1, <3>3
      <4> QED  BY <2>2, <4>1, <4>2 DEF Back
    <3> QED  BY <1>3, <3>2, <3>3 DEF Back
  <2>5. CASE Kind(y) = "chain"
    <3> DEFINE its == shape.items[y]
    <3>1. /\ Len(its) \in Nat \ {0} /\ First(y) = its[1] /\ Last(y) = its[Len(its)]
          /\ \A z : z \in Items(y) <=> \E k \in 1..Len(its) : z = its[k]
          /\ First(y) \in Items(y) /\ Last(y) \in Items(y)
      BY <1>1, <1>5, ItemFacts DEF First, Last
    <3>2. First(y) \in plain /\ Last(y) \in plain  BY <1>5, <2>5 DEF Plain
    <3>3. Ends[y].head = Leaves(First(y)) /\ Ends[y].tail = Leaves(Last(y))
      <4>1. Ends[y].head = Ends[First(y)].tail /\ Ends[y].tail = Ends[Last(y)].head
        BY <1>1, <1>5, <2>5, EndsFacts
      <4> QED  BY <1>1, <3>2, <4>1, PlainEnds
    <3>4. Leaves(First(y)) # {} /\ Leaves(Last(y)) # {}  BY <1>1, <2>1, <3>1, LeavesExist
    <3>5. ASSUME NEW q \in 1..Len(its), Leaves(its[q]) \cap R # {},
                 NEW p \in 1..Len(its), p < q
          PROVE  Leaves(its[p]) \subseteq R
      BY <1>3, <1>5, <2>2, <2>5, <3>5, ChainBack
    <3> HIDE DEF its
    <3>6. ASSUME NEW l \in Leaves(y), l \in R PROVE Ends[y].head \cap R # {}
      <4>1. PICK z \in Items(y) : l \in Leaves(z)  BY <2>3
      <4>2. PICK q \in 1..Len(its) : z = its[q]  BY <3>1
      <4>3. CASE q = 1  BY <3>1, <3>3, <3>6, <4>1, <4>2, <4>3
      <4>4. CASE q # 1
        <5>1. 1 \in 1..Len(its) /\ 1 < q  BY <3>1, <4>2, <4>4
        <5>2. Leaves(its[1]) \subseteq R  BY <3>5, <3>6, <4>1, <4>2, <5>1
        <5> QED  BY <3>1, <3>3, <3>4, <5>2
      <4> QED  BY <4>3, <4>4
    <3>7. ASSUME Ends[y].tail \subseteq R, NEW l \in Leaves(y) PROVE l \in R
      <4>1. PICK z \in Items(y) : l \in Leaves(z)  BY <2>3
      <4>2. PICK p \in 1..Len(its) : z = its[p]  BY <3>1
      <4>3. Leaves(its[Len(its)]) \subseteq R  BY <3>1, <3>3, <3>7
      <4>4. CASE p = Len(its)  BY <4>1, <4>2, <4>3, <4>4
      <4>5. CASE p # Len(its)
        <5>1. Len(its) \in 1..Len(its) /\ p < Len(its)  BY <3>1, <4>2, <4>5
        <5>2. Leaves(its[Len(its)]) \cap R # {}  BY <3>1, <3>4, <4>3
        <5>3. Leaves(its[p]) \subseteq R  BY <3>5, <4>2, <5>1, <5>2
        <5> QED  BY <4>1, <4>2, <5>3
      <4> QED  BY <4>4, <4>5
    <3> QED  BY <1>3, <3>6, <3>7 DEF Back
  <2> QED  BY <1>1, <1>5, <2>4, <2>5, ItemFacts
<1> QED  BY <1>2, <1>4, <1>5

\* So the merged graph holds a job back until all that comes before it is done.
LEMMA Backwards ==
    ASSUME ProgramInv, NEW R \in SUBSET Jobs, Closed(R),
           NEW plain \in SUBSET Objects, Plain(plain), NEW j \in R
    PROVE  Before(j) \subseteq R
<1>1. /\ shape \in Shapes /\ links \in SUBSET (Objects \X Objects)
  BY DEF ProgramInv
<1>2. ASSUME NEW x \in Visited(graph)
      PROVE  /\ Back(x, R) /\ x \in Objects
             /\ Own(x) \subseteq DOMAIN graph[x] /\ Linked(x) \subseteq DOMAIN graph[x]
             /\ DOMAIN graph[x] \subseteq Visited(graph)
  BY AllBack, GraphFacts DEF ProgramInv
<1>3. ASSUME NEW x \in Visited(graph), x \in Containers, Kind(x) = "chain",
             NEW q \in 1..Len(shape.items[x]), Leaves(shape.items[x][q]) \cap R # {},
             NEW p \in 1..Len(shape.items[x]), p < q
      PROVE  Leaves(shape.items[x][p]) \subseteq R
  <2>1. Own(x) = Items(x)  BY <1>1, <1>2, <1>3, OwnType
  <2>2. \A y \in Items(x) : Back(y, R)  BY <1>2, <2>1
  <2> QED  BY <1>3, <2>2, ChainBack
<1>4. ASSUME NEW i \in Jobs, NEW k \in R, NEW u, NEW w, i \in Leaves(u), k \in Leaves(w),
             NEW x \in Visited(graph), InOneChain(x, u, w)
      PROVE  i \in R
  <2>1. x \in Objects /\ Kind(x) = "chain"  BY <1>2, <1>4 DEF InOneChain
  <2>2. x \in Containers  BY <2>1 DEF Objects, Kind
  <2>3. DOMAIN shape.items[x] = 1..Len(shape.items[x])  BY <1>1, <2>2, ItemFacts
  <2>4. PICK n, m \in 1..Len(shape.items[x]) :
           n < m /\ u = shape.items[x][n] /\ w = shape.items[x][m]
    BY <1>4, <2>3 DEF InOneChain
  <2>5. Leaves(shape.items[x][m]) \cap R # {}  BY <1>4, <2>4
  <2>6. Leaves(shape.items[x][n]) \subseteq R  BY <1>3, <2>1, <2>2, <2>4, <2>5
  <2> QED  BY <1>4, <2>4, <2>6
<1>5. ASSUME NEW i \in Jobs, NEW k \in R, NEW u, NEW w, i \in Leaves(u), k \in Leaves(w),
             <<u, w>> \in links
      PROVE  i \in R
  <2>1. u \in Objects /\ w \in Objects  BY <1>1, <1>5
  <2>2. u \in Visited(graph) /\ w \in Linked(u)  BY <1>5, <2>1 DEF ProgramInv, Linked
  <2>3. w \in Visited(graph)  BY <1>2, <2>2
  <2>4. Leaves(w) \cap R # {}  BY <1>5
  <2>5. PICK h : h \in Ends[w].head /\ h \in R  BY <1>2, <2>3, <2>4 DEF Back
  <2>6. ASSUME NEW v \in Sources(u) PROVE Leaves(v) \subseteq R
    <3>1. v \in Own(u)  BY <1>1, <2>1, OwnType
    <3>2. v \in DOMAIN graph[u]  BY <1>2, <2>2, <3>1
    <3>3. w \in graph[u][v]  BY <2>2, <3>2, EdgeFacts
    <3>4. ASSUME NEW e \in Ends[v].tail PROVE e \in R
      <4>1. <<e, h>> \in Connected  BY <2>2, <2>5, <3>2, <3>3, ConnectedFacts
      <4>2. e \in Jobs /\ h \in Jobs  BY <4>1, ConnectedOrdered
      <4> QED  BY <2>5, <4>1, <4>2 DEF Closed
    <3>5. v \in Visited(graph)  BY <1>2, <2>2, <3>2
    <3> QED  BY <1>2, <3>4, <3>5 DEF Back
  <2>7. CASE u \in Jobs
    <3>1. Sources(u) = {u}  BY <1>1, <2>1, <2>7, OwnType
    <3> QED  BY <1>5, <2>6, <3>1
  <2>8. CASE u \in Containers /\ Kind(u) = "group"
    <3>1. Sources(u) = Items(u)  BY <2>8 DEF Sources
    <3>2. PICK v \in Items(u) : i \in Leaves(v)  BY <1>1, <1>5, <2>8, LeavesFacts
    <3> QED  BY <2>6, <3>1, <3>2
  <2>9. CASE u \in Containers /\ Kind(u) = "chain"
    <3> DEFINE its == shape.items[u]
    <3>1. /\ Len(its) \in Nat \ {0} /\ Last(u) = its[Len(its)] /\ Last(u) \in Objects
          /\ \A z : z \in Items(u) <=> \E n \in 1..Len(its) : z = its[n]
      BY <1>1, <2>9, ItemFacts DEF Last
    <3>2. Sources(u) = {Last(u)}  BY <2>9 DEF Sources
    <3>3. Leaves(its[Len(its)]) \subseteq R  BY <2>6, <3>1, <3>2
    <3>4. Leaves(its[Len(its)]) # {}  BY <1>1, <3>1, LeavesExist
    <3>5. PICK z \in Items(u) : i \in Leaves(z)  BY <1>1, <1>5, <2>9, LeavesFacts
    <3>6. PICK n \in 1..Len(its) : z = its[n]  BY <3>1, <3>5
    <3>7. CASE n = Len(its)  BY <3>3, <3>5, <3>6, <3>7
    <3>8. CASE n # Len(its)
      <4>1. Len(its) \in 1..Len(its) /\ n < Len(its)  BY <3>1, <3>6, <3>8
      <4>2. Leaves(its[Len(its)]) \cap R # {}  BY <3>3, <3>4
      <4>3. Leaves(its[n]) \subseteq R  BY <1>3, <2>2, <2>9, <3>6, <4>1, <4>2
      <4> QED  BY <3>5, <3>6, <4>3
    <3> QED  BY <3>7, <3>8
  <2> QED  BY <1>1, <2>1, <2>7, <2>8, <2>9, ItemFacts DEF Objects
<1>6. ASSUME NEW i \in Jobs, NEW k \in R, <<i, k>> \in Ordered(Visited(graph), links)
      PROVE  i \in R
  <2>1. PICK u, w : /\ i \in Leaves(u) /\ k \in Leaves(w)
                    /\ <<u, w>> \in links \/ \E x \in Visited(graph) : InOneChain(x, u, w)
    BY <1>1, <1>6, OrderedFacts
  <2> QED  BY <1>4, <1>5, <2>1
<1>7. \A i, k \in Jobs : <<i, k>> \in Ordered(Visited(graph), links) /\ k \in R \cup {j} => i \in R
  BY <1>6
<1> QED  BY <1>7, DelayedFacts

\* What a caller found holds back a job until all that comes before it is done.
Complete(c) ==
    ~Undelayed(c) =>
        \A R \in SUBSET Jobs :
            (\A i, j \in Jobs : <<i, j>> \in edges[c] /\ j \in R => i \in R)
               => \A j \in R : Before(j) \subseteq R

LEMMA PlainFromShape ==
    ASSUME shape \in Shapes, \A s \in Shapes : NoChainAtEnds(s)
    PROVE  \E plain \in SUBSET Objects : Plain(plain)
<1>1. NoChainAtEnds(shape)  OBVIOUS
<1>2. PICK plain \in SUBSET Objects :
         \A x \in Containers :
            /\ x \in plain => /\ shape.kind[x] = "group"
                              /\ \A n \in DOMAIN shape.items[x] : shape.items[x][n] \in plain
            /\ shape.kind[x] = "chain" =>
                  {shape.items[x][1], shape.items[x][Len(shape.items[x])]} \subseteq plain
  BY <1>1 DEF NoChainAtEnds
<1>3. ASSUME NEW x \in Containers
      PROVE  /\ x \in plain => Kind(x) = "group" /\ Items(x) \subseteq plain
             /\ Kind(x) = "chain" => First(x) \in plain /\ Last(x) \in plain
  <2>1. Kind(x) = shape.kind[x]  BY <1>3, ItemFacts
  <2>2. ASSUME x \in plain PROVE Items(x) \subseteq plain  BY <1>2, <2>2 DEF Items
  <2> QED  BY <1>2, <2>1, <2>2 DEF First, Last
<1> QED  BY <1>3 DEF Plain

LEMMA CompleteStep ==
    ASSUME \A s \in Shapes : NoChainAtEnds(s),
           Inv, \A c \in Callers : Complete(c), [Next]_vars, NEW c \in Callers
    PROVE  Complete(c)'
<1>1. ProgramInv /\ CallersType  BY DEF Inv
<1>2. PICK plain \in SUBSET Objects : Plain(plain)  BY <1>1, PlainFromShape DEF ProgramInv
<1>3. ASSUME meaning' = meaning, edges'[c] = Connected PROVE Complete(c)'
  <2>1. \A j : Before(j)' = Before(j)  BY <1>3 DEF Before
  <2>2. ASSUME NEW R \in SUBSET Jobs,
               \A i, j \in Jobs : <<i, j>> \in Connected /\ j \in R => i \in R,
               NEW j \in R
        PROVE  Before(j) \subseteq R
    <3>1. Closed(R)  BY <2>2 DEF Closed
    <3> QED  BY <1>1, <1>2, <3>1, Backwards
  <2>3. \A R \in SUBSET Jobs :
           (\A i, j \in Jobs : <<i, j>> \in edges'[c] /\ j \in R => i \in R)
              => \A j \in R : Before(j)' \subseteq R
    BY <1>3, <2>1, <2>2
  <2> QED  BY <2>3 DEF Complete
<1>4. ASSUME meaning' = meaning, edges'[c] = edges[c], Undelayed(c) => Undelayed(c)'
      PROVE  Complete(c)'
  <2>1. \A j : Before(j)' = Before(j)  BY <1>4 DEF Before
  <2>2. Complete(c)  OBVIOUS
  <2> QED  BY <1>4, <2>1, <2>2 DEF Complete
<1>5. CASE UNCHANGED vars  BY <1>4, <1>5 DEF vars, program, Undelayed
<1>6. ASSUME NEW x \in Objects, NEW y \in Objects, OnDone(x, y) PROVE Complete(c)'
  <2>1. caller'[c].pc = "idle"  BY <1>6 DEF OnDone
  <2>2. Undelayed(c)'  BY <2>1 DEF Undelayed
  <2> QED  BY <2>2 DEF Complete
<1>7. ASSUME NEW d \in Callers, DelayKnown(d) \/ DelayStore(d) \/ DelayDirect(d) PROVE Complete(c)'
  <2>1. /\ meaning' = meaning /\ edges' = [edges EXCEPT ![d] = Connected]
        /\ \E pc : caller' = [caller EXCEPT ![d].pc = pc]
    BY <1>7 DEF DelayKnown, DelayStore, DelayDirect, program
  <2>2. CASE d = c
    <3>1. edges'[c] = Connected  BY <1>1, <2>1, <2>2 DEF CallersType
    <3> QED  BY <1>3, <2>1, <3>1
  <2>3. CASE d # c
    <3>1. edges'[c] = edges[c] /\ caller'[c] = caller[c]  BY <1>1, <2>1, <2>3 DEF CallersType
    <3> QED  BY <1>4, <2>1, <3>1 DEF Undelayed
  <2> QED  BY <2>2, <2>3
<1>8. ASSUME NEW d \in Callers, Begin(d) \/ Commit(d) \/ SortEnd(d) PROVE Complete(c)'
  <2>1. meaning' = meaning /\ edges' = edges  BY <1>8 DEF Begin, Commit, SortEnd, program
  <2>2. Undelayed(c) => Undelayed(c)'
    <3>1. CASE d = c
      <4>1. CASE Begin(c)
        <5>1. caller'[c].pc = "begun"  BY <1>1, <4>1 DEF Begin, CallersType
        <5> QED  BY <5>1 DEF Undelayed
      <4>2. CASE Commit(c) \/ SortEnd(c)  BY <4>2 DEF Commit, SortEnd, Undelayed
      <4> QED  BY <1>8, <3>1, <4>1, <4>2
    <3>2. CASE d # c
      <4>1. caller'[c] = caller[c]
        <5>1. \E z : caller' = [caller EXCEPT ![d] = z]
          BY <1>8 DEF Begin, Commit, SortEnd
        <5> QED  BY <1>1, <3>2, <5>1 DEF CallersType
      <4> QED  BY <4>1 DEF Undelayed
    <3> QED  BY <3>1, <3>2
  <2> QED  BY <1>4, <2>1, <2>2
<1>9. ASSUME NEW d \in Callers, NEW j \in Jobs, Start(d, j) \/ Finish(d, j) \/ SortStep(d, j)
      PROVE  Complete(c)'
  <2>1. meaning' = meaning /\ edges' = edges /\ caller' = caller
    BY <1>9 DEF Start, Finish, SortStep, program
  <2> QED  BY <1>4, <2>1 DEF Undelayed
<1> QED  BY <1>5, <1>6, <1>7, <1>8, <1>9 DEF Next, Perform, Direct

\* The chains, groups and calls of on_done order the jobs as documented, whatever
\* the program, when no chain begins or ends with one: the run nested_chain shows
\* that this is needed.  The jobs that were performed have their parents among
\* them; so they have, from the leaves of an object back to the ones it begins with,
\* all that comes before.  A job that is performed now is not one of its own.
THEOREM Ordering ==
    ASSUME \A s \in Shapes : NoChainAtEnds(s)
    PROVE  Spec => []OrderRespected
<1>1. Init => \A c \in Callers : Complete(c)
  BY DEF Init, Complete, Undelayed
<1>2. Inv /\ (\A c \in Callers : Complete(c)) /\ [Next]_vars
         => Inv' /\ (\A c \in Callers : Complete(c))'
  BY CallersStep, CompleteStep
<1>3. Inv /\ (\A c \in Callers : Complete(c)) => OrderRespected
  <2> SUFFICES ASSUME Inv, \A c \in Callers : Complete(c), NEW c \in Callers,
                      NEW j \in ran[c] \cup {i \in Jobs : row[c][i] = "started"}
               PROVE  Before(j) \subseteq ran[c]
    BY DEF OrderRespected
  <2>1. CallerInv(c) /\ ProgramInv /\ CallersType  BY DEF Inv
  <2>2. ran[c] \subseteq Jobs /\ j \in Jobs  BY <2>1 DEF CallersType
  <2>3. /\ \A i \in ran[c] : Parents(c, i) \subseteq ran[c]
        /\ Parents(c, j) \subseteq ran[c]
        /\ ~Undelayed(c)
    <3>1. CASE Sorted(c)
      <4>1. row[c][j] = "none"  BY <2>1, <2>2, <3>1 DEF CallerInv, RowInv, Queued, Sorted
      <4>2. \A i \in ran[c] : Parents(c, i) \subseteq ran[c]  BY <2>1, <3>1 DEF CallerInv, SortInv
      <4> QED  BY <3>1, <4>1, <4>2 DEF Sorted, Undelayed
    <3>2. CASE ~Sorted(c)
      <4>1. \A i \in Jobs : i \in ran[c] <=> row[c][i] = "done"
        BY <2>1, <3>2 DEF CallerInv, RowInv
      <4>2. \A k \in Jobs : row[c][k] \in {"pending", "started", "done"} =>
               Parents(c, k) \subseteq ran[c]
        <5>1. \A k \in Jobs : row[c][k] \in {"pending", "started", "done"} =>
                 \A i \in Parents(c, k) : row[c][i] = "done"
          BY <2>1 DEF CallerInv, RowInv
        <5>2. \A k : Parents(c, k) \subseteq Jobs  BY DEF Parents
        <5> QED  BY <4>1, <5>1, <5>2
      <4>3. row[c][j] \in {"started", "done"}  BY <2>2, <4>1
      <4>4. Queued(c)  BY <2>1, <2>2, <4>3 DEF CallerInv, RowInv
      <4> QED  BY <2>2, <4>1, <4>2, <4>3, <4>4 DEF Queued, Undelayed
    <3> QED  BY <3>1, <3>2
  <2> DEFINE R == ran[c] \cup {j}
  <2>4. R \in SUBSET Jobs /\ j \in R  BY <2>2
  <2>5. \A i, k \in Jobs : <<i, k>> \in edges[c] /\ k \in R => i \in R  BY <2>3 DEF Parents
  <2>6. Before(j) \subseteq R
    <3> HIDE DEF R
    <3> QED  BY <2>3, <2>4, <2>5 DEF Complete
  <2>7. j \notin Before(j)  BY <2>1, <2>2 DEF ProgramInv, Acyclic, Before
  <2> QED  BY <2>6, <2>7
<1> QED  BY <1>1, <1>2, <1>3, CallersInit, PTL DEF Spec


\* A graph that is not finished always has a job for somebody to take or to end: no
\* job waits for one that was not stored, and no two wait for each other.
NeverStuck ==
    \A c \in Callers :
        /\ caller[c].pc = "committed" /\ ran[c] # Delayed =>
              \E j \in Delayed : row[c][j] \in {"pending", "started"}
        /\ caller[c].pc = "direct" /\ ran[c] # Delayed => sort[c].queue # {}

\* What keeps GraphCompletes from failing, for every program: of the jobs that are
\* not done, one has none of the others before it, so none of them is its parent.
THEOREM GraphNotStuck == Spec => []NeverStuck
<1>1. Inv /\ [Next]_vars => Inv'  BY CallersStep
<1>2. Inv => NeverStuck
  <2> SUFFICES ASSUME Inv, NEW c \in Callers, ran[c] # Delayed
               PROVE  /\ caller[c].pc = "committed" =>
                            \E j \in Delayed : row[c][j] \in {"pending", "started"}
                      /\ caller[c].pc = "direct" => sort[c].queue # {}
    BY DEF NeverStuck
  <2>1. ProgramInv /\ CallersType /\ CallerInv(c)  BY DEF Inv
  <2>2. Delayed \subseteq Jobs  BY <2>1, DelayedFacts DEF Delayed
  <2>3. caller[c].pc = "direct" => sort[c].queue # {}  BY SortComplete
  <2>4. ASSUME caller[c].pc = "committed"
        PROVE  \E j \in Delayed : row[c][j] \in {"pending", "started"}
    <3> DEFINE Open == Delayed \ ran[c]
    <3>1. Queued(c) /\ ~Sorted(c)  BY <2>4 DEF Queued, Sorted
    <3>2. /\ \A i \in Jobs : row[c][i] # "none" <=> i \in Delayed
          /\ \A i \in Jobs : row[c][i] = "wait" => \E k \in Parents(c, i) : row[c][k] # "done"
          /\ \A i \in Jobs : i \in ran[c] <=> row[c][i] = "done"
      BY <2>1, <3>1 DEF CallerInv, RowInv
    <3>3. ran[c] \subseteq Delayed
      <4>1. ran[c] \subseteq Jobs  BY <2>1 DEF CallersType
      <4> QED  BY <3>2, <4>1
    <3>4. Open # {}  BY <3>3
    <3>5. PICK j \in Open : \A i \in Open : i \notin Before(j)
      <4>1. Open \in SUBSET Delayed  OBVIOUS
      <4> HIDE DEF Open
      <4> QED  BY <2>1, <3>4, <4>1, FewestBefore
    <3>6. j \in Jobs /\ row[c][j] \in {"wait", "pending", "started"}
      <4>1. j \in Jobs /\ row[c][j] # "none" /\ row[c][j] # "done"  BY <2>2, <3>2, <3>5
      <4>2. row[c][j] \in {"none", "wait", "pending", "started", "done"}
        BY <2>1, <4>1 DEF CallersType
      <4> QED  BY <4>1, <4>2
    <3>7. row[c][j] # "wait"
      <4>1. ASSUME row[c][j] = "wait" PROVE FALSE
        <5>1. PICK k \in Parents(c, j) : row[c][k] # "done"  BY <3>2, <3>6, <4>1
        <5>2. k \in Jobs /\ <<k, j>> \in edges[c]  BY DEF Parents
        <5>3. k \in Delayed /\ k \in Before(j)  BY <2>1, <3>6, <5>2 DEF CallerInv, EdgesInv
        <5>4. k \notin ran[c]  BY <3>2, <5>1, <5>2
        <5> QED  BY <3>5, <5>3, <5>4
      <4> QED  BY <4>1
    <3> QED  BY <3>5, <3>6, <3>7
  <2> QED  BY <2>3, <2>4
<1> QED  BY <1>1, <1>2, CallersInit, PTL DEF Spec

=============================================================================
