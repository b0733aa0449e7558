-------------------------- MODULE DelayableGraphs --------------------------
(***************************************************************************)
(* Graphs of delayables (delay.py): Python code composes delayables into   *)
(* chains and groups, connects them with on_done, and delays the whole.    *)
(* Each object has a graph of its own over the objects connected to it;    *)
(* delay() merges them into one graph of jobs and stores the jobs, unless  *)
(* jobs with the same identity keys wait already, or performs them at once *)
(* when the context asks for it.                                           *)
(*                                                                         *)
(* Several callers delay graphs built by the same code, each in a          *)
(* transaction of its own, which sees the jobs that were committed when it *)
(* began.  Stored jobs are then performed, parents first; how they get to  *)
(* the workers is the subject of module JobQueue.                          *)
(***************************************************************************)
EXTENDS Naturals, FiniteSets, Sequences

CONSTANTS
    Jobs,        \* the delayables of the program
    Containers,  \* its chains and groups
    Shapes,      \* the nestings to look at: kind and items of each container, the top
    Keyed,       \* delayables with an identity key of their own
    Callers,     \* transactions that delay the graph
    MaxLinks     \* calls of on_done (bound)

Objects == Jobs \cup Containers

ASSUME ShapesType ==
    \A s \in Shapes :
        /\ s.kind \in [Containers -> {"chain", "group"}]
        /\ s.items \in [Containers -> Seq(Objects) \ {<<>>}]
        /\ s.top \in Objects
\* Containers are built from objects that exist already.
ASSUME NestingType ==
    \A s \in Shapes : \E rank \in [Objects -> 0..Cardinality(Containers)] :
        \A x \in Containers : \A n \in DOMAIN s.items[x] : rank[s.items[x][n]] < rank[x]
ASSUME ObjectsFinite ==
    IsFiniteSet(Jobs) /\ IsFiniteSet(Containers) /\ Jobs \cap Containers = {}
ASSUME KeyedType == Keyed \subseteq Jobs
ASSUME MaxLinksType == MaxLinks \in Nat

VARIABLES
    shape,   \* the program: an element of Shapes
    links,   \* the calls x.on_done(y) it made
    meaning, \* history: the jobs, and their order by the documentation
    graph,   \* _graph of each object: its vertices and their neighbours
    caller,  \* per caller: where its transaction is, the keys it found waiting
    edges,   \* per caller: the edges of the graph of jobs that delay() built
    row,     \* per caller: the states of the job records it stored
    ran,     \* per caller: the jobs that were performed
    sort     \* per caller: the generator topological_sort

program == <<shape, links, meaning, graph>>
vars    == <<program, caller, edges, row, ran, sort>>

Items(x) == {shape.items[x][i] : i \in DOMAIN shape.items[x]}
First(x) == shape.items[x][1]
Last(x)  == shape.items[x][Len(shape.items[x])]
Kind(x)  == IF x \in Jobs THEN "job" ELSE shape.kind[x]

\* The least set that has the elements of "from" and, with x, all of next[x].
Reachable(next, from) ==
    {x \in DOMAIN next :
        \A S \in SUBSET DOMAIN next :
            from \subseteq S /\ (\A y \in S : next[y] \subseteq S) => x \in S}

-----------------------------------------------------------------------------
(* The code that composes and connects. *)

\* _head and _tail: the jobs that an edge to an object, or from it, ends at.
Ends[x \in Objects] ==
    CASE Kind(x) = "job"   -> [head |-> {x}, tail |-> {x}]
      [] Kind(x) = "group" -> [head |-> UNION {Ends[y].head : y \in Items(x)},
                               tail |-> UNION {Ends[y].tail : y \in Items(x)}]
      [] OTHER             -> [head |-> Ends[First(x)].tail, tail |-> Ends[Last(x)].head]

\* Mutant: the items of a group are connected like those of a chain.
NewGraphGroupChained(s, x) ==
    IF x \in Jobs THEN [v \in {x} |-> {}]
    ELSE LET its == s.items[x]
         IN  [v \in {its[i] : i \in DOMAIN its} |->
                 {its[i + 1] : i \in {k \in DOMAIN its : its[k] = v /\ k < Len(its)}}]

\* The constructors.
NewGraph(s, x) ==
    IF x \in Jobs THEN [v \in {x} |-> {}]
    ELSE LET its == s.items[x]
         IN  [v \in {its[i] : i \in DOMAIN its} |->
                 {its[i + 1] : i \in {k \in DOMAIN its : /\ s.kind[x] = "chain"
                                                         /\ its[k] = v /\ k < Len(its)}}]

\* The vertices that on_done of x connects.
Sources(x) ==
    CASE Kind(x) = "job"   -> {x}
      [] Kind(x) = "chain" -> {Last(x)}
      [] Kind(x) = "group" -> Items(x)

AddEdges(g, parents, child) ==
    [v \in DOMAIN g \cup {child} |->
        (IF v \in DOMAIN g THEN g[v] ELSE {}) \cup (IF v \in parents THEN {child} ELSE {})]

\* The objects that delay() visits from the top: the vertices of their graphs.
Visited(g) == Reachable([x \in Objects |-> DOMAIN g[x]], {shape.top})

\* _connect_graphs: the graphs of the visited objects, merged.
Vertices == UNION {Ends[v].tail : v \in UNION {DOMAIN graph[x] : x \in Visited(graph)}}

\* Mutant: the heads of a vertex are connected instead of its tails.
MergedAtHeads(g) ==
    UNION {Ends[v].head \X UNION {Ends[n].head : n \in g[v]} : v \in DOMAIN g}

Merged(g) ==
    UNION {Ends[v].tail \X UNION {Ends[n].head : n \in g[v]} : v \in DOMAIN g}

Connected == UNION {Merged(graph[x]) : x \in Visited(graph)}

Parents(c, j)  == {i \in Jobs : <<i, j>> \in edges[c]}
Children(c, j) == {i \in Jobs : <<j, i>> \in edges[c]}

-----------------------------------------------------------------------------
(* What the documentation of chain, group and on_done says of the order. *)

\* The jobs that x is made of.
Leaves(x) == Jobs \cap Reachable([y \in Objects |-> IF y \in Jobs THEN {} ELSE Items(y)], {x})

\* "jobs must be executed sequentially": the items of the chains among xs.
InChains(xs) ==
    UNION {LET s == shape.items[k]
           IN  {<<s[p[1]], s[p[2]]>> : p \in {q \in (DOMAIN s) \X (DOMAIN s) : q[1] < q[2]}} :
              k \in {x \in xs : Kind(x) = "chain"}}

\* The jobs below the objects xs, and before each job the ones that chains and
\* calls of on_done put there.
Meaning(xs, calls) ==
    LET direct == UNION {Leaves(p[1]) \X Leaves(p[2]) : p \in calls \cup InChains(xs)}
        next   == [j \in Jobs |-> {i \in Jobs : <<i, j>> \in direct}]
    IN  [jobs   |-> UNION {Leaves(x) : x \in xs},
         before |-> [j \in Jobs |-> Reachable(next, next[j])]]

Before(j) == meaning.before[j]
Delayed   == meaning.jobs

\* topological_sort "assumes the graph has no cycle".
Acyclic(order) == \A j \in Jobs : j \notin order.before[j]

\* No chain begins or ends with a chain, nor with a group that has one.
NoChainAtEnds(s) ==
    \E plain \in SUBSET Objects :
        \A x \in Containers :
            /\ x \in plain => /\ s.kind[x] = "group"
                              /\ \A n \in DOMAIN s.items[x] : s.items[x][n] \in plain
            /\ s.kind[x] = "chain" => {s.items[x][1], s.items[x][Len(s.items[x])]} \subseteq plain

-----------------------------------------------------------------------------
Init ==
    /\ shape \in Shapes
    /\ links = {}
    /\ graph = [x \in Objects |-> NewGraph(shape, x)]
    /\ meaning = Meaning(Visited(graph), links) /\ Acyclic(meaning)
    /\ caller = [c \in Callers |-> [pc |-> "idle", found |-> {}]]
    /\ edges = [c \in Callers |-> {}]
    /\ row = [c \in Callers |-> [j \in Jobs |-> "none"]]
    /\ ran = [c \in Callers |-> {}]
    /\ sort = [c \in Callers |-> [queue |-> {}, left |-> [j \in Jobs |-> 0]]]

\* x.on_done(y), where x belongs to the graph already.
OnDone(x, y) ==
    /\ \A c \in Callers : caller[c].pc = "idle"
    /\ Cardinality(links) < MaxLinks
    /\ x \in Visited(graph)
    /\ <<x, y>> \notin links
    /\ LET calls == links \cup {<<x, y>>}
           g     == [graph EXCEPT ![x] = AddEdges(@, Sources(x), y)]
           order == Meaning(Visited(g), calls)
       IN  /\ Acyclic(order)
           /\ links' = calls /\ graph' = g /\ meaning' = order
    /\ UNCHANGED <<shape, caller, edges, row, ran, sort>>

\* The transaction of the caller takes its snapshot.
\* job_record_with_same_identity_key looks for pending and enqueued jobs only.
Begin(c) ==
    /\ caller[c].pc = "idle"
    /\ caller' = [caller EXCEPT ![c] =
           [pc |-> "begun",
            found |-> {j \in Keyed : \E d \in Callers : /\ caller[d].pc = "committed"
                                                        /\ row[d][j] = "pending"}]]
    /\ UNCHANGED <<program, edges, row, ran, sort>>

KeysKnown(c) ==
    /\ Vertices \cap Keyed # {}
    /\ Vertices \cap Keyed \subseteq caller[c].found

\* delay(): every job with a key exists already, nothing is stored.
DelayKnown(c) ==
    /\ caller[c].pc = "begun"
    /\ KeysKnown(c)
    /\ caller' = [caller EXCEPT ![c].pc = "known"]
    /\ edges' = [edges EXCEPT ![c] = Connected]
    /\ UNCHANGED <<program, row, ran, sort>>

\* Mutant: the jobs that exist already are left out.
DelayStorePart(c) ==
    /\ caller[c].pc = "begun"
    /\ ~KeysKnown(c)
    /\ caller' = [caller EXCEPT ![c].pc = "stored"]
    /\ edges' = [edges EXCEPT ![c] = Connected]
    /\ row' = [row EXCEPT ![c] =
           [j \in Jobs |-> CASE j \notin Vertices \/ j \in caller[c].found -> "none"
                             [] j \in Vertices \ caller[c].found /\ Parents(c, j)' # {} -> "wait"
                             [] OTHER -> "pending"]]
    /\ UNCHANGED <<program, ran, sort>>

\* delay(): the jobs are stored, those with parents as wait_dependencies.
DelayStore(c) ==
    /\ caller[c].pc = "begun"
    /\ ~KeysKnown(c)
    /\ caller' = [caller EXCEPT ![c].pc = "stored"]
    /\ edges' = [edges EXCEPT ![c] = Connected]
    /\ row' = [row EXCEPT ![c] =
           [j \in Jobs |-> CASE j \notin Vertices -> "none"
                             [] j \in Vertices /\ Parents(c, j)' # {} -> "wait"
                             [] OTHER -> "pending"]]
    /\ UNCHANGED <<program, ran, sort>>

\* Mutant: depends_per_node is not filled.
DelayDirectUncounted(c) ==
    /\ caller[c].pc = "begun"
    /\ caller' = [caller EXCEPT ![c].pc = "direct"]
    /\ edges' = [edges EXCEPT ![c] = Connected]
    /\ sort' = [sort EXCEPT ![c] =
           [queue |-> {j \in Vertices : Parents(c, j)' = {}}, left |-> [j \in Jobs |-> 0]]]
    /\ UNCHANGED <<program, row, ran>>

\* delay() with test_queue_job_no_delay: topological_sort starts at the roots.
DelayDirect(c) ==
    /\ caller[c].pc = "begun"
    /\ caller' = [caller EXCEPT ![c].pc = "direct"]
    /\ edges' = [edges EXCEPT ![c] = Connected]
    /\ sort' = [sort EXCEPT ![c] =
           [queue |-> {j \in Vertices : Parents(c, j)' = {}},
            left |-> [j \in Jobs |-> Cardinality(Parents(c, j)')]]]
    /\ UNCHANGED <<program, row, ran>>

\* One step of topological_sort and the job it yields.
SortStep(c, j) ==
    /\ caller[c].pc = "direct"
    /\ j \in sort[c].queue
    /\ LET left == [i \in Jobs |-> IF i \in Children(c, j) THEN sort[c].left[i] - 1
                                                           ELSE sort[c].left[i]]
       IN  sort' = [sort EXCEPT ![c] =
               [queue |-> (@.queue \ {j}) \cup {i \in Children(c, j) : left[i] = 0},
                left |-> left]]
    /\ ran' = [ran EXCEPT ![c] = @ \cup {j}]
    /\ UNCHANGED <<program, caller, edges, row>>

SortEnd(c) ==
    /\ caller[c].pc = "direct"
    /\ sort[c].queue = {}
    /\ caller' = [caller EXCEPT ![c].pc = "executed"]
    /\ UNCHANGED <<program, edges, row, ran, sort>>

Commit(c) ==
    /\ caller[c].pc = "stored"
    /\ caller' = [caller EXCEPT ![c].pc = "committed"]
    /\ UNCHANGED <<program, edges, row, ran, sort>>

\* A worker takes a pending job ...
Start(c, j) ==
    /\ caller[c].pc = "committed"
    /\ row[c][j] = "pending"
    /\ row' = [row EXCEPT ![c][j] = "started"]
    /\ UNCHANGED <<program, caller, edges, ran, sort>>

\* Mutant: only children of this one parent are released.
FinishOnlyChild(c, j) ==
    /\ row[c][j] = "started"
    /\ row' = [row EXCEPT ![c] =
           [i \in Jobs |-> CASE i = j -> "done"
                             [] i \in Children(c, j) /\ @[i] = "wait" /\ Parents(c, i) = {j}
                                  -> "pending"
                             [] OTHER -> @[i]]]
    /\ ran' = [ran EXCEPT ![c] = @ \cup {j}]
    /\ UNCHANGED <<program, caller, edges, sort>>

\* ... performs it, and releases the children whose parents are all done.
Finish(c, j) ==
    /\ row[c][j] = "started"
    /\ LET done == {i \in Jobs : row[c][i] = "done"} \cup {j}
       IN  row' = [row EXCEPT ![c] =
               [i \in Jobs |->
                   CASE i = j -> "done"
                     [] i \in Children(c, j) /\ @[i] = "wait" /\ Parents(c, i) \subseteq done
                          -> "pending"
                     [] OTHER -> @[i]]]
    /\ ran' = [ran EXCEPT ![c] = @ \cup {j}]
    /\ UNCHANGED <<program, caller, edges, sort>>

Perform(c) == \E j \in Jobs : Start(c, j) \/ Finish(c, j)
Direct(c)  == SortEnd(c) \/ \E j \in Jobs : SortStep(c, j)

Next ==
    \/ \E x, y \in Objects : OnDone(x, y)
    \/ \E c \in Callers : \/ Begin(c) \/ DelayKnown(c) \/ DelayStore(c) \/ DelayDirect(c)
                          \/ Commit(c) \/ Perform(c) \/ Direct(c)

\* The caller's transaction and its direct execution go on by themselves; the
\* queue executes pending jobs (JobQueue.PendingSettles).
Fairness ==
    \A c \in Callers : WF_vars(Perform(c)) /\ WF_vars(Direct(c)) /\ WF_vars(Commit(c))

Spec == Init /\ [][Next]_vars /\ Fairness

-----------------------------------------------------------------------------
TypeOK ==
    /\ shape \in Shapes
    /\ links \subseteq Objects \X Objects
    /\ meaning \in [jobs : SUBSET Jobs, before : [Jobs -> SUBSET Jobs]]
    /\ \A x \in Objects : \A v \in DOMAIN graph[x] : v \in Objects /\ graph[x][v] \subseteq Objects
    /\ caller \in [Callers -> [pc : {"idle", "begun", "known", "stored", "committed",
                                     "direct", "executed"},
                               found : SUBSET Keyed]]
    /\ edges \in [Callers -> SUBSET (Jobs \X Jobs)]
    /\ row \in [Callers -> [Jobs -> {"none", "wait", "pending", "started", "done"}]]
    /\ ran \in [Callers -> SUBSET Jobs]
    /\ sort \in [Callers -> [queue : SUBSET Jobs, left : [Jobs -> Nat]]]

\* No job starts before all the jobs that the nesting of chains and groups and
\* the calls of on_done put before it were performed, whether the graph is
\* stored or executed directly (_connect_graphs, topological_sort).
OrderRespected ==
    \A c \in Callers :
        \A j \in ran[c] \cup {i \in Jobs : row[c][i] = "started"} :
            Before(j) \subseteq ran[c]

\* A job waits only as long as a job that comes before it by the nesting is not
\* done: the items of a group are not held back by each other, and the last
\* parent releases its children (_merge_graph, enqueue_waiting).
WaitsForReason ==
    \A c \in Callers : \A j \in Jobs :
        row[c][j] = "wait" => \E i \in Before(j) : row[c][i] # "done"

\* A delayed graph is stored or executed as a whole, or left out when each job
\* with a key was stored by another caller: never a part of it (delay).
WholeOrKnown ==
    \A c \in Callers :
        /\ caller[c].pc \in {"stored", "committed"} => {j \in Jobs : row[c][j] # "none"} = Delayed
        /\ caller[c].pc = "executed" => ran[c] = Delayed
        /\ caller[c].pc = "known" =>
               /\ {j \in Jobs : row[c][j] # "none"} = {}
               /\ Delayed \cap Keyed # {}
               /\ \A j \in Delayed \cap Keyed :
                      \E d \in Callers \ {c} : caller[d].pc = "committed" /\ row[d][j] # "none"

\* Every job of a committed graph is performed: no job waits for one that was
\* not stored, and no two wait for each other.
GraphCompletes ==
    \A c \in Callers : caller[c].pc \in {"committed", "direct"} ~> ran[c] = Delayed
=============================================================================
