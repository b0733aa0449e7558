-------------------------- MODULE MCDelayableGraphs --------------------------
(* Small instances of DelayableGraphs for TLC: two jobs in a container, which *)
(* is an item of another one, and a job that may be the top of the graph.     *)
EXTENDS DelayableGraphs, TLC

CONSTANTS a, b, c, d, inner, outer

Nestings ==
    LET places == {<<<<c, inner>>, outer>>, <<<<inner, c>>, d>>}
    IN  {[kind  |-> k,
          items |-> (inner :> <<a, b>>) @@ (outer :> p[1]),
          top   |-> p[2]] : k \in [Containers -> {"chain", "group"}], p \in places}

PlainNestings == {s \in Nestings : NoChainAtEnds(s)}

KeyedJobs == {a, c}
=============================================================================
