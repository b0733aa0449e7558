----------------------------- MODULE MCJobGraph -----------------------------
(* Small instances of JobGraph for TLC: two parents and two children.         *)
EXTENDS JobGraph, TLC

CONSTANTS p1, p2, c1, c2

\* Both children wait for both parents, as with group(p1, p2).on_done(c1, c2).
JoinDepends ==
    (p1 :> {}) @@ (p2 :> {}) @@ (c1 :> {p1, p2}) @@ (c2 :> {p1, p2})

\* The second child waits for the second parent only.
UnevenDepends ==
    (p1 :> {}) @@ (p2 :> {}) @@ (c1 :> {p1, p2}) @@ (c2 :> {p2})
=============================================================================
