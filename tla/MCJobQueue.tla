----------------------------- MODULE MCJobQueue -----------------------------
(* Small instances of JobQueue for TLC. *)
EXTENDS JobQueue, TLC

CONSTANTS j1, j2, j3, r1, r2, r3

RequestSymmetry == Permutations(Requests)

ChainDepends == (j1 :> {}) @@ (j2 :> {j1})
JoinDepends == (j1 :> {}) @@ (j2 :> {}) @@ (j3 :> {j1, j2})

\* How often jobs may raise RetryableJobError: the second try fails, or the first.
ParentTwoTries == [j \in Jobs |-> IF j = j1 THEN 2 ELSE 1]
ChildTwoTries == [j \in Jobs |-> IF j = j3 THEN 2 ELSE 1]

\* Faults and operations of users together.
MaxDisturbances == 2
FewDisturbances == faults + touches[j1] + touches[j2] <= MaxDisturbances
=============================================================================
