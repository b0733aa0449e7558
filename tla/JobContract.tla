----------------------------- MODULE JobContract -----------------------------
(***************************************************************************)
(* What a queue of jobs promises to the code that delays a graph of jobs,  *)
(* whatever executes them: a job waits for its parents, is open until it   *)
(* has been completed or has failed, and is not executed again after that, *)
(* as long as no user interferes with it.  One transaction may do this to  *)
(* several jobs.  JobQueue (the runner and its requests) and JobGraph (the *)
(* transactions of both kinds of workers) implement it.                    *)
(***************************************************************************)
CONSTANTS
    Jobs,
    Depends      \* the jobs that each job depends on

VARIABLES
    job,         \* "waiting", "ready", "done", "failed", "cancelled" or, when deleted, "gone"
    completed,   \* jobs that were once done
    touched      \* jobs whose state users have changed

vars == <<job, completed, touched>>

\* No parent is left to wait for.
Preceded(j) == \A p \in Depends[j] : p \in completed \/ job[p] = "gone"

Open(j) == job[j] \in {"waiting", "ready"} /\ Preceded(j)

Keep(j)     == job'[j] = job[j]
Release(j)  == Open(j) /\ job'[j] = "ready"
Complete(j) == Open(j) /\ job'[j] = "done" /\ j \in completed'
Fail(j)     == Open(j) /\ job'[j] = "failed"

\* A job goes back to wait for a parent that a user has set back.
Block(j) == job[j] = "ready" /\ job'[j] = "waiting" /\ \E p \in Depends[j] : p \in touched

\* Finished jobs are deleted some time later: also failed ones, when what failed
\* was the commit after the job had got its date_done.
Forget(j) == job[j] \in {"done", "failed", "cancelled"} /\ job'[j] = "gone"

\* What users do to a job, and what becomes of it afterwards, is not limited,
\* except that a deleted job does not come back.
Interfere(j) == j \in touched' /\ job[j] # "gone"

Init ==
    /\ job = [j \in Jobs |-> IF Depends[j] = {} THEN "ready" ELSE "waiting"]
    /\ completed = {}
    /\ touched = {}

Next ==
    /\ completed \subseteq completed' /\ touched \subseteq touched'
    /\ \A j \in completed' \ completed : job'[j] = "done"
    /\ \A j \in Jobs :
           \/ Keep(j) \/ Release(j) \/ Complete(j) \/ Fail(j)
           \/ Block(j) \/ Forget(j) \/ Interfere(j)

Spec == Init /\ [][Next]_vars
=============================================================================
