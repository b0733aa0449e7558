------------------------------ MODULE JobGraph ------------------------------
(***************************************************************************)
(* How the dependents of a job are released, transaction by transaction.   *)
(* "done" is committed first; enqueue_waiting then sets the waiting        *)
(* children whose parents are all done to pending, with one UPDATE in      *)
(* another transaction.  Under REPEATABLE READ that UPDATE sees the table  *)
(* as it was when it began, locks the children one after the other, waits  *)
(* for rows others have locked, and fails, as a whole, on a row that was   *)
(* written since.                                                          *)
(*                                                                         *)
(* Two kinds of workers do this: requests of the runner (queue_job), which *)
(* commit at once, and the cron workers of queue_job_cron_jobrunner, which *)
(* go on to acquire and execute the next job in the same transaction.      *)
(* Module JobQueue has the rest of the life of a job, with the release as  *)
(* one step.                                                               *)
(***************************************************************************)
EXTENDS Naturals, FiniteSets

CONSTANTS
    Jobs,
    NoJob,
    Depends,     \* the jobs that each job depends on
    Workers,
    Runners,     \* "http", the runner of queue_job, or "cron", to look at
    MaxFaults,   \* crashes of workers and retries of jobs (bound)
    MaxTouches   \* buttons pressed by users (bound)

ASSUME DependsType == Depends \in [Jobs -> SUBSET Jobs]
ASSUME WorkersFinite == IsFiniteSet(Workers)
ASSUME NoJobType == NoJob \notin Jobs
ASSUME RunnersType == Runners \subseteq {"http", "cron"}
ASSUME BoundsType == MaxFaults \in Nat /\ MaxTouches \in Nat

VARIABLES
    row,      \* committed state of each job
    runner,   \* the kind of runner that is installed
    tx,       \* the transaction of each worker
    faults,   \* history: crashes and retries
    touches   \* history: jobs that users set to done

vars == <<row, runner, tx, faults, touches>>

States == {"wait_dependencies", "pending", "started", "done", "failed"}
Same   == [j \in Jobs |-> "same"]

\* Where a worker is, its job; the rows others committed since its snapshot, with
\* the state the snapshot has; its own uncommitted writes, whose rows it has
\* locked; the children its UPDATE has still to lock.
TxType ==
    [pc : {"idle", "performing", "committed", "update", "next"}, job : Jobs \cup {NoJob},
     old : [Jobs -> States \cup {"same"}], own : [Jobs -> States \cup {"same"}],
     todo : SUBSET Jobs]

Idle == [pc |-> "idle", job |-> NoJob, old |-> Same, own |-> Same, todo |-> {}]

TypeOK ==
    /\ row \in [Jobs -> States]
    /\ runner \in {"http", "cron"}
    /\ tx \in [Workers -> TxType]
    /\ faults \in Nat
    /\ touches \in SUBSET Jobs

Children(j) == {c \in Jobs : j \in Depends[c]}

\* What a worker reads.
View(w, j) ==
    CASE tx[w].own[j] # "same" -> tx[w].own[j]
      [] tx[w].own[j] = "same" /\ tx[w].old[j] # "same" -> tx[w].old[j]
      [] OTHER -> row[j]

Stale(w, j)  == tx[w].old[j] # "same"
Locked(w, j) == \E v \in Workers \ {w} : tx[v].own[j] # "same"
Unlocked(j)  == \A v \in Workers : tx[v].own[j] = "same"

\* Worker w commits the writes "own" and goes on with t; the snapshots that the
\* others have taken keep the old states.
Commit(w, own, t) ==
    /\ row' = [j \in Jobs |-> IF own[j] = "same" THEN row[j] ELSE own[j]]
    /\ tx' = [v \in Workers |->
           IF v = w THEN t
           ELSE IF tx[v].pc \in {"idle", "committed"} THEN tx[v]
           ELSE [tx[v] EXCEPT !.old =
                    [j \in Jobs |-> IF own[j] # "same" /\ @[j] = "same" THEN row[j] ELSE @[j]]]]

Writes(j, s) == [Same EXCEPT ![j] = s]

Fault == faults < MaxFaults /\ faults' = faults + 1

-----------------------------------------------------------------------------
(* Requests of the runner: runjob *)

\* The request finds the job enqueued, stores "started" and commits; perform()
\* begins a transaction.
SetStarted(w, j) ==
    /\ runner = "http" /\ tx[w].pc = "idle"
    /\ row[j] = "pending" /\ Unlocked(j)
    /\ Commit(w, Writes(j, "started"), [Idle EXCEPT !.pc = "performing", !.job = j])
    /\ UNCHANGED <<runner, faults, touches>>

\* set_done, store, flush, commit
SetDone(w) ==
    LET j == tx[w].job IN
    /\ runner = "http" /\ tx[w].pc = "performing"
    /\ ~Stale(w, j) /\ ~Locked(w, j)
    /\ Commit(w, Writes(j, "done"), [Idle EXCEPT !.pc = "committed", !.job = j])
    /\ UNCHANGED <<runner, faults, touches>>

\* Mutant: the transaction is rolled back and the failure is not stored.
RaiseErrorLost(w, s) ==
    /\ runner = "http" /\ tx[w].pc = "performing"
    /\ tx' = [tx EXCEPT ![w] = Idle]
    /\ UNCHANGED <<row, runner, faults, touches>>

\* The job raises: set_failed or retry_postpone (whose number is bounded) in a
\* cursor of its own; nothing is released.
RaiseError(w, s) ==
    LET j == tx[w].job IN
    /\ runner = "http" /\ tx[w].pc = "performing"
    /\ ~Locked(w, j)
    /\ IF s = "pending" THEN Fault ELSE UNCHANGED faults
    /\ Commit(w, Writes(j, s), Idle)
    /\ UNCHANGED <<runner, touches>>

-----------------------------------------------------------------------------
(* The cron workers of queue_job_cron_jobrunner: _job_runner *)

\* Mutant: SKIP LOCKED does not look at locks.
AcquirableLocked(w) == {j \in Jobs : View(w, j) = "pending"}

Acquirable(w) == {j \in Jobs : View(w, j) = "pending" /\ ~Locked(w, j)}

\* Mutant: the job is set to enqueued.
AcquireOneJobEnqueued(w, j) ==
    /\ runner = "cron" /\ tx[w].pc \in {"idle", "next"}
    /\ j \in Acquirable(w) /\ ~Stale(w, j)
    /\ tx' = [tx EXCEPT ![w].pc = "performing", ![w].job = j, ![w].own[j] = "enqueued"]
    /\ UNCHANGED <<row, runner, faults, touches>>

\* _acquire_one_job: FOR NO KEY UPDATE SKIP LOCKED, in the transaction that has
\* released the children of the job before.  "started" is not committed.
AcquireOneJob(w, j) ==
    /\ runner = "cron" /\ tx[w].pc \in {"idle", "next"}
    /\ j \in Acquirable(w) /\ ~Stale(w, j)
    /\ tx' = [tx EXCEPT ![w].pc = "performing", ![w].job = j, ![w].own[j] = "started"]
    /\ UNCHANGED <<row, runner, faults, touches>>

\* The row was written since the snapshot: the SELECT fails, and the exception
\* ends the cron and rolls its transaction back.
AcquireFails(w, j) ==
    /\ runner = "cron" /\ tx[w].pc = "next"
    /\ j \in Acquirable(w) /\ Stale(w, j)
    /\ tx' = [tx EXCEPT ![w] = Idle]
    /\ UNCHANGED <<row, runner, faults, touches>>

\* _process: done, or failed or pending after an exception; commit.  The children
\* are looked for whatever the outcome was.
Process(w, s) ==
    /\ runner = "cron" /\ tx[w].pc = "performing"
    /\ IF s = "pending" THEN Fault ELSE UNCHANGED faults
    /\ Commit(w, [tx[w].own EXCEPT ![tx[w].job] = s],
              [Idle EXCEPT !.pc = "committed", !.job = tx[w].job])
    /\ UNCHANGED <<runner, touches>>

\* No job is found: the cron ends and commits.
JobRunnerEnds(w) ==
    /\ runner = "cron" /\ tx[w].pc = "next"
    /\ Acquirable(w) = {}
    /\ Commit(w, tx[w].own, Idle)
    /\ UNCHANGED <<runner, faults, touches>>

-----------------------------------------------------------------------------
(* enqueue_waiting *)

\* Mutant: one parent that is done is enough.
EnqueueWaitingAny(w) ==
    /\ tx[w].pc = "committed"
    /\ tx' = [tx EXCEPT ![w].pc = "update",
                        ![w].todo = {c \in Children(tx[w].job) :
                                        /\ row[c] = "wait_dependencies"
                                        /\ \E p \in Depends[c] : row[p] = "done"}]
    /\ UNCHANGED <<row, runner, faults, touches>>

\* Mutant: only children of this one parent are released.
EnqueueWaitingOnlyChild(w) ==
    /\ tx[w].pc = "committed"
    /\ tx' = [tx EXCEPT ![w].pc = "update",
                        ![w].todo = {c \in Children(tx[w].job) :
                                        /\ row[c] = "wait_dependencies"
                                        /\ Depends[c] = {tx[w].job}}]
    /\ UNCHANGED <<row, runner, faults, touches>>

\* The UPDATE takes its snapshot and finds the children to release.
EnqueueWaiting(w) ==
    /\ tx[w].pc = "committed"
    /\ tx' = [tx EXCEPT ![w].pc = "update",
                        ![w].todo = {c \in Children(tx[w].job) :
                                        /\ row[c] = "wait_dependencies"
                                        /\ \A p \in Depends[c] : row[p] = "done"}]
    /\ UNCHANGED <<row, runner, faults, touches>>

\* Mutant: the row is written although it was written since the snapshot.
UpdateRowStale(w, c) ==
    /\ tx[w].pc = "update" /\ c \in tx[w].todo
    /\ ~Locked(w, c)
    /\ tx' = [tx EXCEPT ![w].own[c] = "pending", ![w].todo = @ \ {c}]
    /\ UNCHANGED <<row, runner, faults, touches>>

\* It locks and writes a child.
UpdateRow(w, c) ==
    /\ tx[w].pc = "update" /\ c \in tx[w].todo
    /\ ~Locked(w, c) /\ ~Stale(w, c)
    /\ tx' = [tx EXCEPT ![w].own[c] = "pending", ![w].todo = @ \ {c}]
    /\ UNCHANGED <<row, runner, faults, touches>>

\* The workers that hold rows which the UPDATE of v has still to lock.
WaitsFor(v) == {u \in Workers \ {v} : \E c \in tx[v].todo : tx[u].own[c] # "same"}

\* The deadlock detection of PostgreSQL: w waits for itself through others.
Deadlocked(w) ==
    \A S \in SUBSET Workers :
        WaitsFor(w) \subseteq S /\ (\A v \in S : WaitsFor(v) \subseteq S) => w \in S

\* Mutant: deadlocks are not detected.
UpdateFailsNoDeadlock(w) ==
    /\ tx[w].pc = "update"
    /\ \E c \in tx[w].todo : ~Locked(w, c) /\ Stale(w, c)
    /\ tx' = [tx EXCEPT ![w] = Idle]
    /\ UNCHANGED <<row, runner, faults, touches>>

\* It fails: on a child that was written since, or in a deadlock with other
\* UPDATEs.  _enqueue_dependent_jobs retries in the aborted transaction, which
\* fails for good; the cron does not retry.  Nothing of the UPDATE is left.
UpdateFails(w) ==
    /\ tx[w].pc = "update"
    /\ \/ \E c \in tx[w].todo : ~Locked(w, c) /\ Stale(w, c)
       \/ Deadlocked(w)
    /\ tx' = [tx EXCEPT ![w] = Idle]
    /\ UNCHANGED <<row, runner, faults, touches>>

\* The UPDATE is through: a request commits, a cron worker looks for a job.
UpdateEnds(w) ==
    /\ tx[w].pc = "update" /\ tx[w].todo = {}
    /\ IF runner = "http"
         THEN Commit(w, tx[w].own, Idle)
         ELSE tx' = [tx EXCEPT ![w].pc = "next", ![w].job = NoJob] /\ UNCHANGED row
    /\ UNCHANGED <<runner, faults, touches>>

\* The process of the worker dies.
Crash(w) ==
    /\ tx[w].pc # "idle"
    /\ Fault
    /\ tx' = [tx EXCEPT ![w] = Idle]
    /\ UNCHANGED <<row, runner, touches>>

\* button_done on the states the form shows it for.  "done" is still in the cache
\* of the ORM when the UPDATE of enqueue_waiting looks for parents that are done,
\* and is written at the end of the transaction: no child is released.
ButtonDone(j) ==
    /\ row[j] \in {"wait_dependencies", "pending", "failed"} /\ Unlocked(j)
    /\ Cardinality(touches) < MaxTouches
    /\ touches' = touches \cup {j}
    /\ row' = [row EXCEPT ![j] = "done"]
    /\ tx' = [v \in Workers |->
           IF tx[v].pc \notin {"idle", "committed"} /\ tx[v].old[j] = "same"
             THEN [tx[v] EXCEPT !.old[j] = row[j]] ELSE tx[v]]
    /\ UNCHANGED <<runner, faults>>

-----------------------------------------------------------------------------
\* A graph of jobs was just stored.
Init ==
    /\ row = [j \in Jobs |-> IF Depends[j] = {} THEN "pending" ELSE "wait_dependencies"]
    /\ runner \in Runners
    /\ tx = [w \in Workers |-> Idle]
    /\ faults = 0
    /\ touches = {}

Execute(w) == SetDone(w) \/ Process(w, "done")
Release(w) == EnqueueWaiting(w) \/ UpdateEnds(w) \/ UpdateFails(w) \/ \E c \in Jobs : UpdateRow(w, c)
Acquire(w) == JobRunnerEnds(w) \/ \E j \in Jobs : AcquireOneJob(w, j) \/ AcquireFails(w, j)

Next ==
    \/ \E w \in Workers :
           \/ Execute(w) \/ Release(w) \/ Acquire(w) \/ Crash(w)
           \/ \E j \in Jobs : SetStarted(w, j)
           \/ \E s \in {"failed", "pending"} : RaiseError(w, s) \/ Process(w, s)
    \/ \E j \in Jobs : ButtonDone(j)

\* Workers go on; the runner sends a pending job again and again, and the cron is
\* called again and again.
Fairness ==
    /\ \A w \in Workers : WF_vars(Execute(w)) /\ WF_vars(Release(w)) /\ WF_vars(Acquire(w))
    /\ \A j \in Jobs : WF_vars(\E w \in Workers : SetStarted(w, j))

Spec == Init /\ [][Next]_vars /\ Fairness

-----------------------------------------------------------------------------
(* Properties *)

\* No two workers execute the same job at the same time: the row lock that a cron
\* worker keeps until its commit, or the state "started" that a request commits,
\* keeps the others away.
OneWorkerPerJob ==
    \A v, w \in Workers :
        v # w /\ tx[v].pc = "performing" /\ tx[w].pc = "performing" => tx[v].job # tx[w].job

\* A job is executed only after all its parents are done, although the UPDATE that
\* releases it and the SELECT that finds it read old states.
ParentsFirst ==
    \A w \in Workers :
        tx[w].pc = "performing" => \A p \in Depends[tx[w].job] : row[p] = "done"

JoinComplete(j) == row[j] = "wait_dependencies" /\ \A p \in Depends[j] : row[p] = "done"

\* When all parents of a waiting job are done, one of them releases it, unless a
\* process died or a user set a job to done: each parent may find the others
\* unfinished, or fail on a row that another one has locked, but not all do.  The
\* cron workers promise less: a failed SELECT takes the release with it.
JoinReleased ==
    \A j \in Jobs : runner = "http" /\ JoinComplete(j) ~>
        row[j] # "wait_dependencies" \/ faults > 0 \/ touches # {}

\* Pending jobs come to an end: workers that wait for each other's locks, or skip
\* them, do not leave a job behind.
PendingEnds == \A j \in Jobs : row[j] = "pending" ~> row[j] \in {"done", "failed"} \/ faults > 0

\* The states of rows as JobContract has them; "started" is only seen by others
\* when a request has committed it.
ContractState(s) ==
    CASE s = "wait_dependencies" -> "waiting"
      [] s \in {"pending", "started"} -> "ready"
      [] OTHER -> s

Contract == INSTANCE JobContract WITH
    job <- [j \in Jobs |-> ContractState(row[j])],
    completed <- {j \in Jobs : row[j] = "done"},
    touched <- touches

\* Both kinds of workers implement the contract of JobContract, seen from what they
\* have committed: a job that nobody interferes with is released when its parents
\* are done, is done or failed at most once and not set back after that.
ContractKept == Contract!Spec
=============================================================================
