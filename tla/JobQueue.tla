------------------------------ MODULE JobQueue ------------------------------
(***************************************************************************)
(* The delivery protocol of OCA queue_job for one database and one channel *)
(* (root): rows of table queue_job, the runner process with its in-memory  *)
(* copy of the channel, the NOTIFY messages between the two, the HTTP GETs *)
(* that ask an Odoo worker to run a job, the worker that runs it, and the  *)
(* operators who requeue, cancel or close jobs meanwhile.                  *)
(*                                                                         *)
(* A database transaction is one step, except for the two of a worker that *)
(* may wait for others: the one that performs a job and the one that       *)
(* releases its children.  They run under REPEATABLE READ and are two      *)
(* steps, the one that takes the snapshot and the one that stores what     *)
(* came out of it; "stale" says that a row to be stored was written        *)
(* between the two, in which case PostgreSQL refuses it.                   *)
(***************************************************************************)
EXTENDS Naturals, FiniteSets

CONSTANTS
    Jobs,        \* uuids of the jobs of the channel
    NoJob,       \* the job of a request that is not in use
    Requests,    \* HTTP requests that can be in flight at the same time (bound)
    Depends,     \* Depends[j]: the jobs j waits for (the "depends_on" uuids)
    Capacity,    \* capacity of the channel, 0 when it is unlimited
    Sequential,  \* the "sequential" flag of the channel
    MaxRetries,  \* MaxRetries[j]: max_retries of j, 0 when it is retried forever
    MaxFaults,   \* bound on crashes, runner restarts, serialization errors
    RetryBound,  \* bound on "retry" where the code has none
    MaxTouches   \* bound on the operations of users, per job

ASSUME JobsFinite == IsFiniteSet(Jobs)
ASSUME NoJobType == NoJob \notin Jobs
ASSUME DependsType == Depends \in [Jobs -> SUBSET Jobs]
ASSUME CapacityType == Capacity \in Nat
ASSUME SequentialCapacity == Sequential \in BOOLEAN /\ (Sequential => Capacity = 1)
ASSUME MaxRetriesType == MaxRetries \in [Jobs -> Nat]
ASSUME BoundsType == {MaxFaults, RetryBound, MaxTouches} \subseteq Nat

VARIABLES
    row,      \* state of each job in the table; "none" when it was vacuumed
    retry,    \* column "retry" of each job
    mem,      \* where the runner's channel holds each job
    eta,      \* column "eta": "none", "known" or, when the runner has another, "moved"
    closed,   \* jobs with a date_done or date_cancelled
    notif,    \* jobs with a NOTIFY the runner has not processed
    runner,   \* "down", "listening" (LISTEN done, table not read) or "up"
    req,      \* the HTTP requests: the runner's thread and the worker of each
    wasDone,  \* history: jobs that have been in state done
    effects,  \* history: how often the work of the job was committed
    touches,  \* history: how often a user changed the state of the job
    faults    \* history: faults so far

table   == <<row, retry, eta, closed>>
memory  == <<mem, notif, runner>>
history == <<wasDone, effects, touches, faults>>
vars    == <<table, memory, req, history>>

RowStates == {"wait_dependencies", "pending", "enqueued", "started",
              "done", "cancelled", "failed"}
NOT_DONE  == {"wait_dependencies", "pending", "enqueued", "started", "failed"}
Active    == {"enqueued", "started"}
Executing == {"started", "performing"}

\* A request: the job it is about; whether the runner's thread still waits for
\* the answer; what the HTTP server does with it; Job.retry in the worker, as
\* perform() counts it; whether some parent was not done, and whether there was a
\* date_done or date_cancelled, when the worker loaded the job; the children that
\* its enqueue_waiting is about to release; whether a row that the worker is to
\* write was written since it took its snapshot.
RequestType ==
    [job : Jobs \cup {NoJob}, client : BOOLEAN,
     srv : {"none", "sent", "started", "performing", "done", "releasing"},
     tries : Nat, blocked : BOOLEAN, closed : BOOLEAN, kids : SUBSET Jobs,
     stale : BOOLEAN]

Idle == [job |-> NoJob, client |-> FALSE, srv |-> "none", tries |-> 0,
         blocked |-> FALSE, closed |-> FALSE, kids |-> {}, stale |-> FALSE]

TypeOK ==
    /\ row \in [Jobs -> RowStates \cup {"none"}]
    /\ retry \in [Jobs -> Nat]
    /\ mem \in [Jobs -> {"absent", "queue", "running", "failed"}]
    /\ eta \in [Jobs -> {"none", "known", "moved"}]
    /\ closed \subseteq Jobs
    /\ notif \subseteq Jobs
    /\ runner \in {"down", "listening", "up"}
    /\ req \in [Requests -> RequestType]
    /\ \A r \in Requests : req[r] # Idle => req[r].job \in Jobs
    /\ wasDone \subseteq Jobs
    /\ effects \in [Jobs -> Nat]
    /\ touches \in [Jobs -> Nat]
    /\ faults \in Nat

-----------------------------------------------------------------------------
(* The table *)

\* Jobs that depends_on finds in another state than done; a parent that
\* autovacuum deleted is not found at all.
Unfinished(j) == {p \in Depends[j] : row[p] \notin {"done", "none"}}

\* Mutant: set_pending does not look at the parents.
PendingStateNoParents(isBlocked) == "pending"

\* Job.set_pending
PendingState(isBlocked) == IF isBlocked THEN "wait_dependencies" ELSE "pending"

\* What the UPDATE of Job.enqueue_waiting finds: the waiting children of a job all of
\* whose parents the table has as done.
Released(j) ==
    {c \in Jobs : /\ row[c] = "wait_dependencies"
                  /\ j \in Depends[c]
                  /\ Unfinished(c) = {}}

\* Every committed write of rows: trigger queue_job_notify tells a connected
\* runner, and snapshots taken before it can no longer write those rows.
Write(js, newRow) ==
    /\ row' = newRow
    /\ notif' = IF runner = "down" THEN notif ELSE notif \cup js

\* The rows that a worker writes when its transaction ends.
Writing(q) ==
    CASE q.srv = "performing" -> {q.job}
      [] q.srv = "releasing"  -> q.kids
      [] OTHER -> {}

Marked(js) ==
    [r \in Requests |-> IF Writing(req[r]) \cap js # {}
                          THEN [req[r] EXCEPT !.stale = TRUE] ELSE req[r]]

WriteOne(j, s) == Write({j}, [row EXCEPT ![j] = s])

\* The server is through with a request; when it "answered", so is the thread.
Ended(q, answered) ==
    IF answered \/ ~q.client THEN Idle
    ELSE [Idle EXCEPT !.job = q.job, !.client = TRUE]

\* The runner's thread is through with it.
Left(q) == IF q.srv = "none" THEN Idle ELSE [q EXCEPT !.client = FALSE]

-----------------------------------------------------------------------------
(* The runner *)

RunningJobs == {j \in Jobs : mem[j] = "running"}

\* Channel.has_capacity
has_capacity ==
    /\ ~(Sequential /\ \E j \in Jobs : mem[j] = "failed")
    /\ Capacity = 0 \/ Cardinality(RunningJobs) < Capacity

\* Mutant: a failed job keeps its slot.
notifyFailedKeeps(s, place, etaChanged) ==
    CASE s \in {"done", "cancelled", "none"} -> "absent"
      [] s = "pending"                       -> "queue"
      [] s \in Active                        -> "running"
      [] s \in {"failed", "wait_dependencies"} -> place

\* ChannelManager.notify: where a job that is at "place" goes when the runner
\* reads state s in its row; a changed eta first removes it from the channel.
notify(s, place, etaChanged) ==
    CASE s \in {"done", "cancelled", "none"} -> "absent"
      [] s = "pending"                       -> "queue"
      [] s \in Active                        -> "running"
      [] s = "failed"                        -> "failed"
      [] s = "wait_dependencies"             -> IF etaChanged THEN "absent" ELSE place

\* What "eta" is once the runner has read the row again.
Reread(j) == IF eta[j] = "none" THEN "none" ELSE "known"

\* Queued jobs with an eta.
Dated == {k \in Jobs : mem[k] = "queue" /\ eta[k] # "none"}

\* Database._initialize: LISTEN, before the table is read.
Listen ==
    /\ runner = "down"
    /\ runner' = "listening"
    /\ UNCHANGED <<table, mem, notif, req, history>>

\* Mutant: jobs that were enqueued or started before the restart are not loaded.
LoadJobsPendingOnly ==
    /\ runner = "listening"
    /\ runner' = "up"
    /\ mem' = [j \in Jobs |-> IF row[j] \in {"pending", "failed"}
                                THEN notify(row[j], "absent", FALSE) ELSE "absent"]
    /\ eta' = [j \in Jobs |-> Reread(j)]
    /\ UNCHANGED <<row, retry, closed, notif, req, history>>

\* initialize_databases: select_jobs over NOT_DONE
LoadJobs ==
    /\ runner = "listening"
    /\ runner' = "up"
    /\ mem' = [j \in Jobs |-> IF row[j] \in NOT_DONE
                                THEN notify(row[j], "absent", FALSE) ELSE "absent"]
    /\ eta' = [j \in Jobs |-> Reread(j)]
    /\ UNCHANGED <<row, retry, closed, notif, req, history>>

\* Mutant: one notification is processed and the others are dropped with it.
ProcessNotificationFirst(j) ==
    /\ runner = "up"
    /\ j \in notif
    /\ notif' = {}
    /\ mem' = [mem EXCEPT ![j] = notify(row[j], mem[j], eta[j] = "moved")]
    /\ eta' = [eta EXCEPT ![j] = Reread(j)]
    /\ UNCHANGED <<row, retry, closed, runner, req, history>>

\* process_notifications: the payload only names the job, its row is re-read.
ProcessNotification(j) ==
    /\ runner = "up"
    /\ j \in notif
    /\ notif' = notif \ {j}
    /\ mem' = [mem EXCEPT ![j] = notify(row[j], mem[j], eta[j] = "moved")]
    /\ eta' = [eta EXCEPT ![j] = Reread(j)]
    /\ UNCHANGED <<row, retry, closed, runner, req, history>>

\* run_jobs for one job of get_jobs_to_run: pop, which takes the eta off the jobs
\* that are due, set_job_enqueued, whose UPDATE does not look at the state of the
\* row, then the GET.
RunJob(j, r) ==
    /\ runner = "up"
    /\ mem[j] = "queue"
    /\ has_capacity
    /\ req[r] = Idle
    /\ mem' = [mem EXCEPT ![j] = "running"]
    /\ \E due \in SUBSET Dated :
           /\ j \in Dated => j \in due
           /\ eta' = [k \in Jobs |-> IF k \in due THEN "moved" ELSE eta[k]]
    /\ IF row[j] = "none" THEN UNCHANGED <<row, notif>> ELSE WriteOne(j, "enqueued")
    /\ req' = [Marked({j}) EXCEPT ![r] =
                   [Idle EXCEPT !.job = j, !.client = TRUE, !.srv = "sent"]]
    /\ UNCHANGED <<retry, closed, runner, history>>

\* The loop of run() dies: on an exception the process goes on and its request
\* threads with it, when it is killed or stopped they are gone too.
RunnerStops(killed) ==
    /\ runner # "down" /\ faults < MaxFaults
    /\ runner' = "down"
    /\ mem' = [j \in Jobs |-> "absent"]
    /\ notif' = {}
    /\ eta' = [j \in Jobs |-> Reread(j)]
    /\ req' = IF killed
                THEN [r \in Requests |-> Left(req[r])] ELSE req
    /\ faults' = faults + 1
    /\ UNCHANGED <<row, retry, closed, wasDone, effects, touches>>

\* Mutant: the UPDATE of set_job_pending without "AND state = enqueued".
SetJobPendingAnyState(r) ==
    /\ req[r].client
    /\ WriteOne(req[r].job, "pending")
    /\ req' = [Marked({req[r].job}) EXCEPT ![r] = Left(@)]
    /\ UNCHANGED <<retry, eta, closed, mem, runner, history>>

\* urlopen: the answer took more than a second, or the request failed;
\* set_job_pending resets the row if it is (still or again) enqueued.
SetJobPending(r) ==
    /\ req[r].client
    /\ LET j == req[r].job
       IN IF row[j] = "enqueued"
            THEN /\ WriteOne(j, "pending")
                 /\ req' = [Marked({j}) EXCEPT ![r] = Left(@)]
            ELSE /\ UNCHANGED <<row, notif>>
                 /\ req' = [req EXCEPT ![r] = Left(@)]
    /\ UNCHANGED <<retry, eta, closed, mem, runner, history>>

-----------------------------------------------------------------------------
(* The controller, /queue_job/runjob *)

\* The SELECT ... FOR UPDATE finds no enqueued row: early return.
Refuse(r) ==
    /\ req[r].srv = "sent" /\ row[req[r].job] # "enqueued"
    /\ req' = [req EXCEPT ![r] = Ended(@, TRUE)]
    /\ UNCHANGED <<table, memory, history>>

\* Mutant: the controller does not check that the job is enqueued.
SetStartedAnyState(r) ==
    LET j == req[r].job IN
    /\ req[r].srv = "sent" /\ row[j] # "none"
    /\ WriteOne(j, "started")
    /\ req' = [Marked({j}) EXCEPT ![r] = [@ EXCEPT !.srv = "started",
                                           !.blocked = Unfinished(j) # {},
                                           !.closed = j \in closed,
                                           !.tries = retry[j] + 1]]
    /\ UNCHANGED <<retry, eta, closed, mem, runner, history>>

\* _try_perform_job up to its first commit.  store() has read the parents, and
\* the worker keeps those Job objects.
SetStarted(r) ==
    LET j == req[r].job IN
    /\ req[r].srv = "sent" /\ row[j] = "enqueued"
    /\ WriteOne(j, "started")
    /\ req' = [Marked({j}) EXCEPT ![r] = [@ EXCEPT !.srv = "started",
                                           !.blocked = Unfinished(j) # {},
                                           !.closed = j \in closed,
                                           !.tries = retry[j] + 1]]
    /\ UNCHANGED <<retry, eta, closed, mem, runner, history>>

\* job.perform(): the first query of the job takes the snapshot.
Perform(r) ==
    /\ req[r].srv = "started"
    /\ req' = [req EXCEPT ![r].srv = "performing"]
    /\ UNCHANGED <<table, memory, history>>

\* set_done, store, flush, commit; also NothingToDoJob, which is stored as done
\* by the same transaction.
SetDone(r) ==
    LET j == req[r].job IN
    /\ req[r].srv = "performing" /\ ~req[r].stale
    /\ WriteOne(j, "done")
    /\ retry' = [retry EXCEPT ![j] = req[r].tries]
    /\ req' = [Marked({j}) EXCEPT ![r] = [Idle EXCEPT !.job = j, !.client = req[r].client,
                                                     !.srv = "done"]]
    /\ closed' = closed \cup {j}
    /\ wasDone' = wasDone \cup {j}
    /\ effects' = [effects EXCEPT ![j] = @ + 1]
    /\ UNCHANGED <<eta, mem, runner, touches, faults>>

\* NothingToDoJob whose commit hits a serialization error, of the row of the job
\* or of the job's own data: the error leaves runjob, Odoo calls it again and it
\* returns early.
NothingToDoLost(r) ==
    /\ req[r].srv = "performing"
    /\ \/ req[r].stale /\ UNCHANGED faults
       \/ faults < MaxFaults /\ faults' = faults + 1
    /\ req' = [req EXCEPT ![r] = Ended(@, TRUE)]
    /\ UNCHANGED <<table, memory, wasDone, effects, touches>>

\* retry_postpone, in a cursor of its own: postpone, set_pending from the parents
\* the worker has loaded, store; whatever the row says meanwhile.
Postpone(r, count) ==
    LET j == req[r].job IN
    /\ WriteOne(j, PendingState(req[r].blocked))
    /\ retry' = [retry EXCEPT ![j] = count]
    /\ eta' = [eta EXCEPT ![j] = "moved"]
    /\ closed' = closed \ {j}
    /\ req' = [Marked({j}) EXCEPT ![r] = Ended(@, TRUE)]
    /\ UNCHANGED <<mem, runner>>

\* A serialization error of the row of the job: the outcome cannot be stored.
\* It is met outside perform(), so max_retries is not consulted.
StoreConflict(r) ==
    /\ req[r].srv = "performing" /\ req[r].stale
    /\ req[r].tries <= RetryBound
    /\ Postpone(r, req[r].tries)
    /\ UNCHANGED history

\* A serialization error of the job's own data, postponed the same way.
DataConflict(r) ==
    /\ req[r].srv = "performing" /\ faults < MaxFaults
    /\ Postpone(r, req[r].tries)
    /\ faults' = faults + 1
    /\ UNCHANGED <<wasDone, effects, touches>>

\* perform() raises RetryableJobError
RaiseRetryable(r) ==
    /\ req[r].srv = "performing"
    /\ LET most == MaxRetries[req[r].job] IN
           req[r].tries < (IF most = 0 THEN RetryBound ELSE most)
    /\ Postpone(r, req[r].tries)
    /\ UNCHANGED history

\* Mutant: perform() takes the try back twice.
RaiseIgnoreRetryTwice(r) ==
    /\ req[r].srv = "performing" /\ faults < MaxFaults
    /\ Postpone(r, req[r].tries - 2)
    /\ faults' = faults + 1
    /\ UNCHANGED <<wasDone, effects, touches>>

\* perform() raises RetryableJobError(ignore_retry=True)
RaiseIgnoreRetry(r) ==
    /\ req[r].srv = "performing" /\ faults < MaxFaults
    /\ Postpone(r, req[r].tries - 1)
    /\ faults' = faults + 1
    /\ UNCHANGED <<wasDone, effects, touches>>

\* perform() raises any other exception, or the last allowed RetryableJobError, or
\* what it has done is refused when it is flushed and committed, after set_done:
\* set_failed in a cursor of its own, which stores the dates that the Job object
\* has; the exception becomes an HTTP error.
RaiseError(r) ==
    LET j == req[r].job IN
    /\ req[r].srv = "performing"
    /\ WriteOne(j, "failed")
    /\ retry' = [retry EXCEPT ![j] = req[r].tries]
    /\ \E afterSetDone \in BOOLEAN :
           closed' = IF afterSetDone \/ req[r].closed THEN closed \cup {j} ELSE closed \ {j}
    /\ req' = [Marked({j}) EXCEPT ![r] = Ended(@, FALSE)]
    /\ UNCHANGED <<eta, mem, runner, history>>

\* Mutant: only children with this one parent are released.
EnqueueWaitingOnlyChild(r) ==
    LET j == req[r].job
        rel == {c \in Released(j) : Depends[c] = {j}}
    IN
    /\ req[r].srv = "done"
    /\ req' = [req EXCEPT ![r] = [@ EXCEPT !.srv = "releasing", !.kids = rel, !.stale = FALSE]]
    /\ UNCHANGED <<table, memory, history>>

\* _enqueue_dependent_jobs, a transaction after the one that stored "done": its
\* only statement is the UPDATE of enqueue_waiting, which takes the snapshot.
EnqueueWaiting(r) ==
    LET j == req[r].job
        rel == IF row[j] = "none" THEN {} ELSE Released(j)
    IN
    /\ req[r].srv = "done"
    /\ req' = IF rel = {} THEN [req EXCEPT ![r] = Ended(@, TRUE)]
              ELSE [req EXCEPT ![r] = [@ EXCEPT !.srv = "releasing", !.kids = rel,
                                               !.stale = FALSE]]
    /\ UNCHANGED <<table, memory, history>>

\* The UPDATE has got all its rows, and is committed.
ReleaseChildren(r) ==
    LET kids == req[r].kids IN
    /\ req[r].srv = "releasing" /\ ~req[r].stale
    /\ Write(kids, [k \in Jobs |-> IF k \in kids THEN "pending" ELSE row[k]])
    /\ req' = [Marked(kids) EXCEPT ![r] = Ended(@, TRUE)]
    /\ UNCHANGED <<retry, eta, closed, mem, runner, history>>

\* A serialization error or a deadlock on one of its rows.  The retry runs in the
\* aborted transaction and raises InFailedSqlTransaction, which leaves runjob:
\* nothing is released.
ReleaseFails(r) ==
    /\ req[r].srv = "releasing" /\ req[r].stale
    /\ req' = [req EXCEPT ![r] = Ended(@, FALSE)]
    /\ UNCHANGED <<table, memory, history>>

\* The worker dies, the connection breaks, or the request never arrives.
ServerCrash(r) ==
    /\ req[r].srv # "none" /\ faults < MaxFaults
    /\ req' = [req EXCEPT ![r] = Ended(@, FALSE)]
    /\ faults' = faults + 1
    /\ UNCHANGED <<table, memory, wasDone, effects, touches>>

-----------------------------------------------------------------------------
(* Users and crons *)

Touch(j) ==
    /\ touches[j] < MaxTouches
    /\ touches' = [touches EXCEPT ![j] = @ + 1]

\* button_done, from the form or the wizard: set_done and enqueue_waiting.  The
\* ORM writes "done" at the end of the transaction, after the UPDATE has looked
\* for parents that are done: children are released only if it was done before.
ButtonDone(j) ==
    /\ row[j] # "none"
    /\ Touch(j)
    /\ LET rel == Released(j)
       IN /\ Write({j} \cup rel,
                   [k \in Jobs |-> IF k = j THEN "done"
                                   ELSE IF k \in rel THEN "pending" ELSE row[k]])
          /\ req' = Marked({j} \cup rel)
    /\ closed' = closed \cup {j}
    /\ wasDone' = wasDone \cup {j}
    /\ UNCHANGED <<retry, eta, mem, runner, effects, faults>>

\* button_cancelled: which states the form and the wizard offer it for is what the
\* client last read; the server does not check.
ButtonCancelled(j) ==
    /\ row[j] # "none"
    /\ Touch(j)
    /\ WriteOne(j, "cancelled")
    /\ closed' = closed \cup {j}
    /\ req' = Marked({j})
    /\ UNCHANGED <<retry, eta, mem, runner, wasDone, effects, faults>>

\* _change_job_state(PENDING) of a freshly loaded job
SetPending(j) ==
    /\ WriteOne(j, PendingState(Unfinished(j) # {}))
    /\ req' = Marked({j})
    /\ retry' = [retry EXCEPT ![j] = 0]
    /\ closed' = closed \ {j}
    /\ UNCHANGED <<eta, mem, runner, wasDone, effects, faults>>

\* requeue, from the form or the wizard
Requeue(j) ==
    /\ row[j] \notin {"none", "wait_dependencies"}
    /\ Touch(j)
    /\ SetPending(j)

\* requeue_stuck_jobs, the cron: jobs enqueued for five minutes, when the thread
\* of the GET, which waits one second, is long gone
RequeueStuckJob(j) ==
    /\ row[j] = "enqueued"
    /\ \A r \in Requests : req[r].job = j => ~req[r].client
    /\ SetPending(j)
    /\ UNCHANGED touches

\* autovacuum: by the dates, whatever the state; the removal interval is in days, no
\* request on the job survives it
Autovacuum(j) ==
    /\ j \in closed
    /\ \A r \in Requests : req[r].job # j
    /\ row' = [row EXCEPT ![j] = "none"]
    /\ retry' = [retry EXCEPT ![j] = 0]
    /\ eta' = [eta EXCEPT ![j] = "none"]
    /\ closed' = closed \ {j}
    /\ notif' = IF runner # "down" /\ row[j] # "done" THEN notif \cup {j} ELSE notif
    /\ UNCHANGED <<mem, runner, req, history>>

-----------------------------------------------------------------------------
\* A graph of jobs was just stored by DelayableGraph.delay, the server is up and
\* the runner starts.
Init ==
    /\ row = [j \in Jobs |-> PendingState(Depends[j] # {})]
    /\ retry = [j \in Jobs |-> 0]
    /\ mem = [j \in Jobs |-> "absent"]
    /\ eta = [j \in Jobs |-> "none"]
    /\ closed = {}
    /\ notif = {}
    /\ runner = "down"
    /\ req = [r \in Requests |-> Idle]
    /\ wasDone = {}
    /\ effects = [j \in Jobs |-> 0]
    /\ touches = [j \in Jobs |-> 0]
    /\ faults = 0

RunnerNext ==
    \/ Listen
    \/ LoadJobs
    \/ \E j \in Jobs : ProcessNotification(j)
    \/ \E j \in Jobs, r \in Requests : RunJob(j, r)
    \/ \E killed \in BOOLEAN : RunnerStops(killed)
    \/ \E r \in Requests : SetJobPending(r)

ServerNext ==
    \E r \in Requests :
        \/ Refuse(r) \/ SetStarted(r) \/ Perform(r)
        \/ SetDone(r) \/ NothingToDoLost(r) \/ StoreConflict(r) \/ DataConflict(r)
        \/ RaiseRetryable(r) \/ RaiseIgnoreRetry(r) \/ RaiseError(r)
        \/ EnqueueWaiting(r) \/ ReleaseChildren(r) \/ ReleaseFails(r) \/ ServerCrash(r)

UserNext ==
    \E j \in Jobs :
        \/ ButtonDone(j) \/ ButtonCancelled(j) \/ Requeue(j)
        \/ RequeueStuckJob(j) \/ Autovacuum(j)

Next == RunnerNext \/ ServerNext \/ UserNext

Spec == Init /\ [][Next]_vars

\* What becomes of a request: its thread does not wait for ever, and the job's
\* method returns or raises.
Serve(r) ==
    \/ SetJobPending(r)
    \/ Refuse(r) \/ Perform(r)
    \/ SetDone(r) \/ NothingToDoLost(r) \/ StoreConflict(r)
    \/ RaiseRetryable(r) \/ RaiseError(r)
    \/ EnqueueWaiting(r) \/ ReleaseChildren(r) \/ ReleaseFails(r)

\* The runner's loop, its threads and the workers go on; a job is not denied a
\* free slot, nor a request its row lock, forever; the cron runs.  Users, faults
\* and autovacuum are not obliged to anything.
Fairness ==
    /\ WF_vars(Listen \/ LoadJobs \/ \E j \in Jobs : ProcessNotification(j))
    /\ \A j \in Jobs : /\ SF_vars(\E r \in Requests : RunJob(j, r))
                      /\ WF_vars(RequeueStuckJob(j))
    /\ \A r \in Requests : WF_vars(Serve(r)) /\ SF_vars(SetStarted(r))

FairSpec == Spec /\ Fairness

-----------------------------------------------------------------------------
(* Properties *)

\* At no time are more jobs enqueued or started in the table than the channel
\* has capacity for: not after a runner restart, a late timeout, an operator's
\* requeue or an UPDATE that overwrites a cancelled job.
WithinCapacity ==
    Capacity > 0 => Cardinality({j \in Jobs : row[j] \in Active}) <= Capacity

\* No job is executed before each of its parents has once been done (or has
\* been deleted by autovacuum), whatever users do to parents and children.
ParentsFirst ==
    \A r \in Requests : req[r].srv \in Executing =>
        \A p \in Depends[req[r].job] : p \in wasDone \/ row[p] = "none"

\* Two workers never execute the same job at the same time, unless a user
\* changed the state of that job: late GETs, timeouts, the cron that requeues
\* stuck jobs and runner restarts are not enough.
AtMostOneExecution ==
    \A q, r \in Requests :
        q # r /\ req[q].srv \in Executing /\ req[r].srv \in Executing
                /\ req[q].job = req[r].job => touches[req[q].job] > 0

\* The work of a job is committed at most once, plus once for each time a user
\* changed its state.
EffectsBounded ==
    \A j \in Jobs : effects[j] <= 1 + touches[j]

\* Once the runner has processed the notifications of a job, it knows where the
\* job is: a pending job is queued, an active job holds a slot, a failed one is
\* known as failed, and a finished one is forgotten.
RunnerInSync ==
    \A j \in Jobs : runner = "up" /\ j \notin notif =>
        \/ row[j] = "wait_dependencies"
        \/ mem[j] = notify(row[j], mem[j], FALSE)

\* A job that some worker died on: its row says started, nobody executes it.
Zombie ==
    \E j \in Jobs : /\ row[j] = "started"
                   /\ \A r \in Requests : ~(req[r].job = j /\ req[r].srv \in Executing)

\* Jobs that share a parent have the same parents, as in graphs of groups and chains.
SiblingsAgree ==
    \A c, d \in Jobs : Depends[c] \cap Depends[d] # {} => Depends[c] = Depends[d]

\* A pending job is eventually executed to an end (or taken back by a user), in
\* spite of lost requests, timeouts, retries and runner restarts: only a worker
\* that died on a started job can keep it waiting, by holding its slot forever.
PendingSettles ==
    \A j \in Jobs : row[j] = "pending" ~>
        \/ row[j] \notin {"pending", "enqueued", "started"}
        \/ Zombie

\* A waiting job whose parents are all done is eventually released, whichever of
\* them ends last, however their workers overlap and although an UPDATE that fails
\* releases nothing: as long as no process dies, no user takes part, and jobs that
\* share a parent have the same parents.  (JobGraph shows what becomes of others.)
ChildrenReleased ==
    SiblingsAgree => \A j \in {k \in Jobs : Depends[k] # {}} :
        (row[j] = "wait_dependencies" /\ \A p \in Depends[j] : row[p] = "done")
            ~> \/ row[j] # "wait_dependencies"
               \/ faults > 0
               \/ \E k \in Jobs : touches[k] > 0

\* What the scheduler relies on when it does not ask for a timed wake-up: in a
\* full channel some slot is held by a job that is enqueued or started, whose end
\* will be notified, or a notification is already there.  Only users, who can
\* send an enqueued job back to wait for its parents, break it (notify,
\* get_wakeup_time).
FullChannelWakesUp ==
    /\ runner = "up" /\ Capacity > 0 /\ Cardinality(RunningJobs) >= Capacity
    /\ \A j \in Jobs : touches[j] = 0
    => \/ notif # {}
       \/ \E j \in RunningJobs : row[j] \in Active

\* The states of rows as JobContract has them.
ContractState(s) ==
    CASE s = "wait_dependencies" -> "waiting"
      [] s = "none" -> "gone"
      [] s \in {"pending", "enqueued", "started"} -> "ready"
      [] OTHER -> s

Contract == INSTANCE JobContract WITH
    job <- [j \in Jobs |-> ContractState(row[j])],
    completed <- wasDone,
    touched <- {j \in Jobs : touches[j] > 0}

\* The queue implements the contract of its users: a job that nobody interferes
\* with is released when its parents are done, is done or failed at most once, and
\* neither timeouts nor late requests nor restarts set it back after that.
ContractKept == Contract!Spec
=============================================================================
