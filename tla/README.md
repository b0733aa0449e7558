# Verification of the synchronisation server

The repository is an Odoo server that synchronises users and other records
between systems. Two parts of it decide whether a synchronisation runs once,
completely and in order:

* `addons_OCA/queue/queue_job`: a job queue in a PostgreSQL table, with a runner
  process that asks Odoo workers over HTTP to execute the jobs;
* `addons_zync/queue/zbsync`: pipelines ("zbs") that fetch, map and dump records
  line by line and batch by batch, driven by heartbeats which are queue jobs.

This directory models the two, and the one widget of the web client that keeps a
state of its own beside the server's (`addons_OCA/web/web_timeline`), in TLA+,
checks small instances with TLC and proves the main results with TLAPS for every
value of the constants.

    tlc -workers 2 -config MCJobQueue_safety.cfg MCJobQueue
    tlapm JobQueueProofs.tla ContractProofs.tla JobGraphProofs.tla ChannelsProofs.tla \
          DelayableGraphsProofs.tla PipelineInstanceProofs.tla ParallelRunsProofs.tla TimelineProofs.tla

## 1. Inventory

### Job queue (`queue_job`)

| part | state | operations | talks to |
|---|---|---|---|
| table (`models/queue_job.py`, `job.py`) | row per job: state, retry, eta, dependencies, identity key | set_pending, set_enqueued, set_started, set_done, set_failed, set_cancelled, postpone, enqueue_waiting | a trigger (`post_init_hook.py`) sends NOTIFY with the uuid after each write |
| runner (`jobrunner/runner.py`) | a connection per database, a `ChannelManager` | initialize_databases, process_notifications, run_jobs, wait_notification, run (restart after 5 s) | reads rows, UPDATEs to `enqueued`, GETs the controller in a thread per job |
| channels (`jobrunner/channels.py`) | per channel: queue, running, failed; capacity, throttle, sequential | notify, get_jobs_to_run, get_wakeup_time, set_running, set_pending, set_failed, remove | used by the runner only, one thread |
| controller (`controllers/main.py`) | a transaction per phase | runjob: lock and check, start, perform, store, retry_postpone, enqueue dependents | reads and writes rows, calls the job's method |
| operators, crons | | requeue, cancel, set to done, autovacuum, requeue_stuck_jobs | write rows |
| delayables (`delay.py`) | a graph per delayable, chain and group | constructors, on_done, `DelayableGraph.delay`, topological_sort, identity keys | store jobs in `pending` or `wait_dependencies`, or perform them at once |
| release of dependents (`job.py`, `controllers/main.py`) | a transaction per worker | set_done, enqueue_waiting, _enqueue_dependent_jobs, button_done | locks rows, fails on rows written since its snapshot |
| cron runner (`queue_job_cron_jobrunner/models/queue_job.py`) | the row lock of the job it performs | _job_runner, _acquire_one_job, _process | table, beside or instead of the runner process |
| batches, subscriptions, contexts | rows of their own | | react to writes of job rows |

Hard behaviours: the runner's copy of the table is always late; a GET times out
after one second although the request may still be served; rows are updated
without looking at the state they are in; outcomes are stored by transactions
that can conflict; the runner and the workers die and restart; `done` is stored
in one transaction and the dependents are released in another one, whose UPDATE
locks several rows and sees an old state of the others; graphs are merged from the
graphs of nested containers; callers that delay the same keys do not see each other.

What must hold: no more active jobs than slots; parents before children; no job
twice at the same time; no effect twice; the runner catches up with the table;
pending jobs are executed; waiting jobs are released; a full channel is woken up;
in the tree of channels no capacity is exceeded, no job is in two places, the
runner sleeps neither too long nor not at all; jobs run in the order that chains,
groups and on_done say; a graph is stored as a whole or not at all; one of several
parents that end together releases the child.

### Pipelines (`zbsync`)

| part | state | operations | talks to |
|---|---|---|---|
| instance (`zbs_instance.py`) | state, next line, the line the user came from | heartbeat, cron_heartbeat, heartbeat_ui, replay, abort, retry, goto_end | queue jobs, advisory lock (`tools.py`) |
| instance line (`zbs_instance_line.py`) | its batches, `generated_batches` | make_current, reset | |
| batch (`zbs_batch.py`) | state, input, output | heartbeat: runs the worker in its own transaction | workers |
| workers (start, stop, loop, mappers, grabbers, dumpers) | the record set (`zebrooset`) | process | files, SQL, other Odoo servers, HTTP |
| pipeline (`zbs_pipeline.py`, `zbs_pipeline_line.py`) | lines, sequence, limit of parallel runs | start, resequence, range | creates instances |
| cron start, receiver, trigger methods | | start a pipeline by time, request or patched method | |
| xport, mapper, ui | configuration | export, import, design | |

Hard behaviours: several heartbeats of one instance; ids of batches collected in
one transaction and used in later ones; buttons that do not take the lock and
delete the rows a heartbeat is working on; failures of one batch of many; runs
counted by concurrent transactions.

What must hold: a line starts only from the complete output of the one before;
a success is a complete run; no worker is run twice on a batch by overlap alone;
an instance ends, and a failure is reported.

### Timeline view (`web_timeline`)

| part | state | operations | talks to |
|---|---|---|---|
| controller (`timeline_controller.js`) | the queue of moves | _onMove, internalMove, _onRemove, remove_completed, _onAdd, create_completed, _onUpdate, update | server: write, unlink, search_read, read |
| renderer (`timeline_renderer.js`) | | on_data_loaded, on_data_loaded_2 | server: name_get; sets the items of the view |
| view (`vis-timeline`, a library) | the items it shows | drag and drop, callbacks | calls the controller |

Hard behaviours: calls are handled and answered in any order; moves arrive while
the writes of earlier ones are under way; one write of many fails; a read is
followed by another one for names.

What must hold: no move is lost or overwritten by an older one; the view does not
fall behind the writes it waited for; in the end it shows what the database has.

The other widgets in `addons_OCA/web`, the tests, file formats and generated data
have no logic of this kind. `PROJECT.json` lists every component with its status
and the hazards with the line where each bites.

## 2. Modules

| module | content |
|---|---|
| `JobContract` | what a queue promises to the code that delays jobs; abstract |
| `JobQueue` | the queue: table, runner, requests, controller, operators; implements `JobContract` |
| `JobGraph` | the transactions in which workers release dependents; implements `JobContract` |
| `Channels` | the tree of channels inside the runner, with priorities and times |
| `DelayableGraphs` | how graphs of delayables are composed, merged, stored or executed |
| `PipelineInstance` | one instance of a pipeline: lines, batches, heartbeats, buttons |
| `ParallelRuns` | the instances of one pipeline and the limit of parallel runs |
| `Timeline` | a page with the timeline view, its calls and their answers |
| `MC...` | instances of each for TLC |
| `JobQueueProofs`, `ContractProofs` | theorems about `JobQueue` |
| `JobGraphProofs`, `ChannelsProofs`, `DelayableGraphsProofs`, `PipelineInstanceProofs`, `ParallelRunsProofs`, `TimelineProofs` | theorems about the module of that name |

The definitions called "Mutant: ..." in the modules are plausible bugs; the
specifications do not use them. They are put in the place of the definition that
follows them to see that the property named with them in `PROJECT.json` fails.

### `JobQueue`

| variable | in the code |
|---|---|
| `row`, `retry` | columns `state` and `retry` of table `queue_job`; `"none"` after the autovacuum |
| `closed` | jobs with a `date_done` or `date_cancelled`, which is all that the autovacuum asks for |
| `eta` | whether column `eta` is set, and whether the runner's copy differs: a postponement writes the column, and `ChannelQueue.pop` takes the eta off the copies of the jobs that are due; `notify` makes a new copy when they differ |
| `mem` | `ChannelJob` in the queue, the running set or the failed set of the channel |
| `notif` | NOTIFY payloads the runner has not read; a set, because the row is read again when one is processed |
| `runner` | `run()` before LISTEN, between LISTEN and the SELECT, and in its loop |
| `req` | a GET: the thread that waits for it (`client`), where the controller is (`srv`), what the worker's `Job` object remembers (`tries`, `blocked`, `closed`), the children it is about to release (`kids`), and whether a row it is to write was written since its snapshot (`stale`) |
| `wasDone`, `effects`, `touches`, `faults` | history for the properties and the bounds |

`notify`, `has_capacity`, `Released` and `PendingState` are the decisions of
`ChannelManager.notify`, `Channel.has_capacity`, `Job.enqueue_waiting` and
`Job.set_pending`. Each phase of `runjob` is an action; each way out of
`perform` is an action of its own (`SetDone`, `RaiseRetryable`,
`RaiseIgnoreRetry`, `RaiseError`, `StoreConflict`, `DataConflict`).

A transaction is one step, except two kinds that may wait for others, the one around
`perform` and the one that releases the children, which are two steps each: with
REPEATABLE READ they cannot write a row that was written since their snapshot, and
`stale` remembers that. `EnqueueWaiting` takes the snapshot of the UPDATE,
`ReleaseChildren` commits it, and `ReleaseFails` is the UPDATE that PostgreSQL
refuses: the retry in `_enqueue_dependent_jobs` runs in the aborted transaction, so
nothing is released. The order in which the UPDATE locks its rows, the waiting for
them and deadlocks are left to `JobGraph`; here two UPDATEs that overlap on a row end as
one that commits and one that fails. The runner's UPDATE to `enqueued` and the GET are
one step; a GET that never arrives is `ServerCrash` on a request that was only sent.

What users do is checked by the form and the wizard only, where it is:
`button_cancelled` takes any state, also "started" (`ButtonCancelled`), since the state
that decides about the button is the one the client has last read. The autovacuum
deletes by the dates, whatever the state (`Autovacuum`): also a job whose commit
failed after `set_done`, which `set_failed` stores as failed with its `date_done`
(`RaiseError`).

Abstracted: one database and one channel (root) that holds all jobs; the order
of the queue (any queued job may run next, which covers every priority and
eta); times (a timeout may come at any moment while the thread waits); what the
jobs do. Two restrictions on what time allows: the cron for stuck jobs acts when
the thread of the GET, which waits a second, is gone (the cron waits minutes),
and the autovacuum deletes only jobs that no request is about (it waits days).

### `JobContract` and `JobGraph`

`JobContract` has a state per job ("waiting", "ready", "done", "failed",
"cancelled", "gone"), the jobs that were once done and those whose state users
have changed. A job that no user touches is released when its parents are done,
is completed or fails once, and is not set back; one step may do this to several
jobs. Only done, failed and cancelled jobs are deleted (`Forget`); failed ones are
among them because the autovacuum asks for a `date_done`, which a job has that
failed when its work was committed. `JobQueue` implements it with
`completed <- wasDone`, `JobGraph` with the jobs whose row is done; "pending",
"enqueued" and "started" are all "ready".

`JobQueue` says how a job gets to a worker and has the release of dependents in two
steps, its snapshot and its end. `JobGraph` treats delivery as one step (`SetStarted`)
and the release statement by statement, with its row locks:

| variable | in the code |
|---|---|
| `row` | the committed state of each job |
| `runner` | whether `queue_job`'s runner process or `queue_job_cron_jobrunner` executes jobs |
| `tx` | per worker: where its transaction is; the rows others committed since its snapshot (`old`); its own writes, which are its row locks (`own`); the rows its UPDATE has still to lock (`todo`) |
| `faults`, `touches` | history for the properties and the bounds |

`EnqueueWaiting` is the snapshot of the UPDATE in `enqueue_waiting`, `UpdateRow`
one row it locks, `UpdateFails` its end by a row that was written since or by the
deadlock detection of PostgreSQL (`Deadlocked`: the transaction waits for itself through
any number of others), `UpdateEnds` its commit. The cron worker goes on
to `AcquireOneJob` in that same transaction (SELECT ... SKIP LOCKED) and commits
only in `Process`. `ButtonDone` releases nothing, because `enqueue_waiting` looks
at the table before the ORM has written "done".

Abstracted: order in which an UPDATE locks rows (any); cancelling and requeueing
(in `JobQueue`); a lock timeout. The two kinds of runner are not mixed.

### `DelayableGraphs`

| variable | in the code |
|---|---|
| `shape`, `links` | the program: containers with their items, and its calls of `on_done` |
| `graph` | `_graph` of each object |
| `meaning` | history: jobs and order by the documentation of chain, group and on_done |
| `caller`, `edges` | per transaction that calls `delay()`: its progress, the identity keys it found, the graph of jobs it has built |
| `row`, `ran` | its job records, the jobs that were performed |
| `sort` | the generator `topological_sort` for jobs that are executed at once |

`Ends` is the recursion of `_head` and `_tail`, `Visited` what `_connect_graphs`
gets to and `Connected` the graph it makes, `NewGraph` what the constructors put into
a graph, `Sources` what `on_done` connects. `Meaning` is the reference, the order
that the documentation promises: a job of an item of a chain comes before the jobs of
the next item, and so do those of an object before those it is connected to. It is
defined from the nesting (`Leaves`) and reachability, and shares nothing with the code's
recursions but the objects. "It assumes the graph has no cycle" is the
comment of `topological_sort`; `Acyclic` restricts the programs to those, at the
beginning and at each `on_done`. `NestingType` says that a container is made of
objects that exist already. Abstracted: the queue (`Start`,
`Finish` perform a stored job, parents first); arguments of jobs. A job and its key
are the same for all callers, since the same code builds their graphs.

### `Channels`

`JobQueue` has every actor and one channel; `Channels` has every channel and
takes the actors other than the runner together as an environment that writes
rows (`WriteRow`). The two share the rules of `notify` and `has_capacity`.

| variable | in the code |
|---|---|
| `row`, `eta` | columns `state` and `eta` of each job |
| `copy` | `eta` of the `ChannelJob` the runner has made of a row; `ChannelQueue.pop` clears it when the job is due, and `notify` makes a new copy when it differs from the row |
| `chan` | per channel `_queue` (without eta, with eta), `_running`, `_failed`, `_pause_until` |
| `notif` | NOTIFY payloads the runner has not read |
| `visit` | where the loop of the runner is: notifications, a channel `get_jobs_to_run` is at, or `select()` |
| `clock`, `now` | the time, and the time `run_jobs` has read |

`get_jobs_to_run` is a recursion of generators: the children of a channel are
exhausted before the channel pops its own queue. `Order` lists the channels in
the order in which their own loops run; `Take` is one round of that loop, `Skip`
the return of a paused channel, `Leave` the end of the loop. The recursions of
`remove`, `set_running` and `get_wakeup_time` along the tree are quantifiers over
`Path`. `WakeUp` is the end of `wait_notification`, `Restart` the exception
handler of `run` with the rows loaded again.

Abstracted: the keys of the queue (`Key` is the rank by priority, date and
sequence; only the eta of a job changes); one database; the GET that follows the
UPDATE to `enqueued`. Not modelled: parsing the configuration and creating
channels on the fly, a job that moves to another channel.

### `PipelineInstance`

| variable | in the code |
|---|---|
| `state`, `nextLine`, `override` | `state`, `next_line_id`, `prev_line_override_id` of the instance |
| `batch`, `generated`, `gen` | rows of `zbs.batch` per line, `generated_batches`, and which incarnation of them (ids are not reused) |
| `hb` | heartbeats: a queue job, a button or the creating request; its line, the ids it collected, and whether the row of the instance was written since its batch started |
| `runs`, `touches`, `faults` | history |

The actions follow `heartbeat`: `PgLock`, `Prepare` (first transaction),
`StartBatch` and one of `BatchSucceeds`, `BatchFails`, `BatchConflicts`,
`BatchMissing` (a transaction per batch), `GotoNextLine` (last transaction).
Buttons (`ButtonMakeCurrent`, `HeartbeatUi`, `Replay`, `Abort`, `Retry`,
`GotoEnd`) do not take the lock and may come between any two steps. The heartbeat
that some of them run is like any other: `zbs_heartbeat_ui` and
`zbs_ignore_parallel_runs`, with which it asks to stop after one line and to be let past
the limit, are in a context that `new_env` (`tools.py:134`) drops before they are read.

Abstracted: one instance; what the workers do (a batch succeeds or fails as it
likes, but the workers of the start and the stop line do not raise); the number
of batches of a line, which is any number up to `MaxBatches`; the delivery of
the heartbeat's job, which is module `JobQueue`; the limit of parallel runs, which
is module `ParallelRuns`. Not modelled: test mode, continuation groups, the
autovacuum of instances.

### `ParallelRuns`

| variable | in the code |
|---|---|
| `state` | of each instance; "creating" while it has an id and is not committed |
| `left`, `broken` | lines it has to pass, whether batches have failed: what is left of `PipelineInstance` |
| `queued` | the job of `cron_heartbeat`, which has an identity key |
| `asked` | instances about to get a heartbeat from a request: of a button or of who created them |
| `hb` | the heartbeat that has the lock, who made it (a job, a request), and what a user did to the instance since its first transaction |
| `overlooked`, `events` | history for the properties and the bound |

`Pass` and `Refused` are the two ways out of `_check_running_count_and_prepare`,
`Older` its `search_count`. A lock that is taken already postpones a job, which
stays as it is, so `RunJob` waits for the lock. The heartbeat button has the same limit:
`make_current` and its commit (`HeartbeatUi`) set the instance to running and delete
the batches of its line without the lock or the limit, but the heartbeat that follows
(`PgLock`, then `Prepare` or `Refused`) may be refused by both, and goes on with further
lines like any other. `Beat` is the batches of a line and `_goto_next_line`:
the line fails, is passed, ends the instance, has nothing to do, or meets what a user did
meanwhile. `zbs.start`, which a heartbeat passes first, is left out: `make_current`
steps over it. Not modelled: test mode; the cron start, which as it is written
creates no instance (`zbs_cronstart.py:15` takes no `initiated_by`, which the code
`ir_cron.py:27` stores in the cron passes, and line 19 reads a state the model does
not have).

### `Timeline`

| variable | in the code |
|---|---|
| `server` | the record in the database: dates and group as a place |
| `shown` | the items that the vis-timeline draws |
| `items` | its data set, `itemsData`; a drag changes what is drawn only, and `create_completed` makes the library draw all of the set again |
| `moveQueue` | `moveQueue` of the controller |
| `calls` | remote calls: sent, handled by the server, until the page takes the answer |
| `batches`, `broken` | the Deferreds of `$.when` in `internalMove`, and those rejected |
| others | history |

`OnMove`, `InternalMove` (the debounced call), `OnRemove`, `OnAdd` and `OnUpdate`
are the handlers, `Serve...` the server, and the rest are the callbacks of answers.
Assumed: one user and one page write the records; a drag is atomic; a dialog is
saved as one step; the server may refuse a write, and fails reads only when
a record whose name is asked for is gone. Abstracted: dates, groups and colours, the
window, the search bar (`update` with another domain), arrows between items.
`vis-timeline` is external except for the callback that ends a drag.

## 3. Runs

| run | instance | shows |
|---|---|---|
| `safety` | parent and child, capacity 1, 2 requests, 2 tries of the parent, 1 fault, 1 operation of users per job, together at most 2; 732 thousand states | `TypeOK`, `ParentsFirst`, `RunnerInSync`, `WithinCapacity`, `AtMostOneExecution`, `EffectsBounded`, `FullChannelWakesUp`, the refinement `ContractKept` |
| `liveness` | two parents and a child with 2 tries, capacity 1, 2 requests, 1 fault; fair; 119 thousand states | `PendingSettles`, `ChildrenReleased` |
| `releases` | two parents and two children of both, 2 workers of either kind, 1 fault, 1 button; fair; 41 thousand states | `TypeOK`, `OneWorkerPerJob`, `ParentsFirst`, `ContractKept`, `JoinReleased`, `PendingEnds` |
| `lost_join` | the second child waits for the second parent only; requests, nothing dies | `JoinReleased` is violated |
| `graphs` | 4 jobs in 2 nested containers, any mixture of chains and groups but a chain at the end of a chain, 2 of them with keys, 1 on_done, 2 callers; 132 thousand states | `TypeOK`, `OrderRespected`, `WaitsForReason`, `WholeOrKnown`, `GraphCompletes` |
| `nested_chain` | the same with chains in chains, 1 caller | `OrderRespected` is violated |
| `tree` | three jobs; a root of capacity 2, a throttled channel of capacity 2 and a sequential one; etas, 2 writes by others, 1 restart, clock to 3; 0.9 million states | `TypeOK`, `CapacityKept`, `OnePlace`, `NoMissedWakeup`, `NoPerpetualWakeup`, `SequentialOrder` |
| `instance_safety` | 4 lines, two with up to 2 batches, 2 heartbeats, 1 fault, 2 operations of users; 765 thousand states | `TypeOK`, `LinesInOrder`, `SuccessIsComplete`, `RunOnce` |
| `instance_liveness` | 3 lines, 2 heartbeats, 1 fault, no users; fair; 3 thousand states | `ReachesEnd`, `FailureReported` |
| `skipped_line` | 3 lines, 1 operation of users | `PassedLinesDone` is violated |
| `parallel_runs` | 3 instances with 2, 1 and 1 lines, limit 1, 1 request, crash or operation of users; fair; 228 thousand states | `TypeOK`, `WithinLimit`, `RunsEnd` |
| `timeline` | 2 stored records and a new one, 2 places, 3 operations of the user; 512 thousand states | `TypeOK`, `ViewSettles`, `MovesKept`, `NoFlicker` |

Bounds. Every race of the queue is between one job's requests or between a
parent and a child, so two jobs and two requests that overlap suffice; the join
needs a third job. `MaxFaults` counts runner restarts, dead workers, lost
requests and serialization errors together; timeouts, failures, retries and
conflicts of the job's own row are not bounded by it. In `safety` the constraint
`FewDisturbances` lets two disturbances happen together: an operation of users on each
of the jobs, or one and a fault. One
job may raise `RetryableJobError` and be tried again, the parent in `safety` and the
child in `liveness`. `RetryBound` caps `retry` where the
code does not. In `releases`, two UPDATEs lock the same two rows in either order,
which is the least for a deadlock, and a worker of each parent is the least for two
snapshots that miss each other. In `graphs`, a container inside another one has
each kind at each place, and one `on_done` connects any two objects. Two heartbeats
are enough for one to wait, or to be refused, while another one works; two batches
for one to fail while the other one succeeds. In `tree`, three jobs fill the root
while one more waits, and the clock passes the only eta, the end of a pause and the
timeout of `select()`. In `parallel_runs`, the third instance is the first that a
limit of 1 can stop, and the lines differ as when a line of the pipeline was
disabled between two starts. In `timeline`, three operations
are two that race on a record, or in a batch, and one that comes between; the
stored records are symmetric; four operations make more than 14 million states.
The proofs below need none of these bounds.

`CHECK_DEADLOCK FALSE` stands in every configuration because all systems
rest when the jobs, the instances or the calls have ended (or the clock, at its bound).

Fairness. Queue: the loop of the runner and its threads go on (weak fairness of
`Listen`, `LoadJobs`, `ProcessNotification`); what becomes of a request goes on
(`Serve` per request, weak: the end of its thread, `Refuse`, `Perform`, the outcomes,
the release); a queued job is
not passed over forever when slots become free again and again, and a request
is not refused its row lock forever, because the queue is ordered by date and a
postponed job gets a later one (strong fairness of `RunJob` per job and of
`SetStarted`). The cron for stuck jobs runs. Retries raised by a job are
limited, a run without limit is excluded by `RetryBound`. `JobGraph`: workers go on
with their transaction, and pending jobs are sent, or looked for by the cron, again
and again; all weak. `DelayableGraphs`: a caller commits or executes what it
has begun, and stored jobs are performed. Pipelines: the cron
calls heartbeats every minute, and what a heartbeat does goes on; in
`ParallelRuns` weak fairness of both per instance. Users, faults
and the autovacuum are not obliged to anything. `Timeline` has no liveness
property: calls may be left unanswered.

What the properties leave out. `EffectsBounded` and `AtMostOneExecution` allow
for the operations of users
because a requeue of a job that is being executed does make it run twice; what
they say is that timeouts, crons and restarts alone do not. `PendingSettles` has
the exception `Zombie`: a worker that dies on a started job leaves the row
`started`, its slot is taken, and nothing in the code frees it but an operator.
`FullChannelWakesUp` excludes users: `ChannelManager.notify` does nothing for
`wait_dependencies`, so a job that was enqueued and is sent back to wait (its
parent was requeued, then it was) keeps its slot until the runner restarts.
`ChildrenReleased` and `JoinReleased` exclude deaths: a worker that dies between the
commit of `done` and `enqueue_waiting` leaves the children waiting. `ChildrenReleased`
has the hypothesis `SiblingsAgree`, that jobs which share a parent have the same
parents, as in graphs of chains and groups: an UPDATE that fails releases none of
its rows, also those nobody else will release, and the run `lost_join` shows a graph
in which a child waits forever because of it. `MovesKept` excludes records that were
written again before their last write was answered: the server may handle the two in
either order, so an older move may win.
`SequentialOrder` speaks of channels with one eta at most: a sequential queue looks
at the job with the soonest eta, not at the one with the highest priority among
those with an eta, so a job of high priority and a late eta is passed.
`LinesInOrder` and `SuccessIsComplete` speak of instances no user has touched;
`skipped_line` shows why. `WithinLimit` says `Limit + 1`, because the count is
compared with `>` and the instance itself is not counted; and it leaves out
instances that were committed, or set to running again, after a younger one had
counted; nobody is let past the limit. `RunsEnd` excepts an instance that was revived: a heartbeat sets the state to
running before it looks at anything, so one that waited for the heartbeat that
finished the instance revives it, no worker sets success again, and two failed
instances that are revived in turn can keep a third one waiting. `ViewSettles`
names the three ways in which the view ends behind the database (`astray`): an
older read that is answered after a newer one, a batch with a refused write, a name
that cannot be read.

## 4. What the code does not do as its texts say

* `lost_join`: after a serialization failure `_enqueue_dependent_jobs` retries
  `enqueue_waiting` in the transaction that PostgreSQL has aborted. The retry fails,
  and no child of the parent is released, also those that nobody else
  will release. The comment says "Automatically retry the typical transaction
  serialization" errors.
* `nested_chain`: `_head` of a chain asks its first item for its `_tail`, and
  `_tail` its last item for its `_head`. For a chain that begins or ends with a
  chain this is the wrong end: in `chain(chain(a, b), c)` after `d`, job `a` does not
  wait for `d`. The class says "jobs must be executed sequentially".
* `skipped_line`: `_all_batches_done` is `all()` over the batches that exist. The
  buttons delete the batches of the line they make current, or make a line current
  that never had any; a heartbeat that was at its last transaction takes the empty
  line for done and goes on. The comment says "all batches must be done:"
  (`zbs_instance.py:354`).

Besides, `internalMove` reads the records again when all writes of a batch have
succeeded, and its comment "After all writes are finished" is not true of a batch
with a failure; the condition of a pipeline's line decides its batch size only, its
worker runs also when it is False.

## 5. Proofs

### `JobQueueProofs`

For all sets of jobs (finite), dependency graphs, capacities, numbers of
requests, retries, faults and operations of users, from the named assumptions of
`JobQueue`:

| theorem | invariant it rests on |
|---|---|
| `TypeCorrect` | `TypeInv`: a request that executes has counted its try, else the try `RaiseIgnoreRetry` takes back could be one below zero |
| `CapacityRespected` | `CapacityInv`: while the runner is up, every active row holds a slot in its memory; the table alone limits nothing, since `set_job_enqueued` does not look at it, and the capacity is only enforced in memory |
| `ParentsAlwaysFirst` | `ParentsInv`: whatever is on its way to execution (pending and active rows, jobs the runner has queued, executing requests) has parents that were done once; needed because the runner and the workers act on what they read earlier |
| `OneExecution` | `SoloInv`: of a job no user has touched, the row is pending while the runner has it queued, and `started` while a request executes it; so no second request finds it `enqueued` |
| `RunnerFollowsTable` | `RunnerInSync` is inductive together with the types |
| `EffectsAreBounded` | an account per job: effects, workers that execute it, and a chance for one more execution (its row waits, is pending or enqueued, or the runner has it queued) are together at most one more than the operations of users on it. An effect takes a worker from the account, a worker takes the chance; only users add to it. That a job the runner has queued is not active (`QueuedNotActive`) keeps `RunJob`, which does not look at the row, from making a chance of nothing |

Each proof has a lemma per part of the next-state relation (runner, server,
users) with a step per action, and ends with `PTL`. Actions of the server that write one row
share the lemmas on `Marked`, `Ended` and `WriteOne`.

### `ChannelsProofs`

For all finite sets of jobs and all trees that satisfy `TreeType` and
`PathsChains` (the channels from a channel up to the root form a chain; the
induction over the tree that would derive it from `Parent` is out of reach), all
capacities, throttles and orders of visits.

| theorem | invariant it rests on |
|---|---|
| `TypeCorrect` | the types |
| `PlaceUnique` | `Placed` for each job: in a channel a job is in one set at most; what a channel has of a job, every channel below it on the job's path runs (`RunsBelow`); what it runs, its parent has (`KnownAbove`); jobs with an eta and failed ones are at home. `OnePlace` speaks of a channel and its parent only, and a step of one channel needs the whole path below it |
| `CapacityRespected` | `ActiveRun`: a job whose row is active is running in its whole path. So `set_running`, which asks for no capacity, takes no slot that was free, and neither does a restart |
| `NoSpin` | `SettledInv`: a channel that was visited has no past pause and, if it has capacity, no job that is due; needs `OnePlace`, because taking due jobs of one channel writes copies that another one must not hold |
| `NoOversleep` | `WakeInv`: a channel that was visited had nothing more to give when the runner left it (`Drained`), and what others do meanwhile gives it nothing. `Offer` is a recursive function over the tree; it is well defined because `Order` has the children before their parents (`OfferDefined`, `OfferEquation`). A job that is offered by the root is due, so it was when the runner went to sleep, or its channel was paused or the clock has passed a wake-up time |
| `SequentialInOrder` | only the visit of a channel takes a slot of it (`OnlyTakes`), which needs `ActiveRun`; `pop` takes the first of the ready jobs unless the soonest of those with an eta, here the only one, holds it back |

The steps of the runner are reduced to three relations: a notification moves one
job (`Moves`), a visit takes the eta off due jobs (`Ripens`) and lets one job
climb to the parent (`Climbs`); each preserves `Placed`.

### `DelayableGraphsProofs`

For any finite sets of jobs and containers, all nestings, identity keys, callers and
programs. The recursive functions of the model are handled without induction over data:
a fact that fails for some object fails for one of smallest rank in the nesting,
whose items it holds for (`Smallest`). So `Ends`, `Leaves` and `Visited` are shown to
satisfy their equations (`EndsEquation`, ...), and `_head` and `_tail` of an object to
be leaves of it (`EndsAreLeaves`).

| theorem | invariant it rests on |
|---|---|
| `TypeCorrect` | the types, with what `topological_sort` counts: `SortInv` relates the counters of a job to its parents that were not yielded, so none of them goes below zero |
| `WaitsForBefore` | `ProgramInv`: what the graph of each object holds after the constructors and the calls of `on_done`; from it, every edge of the merged graph agrees with the documented order (`ConnectedOrdered`). A row waits only for its parents (`RowInv`) |
| `Whole` | `ProgramInv`: the vertices of the merged graph are the jobs of the delayed objects (`VerticesDelayed`). A caller has found a key or stored them all; a sort that ends has yielded them all (`SortComplete`), because the graph that is left would have a job without parents |
| `Ordering` | `Complete`: a job that was performed has all the jobs before it performed. The merged graph has an edge for each pair that the program connects directly only if heads and tails are the ends that a chain has, hence the hypothesis `NoChainAtEnds`: no chain is the first or last item of a chain. Then each job but the first ones of what it comes after is a child of another one of them (`PlainEnds`, `ChainBack`, `AllBack`), and what comes before is reached backwards along the edges (`Backwards`) |
| `GraphNotStuck` | `NeverStuck`: while a stored or executed graph is not finished, some job can start or end. The order has no cycle, so one of the unfinished jobs has none of the others before it (`FewestBefore`). It is the safety part of `GraphCompletes` |

`Ordering` is the only one that needs `NoChainAtEnds`; that it cannot do without is what
the run `nested_chain` shows. The run `graphs` checks `OrderRespected` under the
same hypothesis.

### `PipelineInstanceProofs`

For any number of lines, batches, heartbeats, operations of users and faults, and
all conditions, batch sizes and continuations, from the named assumptions of
`PipelineInstance`. The invariant is `Inv`, a conjunction; each theorem needs all
of it, because the parts lean on each other:

| part | says | used for |
|---|---|---|
| `Locked` | one heartbeat is past the lock | theorem `LockExclusive`; no other heartbeat has collected anything when one prepares or moves on |
| `Collected` | batch ids a heartbeat has collected are still `todo`, or were deleted | no batch that is done is started again |
| `Generated` | a line has rows exactly when it has `generated_batches`; without them no starts are counted | the batches of a line are made once |
| `RunsCounted` | `RunOnce`, and a batch that is `todo` has a start to spare unless one is under way that can commit | theorem `RunsBounded`; `RunOnce` alone allows a further start |
| `Ordered` | without users: lines before the current one are complete, those after it empty, the heartbeat at work has exactly the `todo` batches of the current line | theorems `LinesOrdered`, `SuccessComplete` |

`SuccessComplete` assumes that `zbs.stop` has no batchsize: its worker marks the
instance each time it runs, so with several batches the first one does.
`HeartbeatStep` covers every step that ends a heartbeat or lets it wait,
`TouchStep` every button; the four steps that write batches have a lemma each.
`Least` replaces an induction: the first id of a set exists because `<` is
well-founded on the naturals.

### `ContractProofs`

`QueueKeepsContract`: `JobQueue` implements `JobContract`. The invariant adds to those
of `JobQueueProofs` that a job which was done and not touched stays done
(`DoneStays`) and that a worker which remembers unfinished parents has seen the work
of a user (`BlockedByUser`). Each action is shown to do to every row one of the
things `RowStep` lists, and each of them is a step of the contract.

`FullChannelIsWoken`: a full channel has a slot whose job is enqueued or started, or
there is a notification. Needs `RunnerInSync`, which says for a job without
notification that its place is what `notify` makes of its row, and
`RunningReleased`: a job that has a slot does not wait for its parents, unless a user
was at work on it or on them. Of a row that waits `notify` makes nothing, so
`RunnerInSync` alone leaves that slot taken.

`ReleaseKept`: if jobs that share a parent have the same parents (`SiblingsAgree`), then
while a waiting job has only parents that are done, some request is still to release
it (`ReleaseUnderWay`): one that did such a parent and has not looked for children
yet, or one whose UPDATE has the job among its rows and was not refused; unless a process
died or a user was at work. The UPDATE can fail, and an UPDATE that fails releases
nothing, so this needs more than that a row becomes done only with such a request
(`DoneReports`) which stays until it has looked (`ReportKept`). Siblings leave their waiting
state together (`WaitTogether`), and an UPDATE has all the siblings of each of its rows
(`KidsComplete`). When one of its rows was written since its snapshot, another UPDATE
released that row with all the siblings: what fails has nothing left to release.
Without the hypothesis the theorem is false, see `lost_join`.

### `JobGraphProofs`

`TypeCorrect`, `OneWorker`, `ParentsAlwaysFirst`, `GraphKeepsContract`, for every
graph, any number of workers of either kind, crashes and buttons. The invariant
relates each transaction to the table: what a worker has written is a child with
finished parents or its own job, of a row that nobody has committed since
(`OwnWrites`); two workers do not lock the same row (`LocksExclude`); what the UPDATE
has still to lock is to be released, or its write will fail (`ToRelease`); and who
performs a job holds its lock, or has committed "started" (`Performs`). All commits
are instances of one lemma (`CommitStep`).

`JoinsKept`: a complete join is released, or a worker is about to do it (`JoinNotLost`), with
the runner, without deaths, retries and users. Hypothesis `SiblingsAgree`: jobs that share
a parent have the same parents, as the graphs of chains and groups have; the run
`lost_join` shows that the theorem is false without it. Then siblings wait together
and an UPDATE has all of them or none (`WaitTogether`, `UpdateWhole`), and a row that
was written since a snapshot was released by another one, with all its siblings
(`StaleReleased`): the UPDATE that fails on it has nothing left to release. When it fails
by a deadlock, the worker that holds the row has the same siblings to release.

`LocksDoNotStop`: while some worker is at work, or a pending job is locked, some worker
can go on (`NeverStuck`), for every graph and any finite number of workers. Were all
blocked, the smallest set of blocked workers that wait only for each other would be
one in which each waits for itself through the others, and the deadlock detection ends
one of them (`CycleExists`).

### `ParallelRunsProofs`

`TypeCorrect`, `LimitRespected`, for any number of instances and any limit. The
invariant (`CountHolds`) says that the count of a heartbeat that works stays true:
the older instances that are active, without those that were overlooked, are at most
`Limit`, whoever made the heartbeat. They never become more, because an instance that becomes active below a
working one is overlooked. The youngest of the instances that work has counted all
the others.

### `TimelineProofs`

`TypeCorrect`, `MovesAreKept`, `ViewNeverFlickers`, `ViewIsCurrent`, for any number of records,
places and operations. The invariant says of each record that is not contested
that all its writes which the server has not handled, sent or in the queue, carry the
place the user wants, and that there is one unless it has arrived (`Wanted`); and of
each read that belongs to a batch that no write of the batch is left and what it has
read is as new as the last of them (`AfterWrites`). That a call number is not used
twice is not needed.
`ViewIsCurrent` says that the view agrees with the database once nothing is under way and
nothing went astray. Versions order the answers by when the server handled the calls: an
answer that no newer one has overtaken holds what the database has, or the answer of
a read or of the write that changed it, with a newer version, is on its way
(`AnswerInv`, `News`). The view follows each record, or an answer that will replace its
items is to come (`FollowInv`). The data set always has the items that are drawn, and
once nothing is under way it has them at the same places, unless something went astray
(`Drawn`): so drawing it again, as `create_completed` does, shows nothing old in the
end. The version at which a record was created, which the model does not keep, is a
witness of the proof (`born`): a record that is removed does not come back.

### Only model-checked

All safety invariants, action properties and refinements of the passing runs are
proved, and of some liveness properties the safety part: that while something is due, what
will do it is there (`ReleaseUnderWay` for `ChildrenReleased`, `JoinNotLost` for
`JoinReleased`, `NeverStuck` for `PendingEnds` and `GraphCompletes`). Left to TLC are the
liveness properties (`PendingSettles`, `ChildrenReleased`, `JoinReleased`, `PendingEnds`, `GraphCompletes`, `ReachesEnd`, `FailureReported`,
`RunsEnd`), because the prover does not deal with fairness and ENABLED, and the runs
that expect a violation, which need one counterexample. Recursive operators
and induction over data are out of its reach too; the specifications declare no such
operators and use recursive functions, about which facts are proved by smallest
counterexamples where a rank is at hand; what they compute is never proved by
evaluating them.

## 6. Plan

Done: all modules above, their runs and proofs. What a further development would
take up, the most important behaviour first:

1. The state of a batch of jobs (`queue_job_batch`), which follows its jobs in the
   transactions of `JobGraph`.
2. Create, update and delete of records by key in the dumpers (`zbsync_odoo`,
   `zbsync_sql`) under the lock on the key.
3. Pure algorithms of the pipelines: ranges and resequencing, merge of record sets,
   interpretation of mapping steps; checked against reference definitions.
4. Trigger methods (patch, unpatch, registry signals); export and import of
   pipelines as a round trip.
5. Refinements: the single channel of `JobQueue` by the root of `Channels`; one
   instance of `ParallelRuns` by `PipelineInstance`.
6. The safety parts of further liveness properties, like `GraphNotStuck` and `ReleaseKept`:
   that a heartbeat can go on with every instance that is not finished (`ReachesEnd`), that
   a pending job has a place in the runner or a notification (`PendingSettles`).

## 7. Not modelled

* `queue_job_batch`, mappers, dumpers, grabbers, trigger methods, export and
  import: see the plan. They are sequential code around the modelled parts, in
  transactions of their own.
* Parsing of the runner's configuration, encoding of arguments and results, mails,
  user interface, access rights, test mode, autovacuum of instances, continuation
  groups.
* JavaScript. By lines of code most of the repository is JavaScript, 71,635 lines
  in 97 files, and nearly all of it belongs to other projects and is shipped with the
  addons: vis-timeline (50,112 lines), showdown and marked (Markdown), mpld3,
  bootstrap-markdown, webcam. What these libraries do is not decided here, and the rest
  are widgets that draw a field and have no calls that could overlap. The
  program's own logic is in Python. `Timeline` models the one widget that keeps
  state beside the server's; a model of a sizeable share of these lines would be a model
  of a drawing library.
