-------------------------- MODULE PipelineInstance --------------------------
(***************************************************************************)
(* One run of a zbsync pipeline (zbs.instance): its lines, the batches of  *)
(* each line, and the heartbeats that drive it.  A heartbeat comes from a  *)
(* queue job of the cron, from the request that created the instance or    *)
(* from a button; several can be under way, and an advisory lock, held by  *)
(* the transaction of the caller, lets one of them work.  It works in      *)
(* transactions of its own: one that prepares the current line, one per    *)
(* batch, one that goes to the next line.  Buttons first make the line     *)
(* current, without the lock.  Their heartbeats then are like all others:  *)
(* the flags of _get_ui_context are looked up in the environments of       *)
(* new_env, whose context is empty.                                        *)
(*                                                                         *)
(* Short transactions are one step.  The transaction of a batch, as long   *)
(* as its worker runs, is two: the one that starts the worker and the one  *)
(* that commits; PostgreSQL refuses to commit when a row the transaction   *)
(* writes was written or deleted in between.                               *)
(***************************************************************************)
EXTENDS Naturals

CONSTANTS
    N,           \* number of lines; line 1 is zbs.start, line N is zbs.stop
    MaxBatches,  \* most batches of a line (bound)
    Batched,     \* lines with a batchsize
    Refused,     \* lines whose condition evaluates to False
    Continue,    \* lines with continue_immediately
    Heartbeats,  \* heartbeats that can be under way at the same time (bound)
    MaxTouches,  \* bound on the operations of users
    MaxFaults    \* bound on crashes, serialization errors, full pipelines

ASSUME LinesType == N \in Nat /\ N > 1
ASSUME MaxBatchesType == MaxBatches \in Nat /\ MaxBatches > 0
ASSUME FlagsType == Batched \cup Refused \cup Continue \subseteq 1..N
ASSUME BoundsType == MaxTouches \in Nat /\ MaxFaults \in Nat

VARIABLES
    state,      \* state of the instance
    nextLine,   \* next_line_id
    override,   \* prev_line_override_id, 0 when it is not set
    batch,      \* batch[l][b]: state of a batch of a line, "none" when there is no row
    generated,  \* lines with generated_batches
    gen,        \* how often the batches of a line were deleted (row ids are not reused)
    hb,         \* the heartbeats
    runs,       \* history: how often the worker was started on the batch
    touches,    \* history: operations of users
    faults      \* history: faults

row     == <<state, nextLine, override>>
lines   == <<batch, generated, gen>>
history == <<runs, touches, faults>>
vars    == <<row, lines, hb, history>>

Lines == 1..N
Ids   == 1..MaxBatches
Holding == {"prepare", "batches", "working"}

\* A heartbeat: a job ("queued" until a worker runs it) or the request of a button or
\* of whoever created the instance; the line and the todo batches it has collected;
\* whether the row of the instance was written since its batch was started.
HeartbeatType ==
    [pc : {"idle", "queued", "lock"} \cup Holding,
     kind : {"job", "request"},
     line : Lines, gen : Nat, todo : SUBSET Ids, stale : BOOLEAN]

Off == [pc |-> "idle", kind |-> "job", line |-> 1, gen |-> 0, todo |-> {}, stale |-> FALSE]

TypeOK ==
    /\ state \in {"pending", "running", "success", "failed"}
    /\ nextLine \in Lines
    /\ override \in Lines \cup {0}
    /\ batch \in [Lines -> [Ids -> {"none", "todo", "success", "failed"}]]
    /\ generated \subseteq Lines
    /\ gen \in [Lines -> Nat]
    /\ hb \in [Heartbeats -> HeartbeatType]
    /\ runs \in [Lines -> [Ids -> Nat]]
    /\ touches \in Nat
    /\ faults \in Nat

-----------------------------------------------------------------------------
(* Lines and batches *)

Rows(l)     == {b \in Ids : batch[l][b] # "none"}
In(l, s)    == {b \in Ids : batch[l][b] = s}
Complete(l) == Rows(l) # {} /\ Rows(l) = In(l, "success")

NoBatches == [b \in Ids |-> "none"]

\* InstanceLine._reset_processed
ResetProcessed(l) ==
    /\ batch' = [batch EXCEPT ![l] = NoBatches]
    /\ runs' = [runs EXCEPT ![l] = [b \in Ids |-> 0]]
    /\ generated' = generated \ {l}
    /\ gen' = [gen EXCEPT ![l] = IF Rows(l) = {} THEN @ ELSE @ + 1]

\* _make_batches of the current line: one batch for each batchsize records of
\* the data, at least one; one batch for all the data without a batchsize, which
\* is also how a condition that is False is treated.
Batches(l) ==
    {[b \in Ids |-> IF b <= n THEN "todo" ELSE "none"] :
        n \in IF l \in Batched \ Refused THEN Ids ELSE {1}}

-----------------------------------------------------------------------------
(* Heartbeats *)

Set(h, rec) == hb' = [hb EXCEPT ![h] = rec]

\* RetryableJobError or a serialization error ends the heartbeat: queue_job
\* postpones the job, a request is over.
Retried(h) == IF hb[h].kind = "job" THEN [Off EXCEPT !.pc = "queued"] ELSE Off

\* Mutant: the cron does not look at running instances.
CronHeartbeatPending(h) ==
    /\ hb[h] = Off /\ state = "pending"
    /\ \A g \in Heartbeats : hb[g].pc # "queued"
    /\ Set(h, [Off EXCEPT !.pc = "queued"])
    /\ UNCHANGED <<row, lines, history>>

\* cron_heartbeat: a job with the identity key of the instance, unless there is a
\* pending or enqueued one; a started one does not count.
CronHeartbeat(h) ==
    /\ hb[h] = Off /\ state \in {"pending", "running"}
    /\ \A g \in Heartbeats : hb[g].pc # "queued"
    /\ Set(h, [Off EXCEPT !.pc = "queued"])
    /\ UNCHANGED <<row, lines, history>>

\* queue_job starts the job.
RunJob(h) ==
    /\ hb[h].pc = "queued"
    /\ Set(h, [hb[h] EXCEPT !.pc = "lock"])
    /\ UNCHANGED <<row, lines, history>>

\* Mutant: there is no lock.
PgLockIgnored(h) ==
    /\ hb[h].pc = "lock"
    /\ Set(h, [hb[h] EXCEPT !.pc = "prepare"])
    /\ UNCHANGED <<row, lines, history>>

\* pglock: pg_try_advisory_xact_lock, RetryableJobError when it is taken
PgLock(h) ==
    /\ hb[h].pc = "lock"
    /\ Set(h, IF \E g \in Heartbeats : hb[g].pc \in Holding
                THEN Retried(h) ELSE [hb[h] EXCEPT !.pc = "prepare"])
    /\ UNCHANGED <<row, lines, history>>

\* First transaction of heartbeat: the instance is running, whatever it was; the
\* line gets its batches if it has none, and those in todo are collected.
Prepare(h) ==
    LET l == nextLine IN
    /\ hb[h].pc = "prepare"
    /\ state' = "running"
    /\ IF l \in generated THEN UNCHANGED <<batch, generated>>
       ELSE /\ \E made \in Batches(l) : batch' = [batch EXCEPT ![l] = made]
            /\ generated' = generated \cup {l}
    /\ Set(h, [hb[h] EXCEPT !.pc = "batches", !.line = l, !.gen = gen[l],
                           !.todo = {b \in Ids : batch'[l][b] = "todo"}])
    /\ UNCHANGED <<nextLine, override, gen, history>>

\* Too many parallel runs of the pipeline, whoever asks: the transaction is rolled
\* back.
TooManyParallelJobs(h) ==
    /\ hb[h].pc = "prepare" /\ faults < MaxFaults
    /\ Set(h, Retried(h))
    /\ faults' = faults + 1
    /\ UNCHANGED <<row, lines, runs, touches>>

\* The batches a heartbeat has collected are still in the table.
Exists(h) == gen[hb[h].line] = hb[h].gen

First(S) == CHOOSE b \in S : \A c \in S : b <= c

\* Batch.heartbeat: reads the row of the batch, not its state, and runs the worker.
StartBatch(h) ==
    LET l == hb[h].line IN
    /\ hb[h].pc = "batches" /\ hb[h].todo # {} /\ Exists(h)
    /\ Set(h, [hb[h] EXCEPT !.pc = "working", !.stale = FALSE])
    /\ runs' = [runs EXCEPT ![l][First(hb[h].todo)] = @ + 1]
    /\ UNCHANGED <<row, lines, touches, faults>>

\* The row is gone: MissingError, and the job of the heartbeat is failed.
BatchMissing(h) ==
    /\ hb[h].pc = "batches" /\ hb[h].todo # {} /\ ~Exists(h)
    /\ Set(h, Off)
    /\ UNCHANGED <<row, lines, history>>

Done(h, s) ==
    LET b == First(hb[h].todo) IN
    /\ batch' = [batch EXCEPT ![hb[h].line][b] = s]
    /\ Set(h, [hb[h] EXCEPT !.pc = "batches", !.todo = @ \ {b}])

\* zbs.start and zbs.stop write the row of the instance.
Conflict(h) == ~Exists(h) \/ (hb[h].line \in {1, N} /\ hb[h].stale)

\* The worker returns; the worker of the last line is zbs.stop.
BatchSucceeds(h) ==
    /\ hb[h].pc = "working" /\ ~Conflict(h)
    /\ Done(h, "success")
    /\ state' = IF hb[h].line = N THEN "success" ELSE state
    /\ UNCHANGED <<nextLine, override, generated, gen, history>>

\* Mutant: the state of the batch is not one of its selection.
BatchFailsError(h) ==
    /\ hb[h].pc = "working" /\ hb[h].line \notin {1, N} /\ Exists(h)
    /\ Done(h, "error")
    /\ UNCHANGED <<row, generated, gen, history>>

\* The worker raises: _handle_exception, BatchFailed, the next batch is tried.
BatchFails(h) ==
    /\ hb[h].pc = "working" /\ hb[h].line \notin {1, N} /\ Exists(h)
    /\ Done(h, "failed")
    /\ UNCHANGED <<row, generated, gen, history>>

\* The commit, or a flush of the worker, meets a row that was changed or deleted;
\* after a worker that raised, a deleted row is a MissingError, as in BatchMissing.
BatchConflicts(h) ==
    /\ hb[h].pc = "working" /\ Conflict(h)
    /\ \/ Set(h, Retried(h))
       \/ ~Exists(h) /\ Set(h, Off)
    /\ UNCHANGED <<row, lines, history>>

\* A serialization error of the worker's own data.
SerializationFailure(h) ==
    /\ hb[h].pc = "working" /\ faults < MaxFaults
    /\ Set(h, Retried(h))
    /\ faults' = faults + 1
    /\ UNCHANGED <<row, lines, runs, touches>>

\* Where the heartbeat goes after _goto_next_line said whether to continue.
After(h, continue) ==
    Set(h, IF continue THEN [hb[h] EXCEPT !.pc = "prepare"] ELSE Off)

\* Mutant: failed batches count as done.
GotoNextLineFailedToo(h) ==
    LET l == nextLine IN
    /\ hb[h].pc = "batches" /\ hb[h].todo = {}
    /\ IF In(l, "todo") # {} \/ l = N
         THEN UNCHANGED <<row, lines, runs>> /\ After(h, FALSE)
       ELSE /\ nextLine' = l + 1
            /\ ResetProcessed(l + 1)
            /\ UNCHANGED <<state, override>>
            /\ After(h, l \in Continue)
    /\ UNCHANGED <<touches, faults>>

\* Mutant: the state of the instance is left alone when a batch failed.
GotoNextLineSilent(h) ==
    LET l == nextLine IN
    /\ hb[h].pc = "batches" /\ hb[h].todo = {}
    /\ IF In(l, "todo") \cup In(l, "failed") # {} \/ l = N
         THEN UNCHANGED <<row, lines, runs>> /\ After(h, FALSE)
       ELSE /\ nextLine' = l + 1
            /\ ResetProcessed(l + 1)
            /\ UNCHANGED <<state, override>>
            /\ After(h, l \in Continue)
    /\ UNCHANGED <<touches, faults>>

\* Last transaction of heartbeat, about the line that is current by then.
GotoNextLine(h) ==
    LET l == nextLine IN
    /\ hb[h].pc = "batches" /\ hb[h].todo = {}
    /\ IF In(l, "todo") # {}
         THEN UNCHANGED <<row, lines, runs>> /\ After(h, FALSE)
       ELSE IF In(l, "failed") # {}
         THEN /\ state' = "failed"
              /\ UNCHANGED <<nextLine, override, lines, runs>>
              /\ After(h, FALSE)
       ELSE IF l = N
         THEN UNCHANGED <<row, lines, runs>> /\ After(h, FALSE)
       ELSE /\ nextLine' = l + 1
            /\ ResetProcessed(l + 1)
            /\ UNCHANGED <<state, override>>
            /\ After(h, l \in Continue)
    /\ UNCHANGED <<touches, faults>>

\* The process dies or an unexpected error ends the heartbeat: its transactions
\* are rolled back, the lock is released, a job stays started or is failed.
Crash(h) ==
    /\ hb[h].pc \in Holding \cup {"lock"} /\ faults < MaxFaults
    /\ Set(h, Off)
    /\ faults' = faults + 1
    /\ UNCHANGED <<row, lines, runs, touches>>

-----------------------------------------------------------------------------
(* Users *)

\* Every button writes the row of the instance.
Touch(newHb) ==
    /\ touches < MaxTouches
    /\ touches' = touches + 1
    /\ hb' = newHb
    /\ UNCHANGED faults

Stale == [h \in Heartbeats |-> IF hb[h].pc = "working" THEN [hb[h] EXCEPT !.stale = TRUE]
                               ELSE hb[h]]

\* _compute_prev_line
PrevLine == IF override # 0 THEN override ELSE IF nextLine = 1 THEN 1 ELSE nextLine - 1

\* InstanceLine.make_current: zbs.start is stepped over, but it is what is reset.
MakeCurrent(l) ==
    /\ nextLine' = IF l = 1 THEN 2 ELSE l
    /\ ResetProcessed(l)
    /\ override' = 0
    /\ state' = "running"

ButtonMakeCurrent(l) == MakeCurrent(l) /\ Touch(Stale)

ByRequest == [Off EXCEPT !.pc = "lock", !.kind = "request"]

\* heartbeat_ui: make_current, commit, heartbeat
HeartbeatUi(h) ==
    /\ hb[h] = Off
    /\ MakeCurrent(nextLine)
    /\ Touch([Stale EXCEPT ![h] = ByRequest])

\* replay, the same with the previous line
Replay(h) ==
    /\ hb[h] = Off
    /\ MakeCurrent(PrevLine)
    /\ Touch([Stale EXCEPT ![h] = ByRequest])

Abort ==
    /\ state \in {"pending", "running"}
    /\ state' = "failed"
    /\ Touch(Stale)
    /\ UNCHANGED <<nextLine, override, lines, runs>>

Retry ==
    /\ state \in {"success", "failed"}
    /\ state' = "running"
    /\ Touch(Stale)
    /\ UNCHANGED <<nextLine, override, lines, runs>>

GotoEnd ==
    /\ override' = nextLine
    /\ nextLine' = N
    /\ Touch(Stale)
    /\ UNCHANGED <<state, lines, runs>>

-----------------------------------------------------------------------------
\* zbs.pipeline.start has created the instance and committed; _start calls a
\* heartbeat at once when line 1 continues immediately, not every caller does.
Init ==
    /\ state = "pending"
    /\ nextLine = 1
    /\ override = 0
    /\ batch = [l \in Lines |-> NoBatches]
    /\ generated = {}
    /\ gen = [l \in Lines |-> 0]
    /\ hb \in {[h \in Heartbeats |-> IF h \in S THEN ByRequest ELSE Off] :
               S \in {{}} \cup {{h} : h \in IF 1 \in Continue THEN Heartbeats ELSE {}}}
    /\ runs = [l \in Lines |-> [b \in Ids |-> 0]]
    /\ touches = 0
    /\ faults = 0

\* What a heartbeat does when nothing goes wrong around it.
Work(h) ==
    \/ RunJob(h) \/ PgLock(h) \/ Prepare(h)
    \/ StartBatch(h) \/ BatchMissing(h)
    \/ BatchSucceeds(h) \/ BatchFails(h) \/ BatchConflicts(h)
    \/ GotoNextLine(h)

HeartbeatNext ==
    \E h \in Heartbeats :
        \/ CronHeartbeat(h) \/ Work(h)
        \/ TooManyParallelJobs(h) \/ SerializationFailure(h) \/ Crash(h)

UserNext ==
    \/ \E l \in Lines : ButtonMakeCurrent(l)
    \/ \E h \in Heartbeats : HeartbeatUi(h) \/ Replay(h)
    \/ Abort \/ Retry \/ GotoEnd

Next == HeartbeatNext \/ UserNext

Spec == Init /\ [][Next]_vars

\* The cron runs every minute, and what is under way goes on.
Fairness ==
    /\ WF_vars(\E h \in Heartbeats : CronHeartbeat(h))
    /\ \A h \in Heartbeats : WF_vars(Work(h))

FairSpec == Spec /\ Fairness

-----------------------------------------------------------------------------
(* Properties *)

\* Data flows through complete lines only: as long as no user interferes, a line
\* has batches only when every line before it has, and all of them succeeded;
\* crashes, lock conflicts and overlapping heartbeats do not let a line start
\* from a part of the output of its predecessor.
LinesInOrder ==
    touches = 0 => \A l \in Lines : Rows(l) # {} => \A k \in 1..(l - 1) : Complete(k)

\* An instance is marked as a success only with its last line: as long as no user
\* interferes, a success has no batch that is left or has failed.
SuccessIsComplete ==
    touches = 0 /\ state = "success" => \A l \in Lines : Complete(l)

\* The worker of a batch is started once, plus once per crash or serialization
\* error and per user who wrote the instance meanwhile: no heartbeat that waited
\* for another one repeats its work.
RunOnce ==
    \A l \in Lines, b \in Ids : runs[l][b] <= 1 + faults + touches

\* A started instance reaches its end or fails, whatever heartbeat was lost.
ReachesEnd == <>(Complete(N) \/ state = "failed")

\* A failed batch is eventually reported by the state of the instance, also when
\* the heartbeat that met it died before it could.
FailureReported == \A l \in Lines : In(l, "failed") # {} ~> state = "failed"

\* Only a line with batches that all succeeded is passed by a heartbeat.
PassedLinesDone ==
    [][nextLine' = nextLine + 1 /\ touches' = touches => Complete(nextLine)]_vars
=============================================================================
