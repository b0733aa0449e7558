---------------------------- MODULE ParallelRuns ----------------------------
(***************************************************************************)
(* The instances of one zbsync pipeline side by side, and the limit of     *)
(* parallel runs.  The first transaction of every heartbeat counts the     *)
(* older instances that have not ended, and the heartbeat is postponed     *)
(* when there are too many.  Ids are given when an instance is created and *)
(* instances are seen when they are committed, which may be in another     *)
(* order.  The flag with which a button asks to be let past the limit does *)
(* not reach the count, which is made in an environment of new_env.        *)
(* Module PipelineInstance has what one instance does, its lines and       *)
(* batches, and its overlapping heartbeats.                                *)
(*                                                                         *)
(* The first transaction is one step: what it counts is the table at its   *)
(* begin, and what it writes, "running", makes no difference to what       *)
(* others count unless the instance had ended.  So are the others of a     *)
(* heartbeat, the batches of a line and _goto_next_line.  zbs.start, which *)
(* a heartbeat passes first, is left out: make_current steps over it, and  *)
(* what counts is that the instance is active.                             *)
(***************************************************************************)
EXTENDS Naturals, FiniteSets

CONSTANTS
    Last,        \* instances 1..Last are created, in the order of their ids (bound)
    Limit,       \* limit_parallel_runs, 0 for no limit
    Lines,       \* number of lines of each instance, after zbs.start
    MaxEvents    \* requests, operations of users and crashes of processes (bound)

ASSUME LastType == Last \in Nat
ASSUME LimitType == Limit \in Nat
ASSUME LinesType == Lines \in [1..Last -> Nat \ {0}]
ASSUME MaxEventsType == MaxEvents \in Nat

VARIABLES
    state,       \* state of each instance: "none", "creating" until its commit, ...
    left,        \* lines that an instance has still to pass
    broken,      \* instances with failed batches
    queued,      \* instances with a pending job for a heartbeat
    asked,       \* instances with a request that is about to call heartbeat
    hb,          \* the heartbeat that holds the lock of an instance
    overlooked,  \* history: instances that a younger one has not counted
    events       \* history: requests, operations of users and crashes

vars == <<state, left, broken, queued, asked, hb, overlooked, events>>

Ids    == 1..Last
Active == {"pending", "running"}
Ended  == {"success", "failed"}

\* "begun": the lock is taken; "working": past the limit.  What a user has done to
\* the instance since then: nothing, written its row, or deleted its batches.
HeartbeatType == [pc : {"off", "begun", "working"}, kind : {"job", "request"},
                  user : {"nothing", "wrote", "deleted"}]

Off         == [pc |-> "off", kind |-> "job", user |-> "nothing"]
Begun(kind) == [pc |-> "begun", kind |-> kind, user |-> "nothing"]

TypeOK ==
    /\ state \in [Ids -> {"none", "creating"} \cup Active \cup Ended]
    /\ left \in [Ids -> Nat]
    /\ broken \subseteq Ids
    /\ queued \subseteq Ids
    /\ asked \subseteq Ids
    /\ hb \in [Ids -> HeartbeatType]
    /\ overlooked \subseteq Ids
    /\ events \in Nat

Event == events < MaxEvents /\ events' = events + 1

\* Mutant: instances that have not begun are not counted.
OlderBegun(i) == {k \in Ids : k < i /\ state[k] = "running"}

\* Mutant: younger instances are counted, too.
OlderAndYounger(i) == {k \in Ids \ {i} : state[k] \in Active}

\* What search_count counts for instance i.
Older(i) == {k \in Ids : k < i /\ state[k] \in Active}

\* Instance i becomes active while a younger one works that has not counted it.
Overlook(i) ==
    overlooked' = IF state[i] \notin Active /\ \E k \in Ids : k > i /\ hb[k].pc = "working"
                    THEN overlooked \cup {i} ELSE overlooked

-----------------------------------------------------------------------------
(* Instances and jobs *)

\* zbs.pipeline.start: the instance has its id, and is not committed.
Start(i) ==
    /\ state[i] = "none" /\ \A k \in 1..(i - 1) : state[k] # "none"
    /\ state' = [state EXCEPT ![i] = "creating"]
    /\ UNCHANGED <<left, broken, queued, asked, hb, overlooked, events>>

\* Committed by a caller that leaves it to the cron, or that runs a heartbeat:
\* _make_instance, the controller of zbsync_receiver.
Created(i) ==
    /\ state[i] = "creating"
    /\ state' = [state EXCEPT ![i] = "pending"]
    /\ \/ UNCHANGED <<asked, events>>
       \/ asked' = asked \cup {i} /\ Event
    /\ Overlook(i)
    /\ UNCHANGED <<left, broken, queued, hb>>

\* cron_heartbeat: a job for each instance that is pending or running, unless one
\* waits already.
CronHeartbeat(i) ==
    /\ state[i] \in Active /\ i \notin queued
    /\ queued' = queued \cup {i}
    /\ UNCHANGED <<state, left, broken, asked, hb, overlooked, events>>

-----------------------------------------------------------------------------
(* Heartbeats *)

TooMany(i) == Limit # 0 /\ Cardinality(Older(i)) > Limit

\* _check_running_count_and_prepare lets a heartbeat pass: the instance is running,
\* whatever it was before.
Pass(kind, i) ==
    /\ ~TooMany(i)
    /\ state' = [state EXCEPT ![i] = "running"]
    /\ hb' = [hb EXCEPT ![i] = [Begun(kind) EXCEPT !.pc = "working"]]
    /\ Overlook(i)

\* queue_job runs the job.  When another heartbeat has the lock, or there are "too
\* many parallel jobs", it is postponed, and stays as it is.
RunJob(i) ==
    /\ i \in queued /\ hb[i].pc = "off"
    /\ Pass("job", i)
    /\ queued' = queued \ {i}
    /\ UNCHANGED <<left, broken, asked, events>>

\* The heartbeat of a request: RetryableJobError when another one has the lock.
PgLock(i) ==
    /\ i \in asked
    /\ asked' = asked \ {i}
    /\ hb' = IF hb[i].pc = "off" THEN [hb EXCEPT ![i] = Begun("request")] ELSE hb
    /\ UNCHANGED <<state, left, broken, queued, overlooked, events>>

\* The heartbeat of a request, or the next one of a heartbeat that goes on.
Prepare(i) ==
    /\ hb[i].pc = "begun"
    /\ Pass(hb[i].kind, i)
    /\ UNCHANGED <<left, broken, queued, asked, events>>

\* RetryableJobError ends a heartbeat: a job is postponed, a request is over.
Retried(i) ==
    /\ queued' = IF hb[i].kind = "job" THEN queued \cup {i} ELSE queued
    /\ hb' = [hb EXCEPT ![i] = Off]

Refused(i) ==
    /\ hb[i].pc = "begun" /\ TooMany(i)
    /\ Retried(i)
    /\ UNCHANGED <<state, left, broken, asked, overlooked, events>>

EndsAs(i, s) ==
    /\ state' = [state EXCEPT ![i] = s]
    /\ hb' = [hb EXCEPT ![i] = Off]

\* A batch of the line fails, or failed before.
BeatFails(i) ==
    /\ left[i] > 0 /\ hb[i].user # "deleted"
    /\ EndsAs(i, "failed")
    /\ broken' = broken \cup {i}
    /\ UNCHANGED <<left, queued>>

\* The line is passed, also when a user has deleted its batches; the heartbeat goes
\* on with the next one or is over.
BeatPasses(i) ==
    /\ left[i] > 1 /\ i \notin broken
    /\ left' = [left EXCEPT ![i] = @ - 1]
    /\ \E next \in {Off, Begun(hb[i].kind)} : hb' = [hb EXCEPT ![i] = next]
    /\ UNCHANGED <<state, broken, queued>>

\* zbs.stop
BeatStops(i) ==
    /\ left[i] = 1 /\ i \notin broken /\ hb[i].user # "deleted"
    /\ EndsAs(i, "success")
    /\ left' = [left EXCEPT ![i] = 0]
    /\ UNCHANGED <<broken, queued>>

\* Nothing to do: every line was passed before, or the batches of the last one are gone.
BeatIdle(i) ==
    /\ left[i] = 0 \/ (left[i] = 1 /\ hb[i].user = "deleted")
    /\ hb' = [hb EXCEPT ![i] = Off]
    /\ UNCHANGED <<state, left, broken, queued>>

\* What a user did is in the way of a batch: zbs.stop writes the row of the instance,
\* all write their own.  A serialization error, or MissingError.
BeatConflicts(i) ==
    /\ \/ hb[i].user = "deleted"
       \/ hb[i].user = "wrote" /\ left[i] = 1
    /\ \/ Retried(i)
       \/ hb[i].user = "deleted" /\ hb' = [hb EXCEPT ![i] = Off] /\ UNCHANGED queued
    /\ UNCHANGED <<state, left, broken>>

\* The batches of the line, and _goto_next_line.
Beat(i) ==
    /\ hb[i].pc = "working"
    /\ BeatFails(i) \/ BeatPasses(i) \/ BeatStops(i) \/ BeatIdle(i) \/ BeatConflicts(i)
    /\ UNCHANGED <<asked, overlooked, events>>

\* The process dies.
Crash(i) ==
    /\ hb[i].pc # "off"
    /\ Event
    /\ hb' = [hb EXCEPT ![i] = Off]
    /\ UNCHANGED <<state, left, broken, queued, asked, overlooked>>

-----------------------------------------------------------------------------
(* Users *)

\* The heartbeat at work is to find out about what a user did.
Disturbed(i, what) ==
    [hb EXCEPT ![i] = IF @.pc # "working" \/ @.user = "deleted" THEN @
                      ELSE [@ EXCEPT !.user = what]]

\* Mutant: a state that the selection does not have.
AbortCancelled(i) ==
    /\ state[i] \in Active
    /\ Event
    /\ state' = [state EXCEPT ![i] = "cancelled"]
    /\ hb' = Disturbed(i, "wrote")
    /\ UNCHANGED <<left, broken, queued, asked, overlooked>>

Abort(i) ==
    /\ state[i] \in Active
    /\ Event
    /\ state' = [state EXCEPT ![i] = "failed"]
    /\ hb' = Disturbed(i, "wrote")
    /\ UNCHANGED <<left, broken, queued, asked, overlooked>>

Retry(i) ==
    /\ state[i] \in Ended
    /\ Event
    /\ state' = [state EXCEPT ![i] = "running"]
    /\ hb' = Disturbed(i, "wrote")
    /\ Overlook(i)
    /\ UNCHANGED <<left, broken, queued, asked>>

\* heartbeat_ui: make_current and its commit, without the lock or the limit; the
\* batches of the line are deleted.  The heartbeat that follows may be refused by both.
HeartbeatUi(i) ==
    /\ state[i] \in Active \cup Ended
    /\ Event
    /\ state' = [state EXCEPT ![i] = "running"]
    /\ left' = [left EXCEPT ![i] = IF @ = 0 THEN 1 ELSE @]
    /\ broken' = broken \ {i}
    /\ hb' = Disturbed(i, "deleted")
    /\ asked' = asked \cup {i}
    /\ Overlook(i)
    /\ UNCHANGED queued

-----------------------------------------------------------------------------
Init ==
    /\ state = [i \in Ids |-> "none"]
    /\ left = Lines
    /\ broken = {}
    /\ queued = {}
    /\ asked = {}
    /\ hb = [i \in Ids |-> Off]
    /\ overlooked = {}
    /\ events = 0

Work(i) == RunJob(i) \/ PgLock(i) \/ Refused(i) \/ Prepare(i) \/ Beat(i)

Next ==
    \E i \in Ids :
        \/ Start(i) \/ Created(i) \/ CronHeartbeat(i) \/ Work(i) \/ Crash(i)
        \/ Abort(i) \/ Retry(i) \/ HeartbeatUi(i)

\* The cron runs every minute, and jobs and heartbeats go on.
Fairness == \A i \in Ids : WF_vars(CronHeartbeat(i)) /\ WF_vars(Work(i))

Spec == Init /\ [][Next]_vars /\ Fairness

-----------------------------------------------------------------------------
(* Properties *)

Working == {i \in Ids : state[i] = "running" /\ hb[i].pc = "working"}

\* At most Limit + 1 instances work at the same time, because each counts the
\* older ones only, without itself, and older instances only become fewer: unless
\* an instance was committed, or set to running again, after a younger one had
\* counted.  Also heartbeats of buttons wait for their turn.
WithinLimit ==
    Limit # 0 => Cardinality(Working \ overlooked) <= Limit + 1

\* An instance with nothing left to do, or with batches that have failed, that a
\* late heartbeat or a user has set to running again.
Revived(k) == state[k] = "running" /\ (left[k] = 0 \/ k \in broken)

\* Postponed instances get their turn and come to an end, in spite of crashes: they
\* do not wait for each other.  Only ended instances that are running again may keep
\* younger ones waiting: a success because no heartbeat ends it, failed ones when
\* each of them is revived by a job that the cron made while it was running.
RunsEnd ==
    \A i \in Ids : state[i] \in Active ~> state[i] \in Ended \/ \E k \in Ids : Revived(k)
=============================================================================
