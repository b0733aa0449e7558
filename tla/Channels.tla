------------------------------ MODULE Channels ------------------------------
(***************************************************************************)
(* The channels of the queue_job runner: a tree in which a job climbs from *)
(* its own channel to the root, each channel letting through as many jobs  *)
(* as it has capacity for, in the order of their priorities, not before    *)
(* their eta, and not faster than its throttle.  The runner's loop         *)
(* processes notifications, visits the channels, children first, and       *)
(* sleeps until a notification or until the wake-up time the channels ask  *)
(* for.  Everything else that writes rows of queue_job is the environment  *)
(* (module JobQueue has it in detail, for a single channel).               *)
(***************************************************************************)
EXTENDS Naturals, FiniteSets, Sequences

CONSTANTS
    Jobs,
    Channels, Root,
    Parent,         \* Parent[c], the root is its own parent
    Path,           \* Path[c]: the channels from c up to the root
    Order,          \* the order in which get_jobs_to_run ends its visits
    Home,           \* Home[j]: the channel of a job
    Key,            \* Key[j]: rank by priority, creation date and sequence
    Capacity,       \* Capacity[c], 0 when it is unlimited
    Sequential,     \* channels with the flag "sequential"
    Throttle,       \* Throttle[c], 0 when there is none
    SelectTimeout,  \* longest sleep of the runner
    Etas,           \* etas of jobs, 0 when there is none (bound)
    MaxTime,        \* bound on the clock
    MaxWrites,      \* bound on writes of rows by others than the runner
    MaxFaults       \* bound on restarts of the runner

ASSUME JobsFinite == IsFiniteSet(Jobs)
ASSUME TreeType ==
    /\ Root \in Channels
    /\ Parent \in [Channels -> Channels]
    /\ Path \in [Channels -> SUBSET Channels]
    /\ Parent[Root] = Root /\ Path[Root] = {Root}
    /\ \A c \in Channels \ {Root} : c \notin Path[Parent[c]] /\ Path[c] = {c} \cup Path[Parent[c]]
ASSUME PathsChains ==
    \A h \in Channels : \A c, d \in Path[h] :
        /\ Path[c] \subseteq Path[h]
        /\ c \in Path[d] \/ d \in Path[c]
        /\ c \in Path[d] /\ d \in Path[c] => c = d
ASSUME OrderType ==
    /\ Order \in Seq(Channels)
    /\ \A c \in Channels : \E i \in 1..Len(Order) : Order[i] = c
    /\ \A i, k \in 1..Len(Order) : Order[i] = Order[k] => i = k
    /\ \A i, k \in 1..Len(Order) : Order[k] = Parent[Order[i]] => i <= k
ASSUME JobsType == Home \in [Jobs -> Channels] /\ Key \in [Jobs -> Nat]
ASSUME ConfigType ==
    /\ Capacity \in [Channels -> Nat] /\ Throttle \in [Channels -> Nat]
    /\ Sequential \subseteq {c \in Channels : Capacity[c] = 1}
ASSUME EtasType == Etas \subseteq Nat
ASSUME BoundsType == {SelectTimeout, MaxTime, MaxWrites, MaxFaults} \subseteq Nat

VARIABLES
    row, eta,   \* the table: state and eta (0: none) of each job
    copy,       \* eta of the runner's copy of each job
    chan,       \* the channels: queue, queue of jobs with an eta, running, failed, pause
    notif,      \* jobs with a notification
    visit,      \* 0: notifications; 1..Len(Order): a channel; Len(Order) + 1: asleep
    clock, now, \* the time, and the time get_jobs_to_run works with
    writes, faults

table  == <<row, eta>>
runner == <<copy, chan, visit, now>>
bounds == <<writes, faults>>
vars   == <<table, notif, runner, clock, bounds>>

Rows == {"wait_dependencies", "pending", "enqueued", "started",
         "done", "cancelled", "failed", "none"}
Active == {"enqueued", "started"}

ChannelType == [queue : SUBSET Jobs, eta : SUBSET Jobs, running : SUBSET Jobs,
                failed : SUBSET Jobs, pause : Nat]

Visited == Order[visit]
Working == visit \in 1..Len(Order)
Asleep  == visit = Len(Order) + 1

TypeOK ==
    /\ row \in [Jobs -> Rows]
    /\ eta \in [Jobs -> Nat]
    /\ copy \in [Jobs -> Nat]
    /\ chan \in [Channels -> ChannelType]
    /\ notif \subseteq Jobs
    /\ visit \in 0..(Len(Order) + 1)
    /\ clock \in Nat /\ now \in Nat
    /\ writes \in Nat /\ faults \in Nat

-----------------------------------------------------------------------------
(* Where jobs are *)

Holds(rec, j) == j \in rec.queue \cup rec.eta \cup rec.running \cup rec.failed

Without(rec, j) ==
    [rec EXCEPT !.queue = @ \ {j}, !.eta = @ \ {j}, !.running = @ \ {j}, !.failed = @ \ {j}]

\* Channel.remove, from the channel of the job to the root
Removed(m, j) ==
    [c \in Channels |-> IF c \in Path[Home[j]] THEN Without(m[c], j) ELSE m[c]]

\* ChannelQueue.add
Added(rec, j, e) ==
    IF e = 0 THEN [rec EXCEPT !.queue = @ \cup {j}] ELSE [rec EXCEPT !.eta = @ \cup {j}]

\* Mutant: parents keep a job that goes back to pending.
set_pendingKeepsParents(m, j, e) ==
    IF j \in m[Home[j]].queue \cup m[Home[j]].eta THEN m
    ELSE [m EXCEPT ![Home[j]] = Added(Without(@, j), j, e)]

\* Channel.set_pending
set_pending(m, j, e) ==
    IF j \in m[Home[j]].queue \cup m[Home[j]].eta THEN m
    ELSE [Removed(m, j) EXCEPT ![Home[j]] = Added(@, j, e)]

\* The recursion to the parent stops at the first channel that runs the job.
set_running(m, j) ==
    [c \in Channels |->
        IF /\ c \in Path[Home[j]]
           /\ \A d \in Path[Home[j]] : c \in Path[d] => j \notin m[d].running
          THEN [Without(m[c], j) EXCEPT !.running = @ \cup {j}] ELSE m[c]]

set_failed(m, j) ==
    IF j \in m[Home[j]].failed THEN m
    ELSE [Removed(m, j) EXCEPT ![Home[j]].failed = @ \cup {j}]

\* ChannelManager.notify with state s and eta e; a changed eta makes a new copy.
\* process_notifications calls remove_job for a row that is gone.
notify(j, s, e) ==
    LET m == IF e # copy[j] THEN Removed(chan, j) ELSE chan IN
    CASE s \in {"done", "cancelled", "none"} -> Removed(m, j)
      [] s = "pending"                       -> set_pending(m, j, e)
      [] s \in Active                        -> set_running(m, j)
      [] s = "failed"                        -> set_failed(m, j)
      [] s = "wait_dependencies"             -> m

-----------------------------------------------------------------------------
(* Which jobs a channel lets through *)

\* Head of a queue without eta, and of one with.
IsFirst(j, S)   == \A k \in S : Key[j] <= Key[k]
IsSoonest(j, S) == \A k \in S : copy[j] < copy[k] \/ (copy[j] = copy[k] /\ Key[j] <= Key[k])

\* Mutant: off by one.
has_capacityOneMore(c) ==
    /\ ~(c \in Sequential /\ chan[c].failed # {})
    /\ Capacity[c] = 0 \/ Cardinality(chan[c].running) <= Capacity[c]

\* Channel.has_capacity
has_capacity(c) ==
    /\ ~(c \in Sequential /\ chan[c].failed # {})
    /\ Capacity[c] = 0 \/ Cardinality(chan[c].running) < Capacity[c]

Paused(c, t) == Throttle[c] > 0 /\ chan[c].pause # 0 /\ t < chan[c].pause

Due(c, t)   == {j \in chan[c].eta : copy[j] <= t}
Later(c, t) == chan[c].eta \ Due(c, t)

\* Mutant: it waits when the job with the eta comes after j.
HeldBackByLater(c, j, t) ==
    c \in Sequential /\ \E k \in Later(c, t) : IsSoonest(k, Later(c, t)) /\ Key[j] < Key[k]

\* A sequential queue waits for its next eta when that job comes before j.
HeldBack(c, j, t) ==
    c \in Sequential /\ \E k \in Later(c, t) : IsSoonest(k, Later(c, t)) /\ Key[k] < Key[j]

\* What ChannelQueue.pop returns.
Poppable(c, t) ==
    LET ready == chan[c].queue \cup Due(c, t)
    IN {j \in ready : IsFirst(j, ready) /\ ~HeldBack(c, j, t)}

-----------------------------------------------------------------------------
(* The runner's loop *)

ProcessNotification(j) ==
    /\ visit = 0
    /\ j \in notif
    /\ notif' = notif \ {j}
    /\ chan' = notify(j, row[j], eta[j])
    /\ copy' = [copy EXCEPT ![j] = eta[j]]
    /\ UNCHANGED <<table, visit, now, clock, bounds>>

\* run_jobs starts when the notifications that were polled are processed; others
\* may have arrived since.
StartRun ==
    /\ visit = 0
    /\ visit' = 1
    /\ now' = clock
    /\ UNCHANGED <<table, notif, copy, chan, clock, bounds>>

\* Mutant: the eta of a due job is made relative instead of cleared.
TakeDueRelative(c) ==
    copy' = [k \in Jobs |-> IF k \in Due(c, now) THEN copy[k] - now ELSE copy[k]]

\* The due jobs of a queue that is popped lose their eta.
TakeDue(c) == copy' = [k \in Jobs |-> IF k \in Due(c, now) THEN 0 ELSE copy[k]]

\* One job of get_jobs_to_run: the parent adds it to its queue, the root gives it
\* to run_jobs, which sets the row to enqueued whatever it is.
Take(c, j) ==
    /\ Working /\ Visited = c
    /\ ~Paused(c, now) /\ has_capacity(c) /\ j \in Poppable(c, now)
    /\ chan' = [d \in Channels |->
          IF d = c
            THEN [chan[c] EXCEPT
                    !.queue = (@ \cup Due(c, now)) \ {j}, !.eta = Later(c, now),
                    !.running = @ \cup {j},
                    !.pause = IF Throttle[c] > 0 THEN now + Throttle[c] ELSE @]
          ELSE IF d = Parent[c] THEN [chan[d] EXCEPT !.queue = @ \cup {j}]
          ELSE chan[d]]
    /\ TakeDue(c)
    /\ visit' = IF Throttle[c] > 0 THEN visit + 1 ELSE visit
    /\ IF c = Root /\ row[j] # "none"
         THEN row' = [row EXCEPT ![j] = "enqueued"] /\ notif' = notif \cup {j}
         ELSE UNCHANGED <<row, notif>>
    /\ UNCHANGED <<eta, now, clock, bounds>>

\* The channel is paused: early return.
Skip(c) ==
    /\ Working /\ Visited = c
    /\ Paused(c, now)
    /\ visit' = visit + 1
    /\ UNCHANGED <<table, notif, copy, chan, now, clock, bounds>>

\* Mutant: the end of a pause is not noted.
LeavePaused(c) ==
    /\ Working /\ Visited = c
    /\ ~Paused(c, now)
    /\ IF has_capacity(c)
         THEN /\ Poppable(c, now) = {}
              /\ chan' = [chan EXCEPT ![c].queue = @ \cup Due(c, now), ![c].eta = Later(c, now)]
              /\ TakeDue(c)
         ELSE UNCHANGED <<chan, copy>>
    /\ visit' = visit + 1
    /\ UNCHANGED <<table, notif, now, clock, bounds>>

\* The channel is unpaused, and is full or has nothing to pop.
Leave(c) ==
    /\ Working /\ Visited = c
    /\ ~Paused(c, now)
    /\ IF has_capacity(c)
         THEN /\ Poppable(c, now) = {}
              /\ chan' = [chan EXCEPT ![c].queue = @ \cup Due(c, now),
                                      ![c].eta = Later(c, now), ![c].pause = 0]
              /\ TakeDue(c)
         ELSE chan' = [chan EXCEPT ![c].pause = 0] /\ UNCHANGED copy
    /\ visit' = visit + 1
    /\ UNCHANGED <<table, notif, now, clock, bounds>>

\* Mutant: the eta of jobs is not looked at.
OwnTimesNoEta(c) == IF chan[c].pause # 0 THEN {chan[c].pause} ELSE {}

OwnTimes(c) == IF chan[c].pause # 0 THEN {chan[c].pause} ELSE {copy[j] : j \in chan[c].eta}

\* get_wakeup_time asks a channel when those between it and the root have capacity
\* and are not paused, and takes the minimum.
WakeupTimes ==
    LET asked == {c \in Channels : \A d \in Path[c] : has_capacity(d)
                                                      /\ (d # c => chan[d].pause = 0)}
    IN UNION {OwnTimes(c) : c \in asked}

\* wait_notification: select() until a notification or the wake-up time, which is
\* replaced by a timeout when there is none
WakeUp ==
    /\ Asleep
    /\ \/ notif # {}
       \/ \E t \in WakeupTimes : t <= clock
       \/ WakeupTimes = {} /\ clock >= now + SelectTimeout
    /\ visit' = 0
    /\ UNCHANGED <<table, notif, copy, chan, now, clock, bounds>>

\* An exception: close_databases forgets the jobs, not the pauses; then
\* initialize_databases notifies the rows that are not done.
Restart ==
    /\ faults < MaxFaults
    /\ faults' = faults + 1
    /\ LET at(c, s) == {j \in Jobs : Home[j] = c /\ row[j] \in s} IN
       chan' = [c \in Channels |->
                  [queue   |-> {j \in at(c, {"pending"}) : eta[j] = 0},
                   eta     |-> {j \in at(c, {"pending"}) : eta[j] # 0},
                   running |-> {j \in Jobs : c \in Path[Home[j]] /\ row[j] \in Active},
                   failed  |-> at(c, {"failed"}),
                   pause   |-> chan[c].pause]]
    /\ copy' = eta
    /\ notif' = {}
    /\ visit' = 0
    /\ UNCHANGED <<table, now, clock, writes>>

-----------------------------------------------------------------------------
(* The environment *)

\* The visits do not look at the clock: a tick during them comes to the same as
\* one after them.
Tick ==
    /\ ~Working /\ clock < MaxTime
    /\ clock' = clock + 1
    /\ UNCHANGED <<table, notif, runner, bounds>>

\* Workers, users and crons write a row; only the runner sets it to enqueued, and
\* only a worker that finds it so sets it to started.
WriteRow(j, s, e) ==
    /\ writes < MaxWrites
    /\ writes' = writes + 1
    /\ row[j] # "none" /\ s # "enqueued"
    /\ s = "started" => row[j] = "enqueued"
    /\ s = "failed" => row[j] = "started"
    /\ e # eta[j] => row[j] = "started" /\ s = "pending" /\ e > clock
    /\ row' = [row EXCEPT ![j] = s]
    /\ eta' = [eta EXCEPT ![j] = e]
    /\ notif' = notif \cup {j}
    /\ UNCHANGED <<runner, clock, faults>>

Init ==
    /\ row = [j \in Jobs |-> "pending"]
    /\ eta \in [Jobs -> Etas]
    /\ copy = eta
    /\ chan = [c \in Channels |->
                 [queue   |-> {j \in Jobs : Home[j] = c /\ eta[j] = 0},
                  eta     |-> {j \in Jobs : Home[j] = c /\ eta[j] # 0},
                  running |-> {}, failed |-> {}, pause |-> 0]]
    /\ notif = {}
    /\ visit = 0
    /\ clock = 1 /\ now = 1
    /\ writes = 0 /\ faults = 0

RunnerNext ==
    \/ \E j \in Jobs : ProcessNotification(j)
    \/ StartRun
    \/ \E c \in Channels : Skip(c) \/ Leave(c) \/ \E j \in Jobs : Take(c, j)
    \/ WakeUp
    \/ Restart

Next ==
    \/ RunnerNext
    \/ Tick
    \/ \E j \in Jobs, s \in Rows, e \in Etas : WriteRow(j, s, e)

Spec == Init /\ [][Next]_vars

-----------------------------------------------------------------------------
(* Properties *)

\* No channel of the tree ever runs more jobs than it has capacity for, after
\* restarts, postponements and notifications that were processed late included.
CapacityKept ==
    \A c \in Channels : Capacity[c] > 0 => Cardinality(chan[c].running) <= Capacity[c]

Disjoint(rec) ==
    /\ rec.queue \cap (rec.eta \cup rec.running \cup rec.failed) = {}
    /\ rec.eta \cap (rec.running \cup rec.failed) = {}
    /\ rec.running \cap rec.failed = {}

\* A job has one place on its way: a channel below the root runs a job exactly
\* when the parent has it, in its queue or running; nothing of it is anywhere else.
OnePlace ==
    \A j \in Jobs, c \in Channels :
        /\ Disjoint(chan[c])
        /\ c \notin Path[Home[j]] => ~Holds(chan[c], j)
        /\ c # Home[j] => j \notin chan[c].eta \cup chan[c].failed
        /\ c # Root /\ c \in Path[Home[j]] =>
              (j \in chan[c].running <=> j \in chan[Parent[c]].queue \cup chan[Parent[c]].running)

Children(c) == {d \in Channels \ {Root} : Parent[d] = c}

\* The jobs a channel would let through first at the present time.
Offer[c \in Channels] ==
    LET ready == chan[c].queue \cup Due(c, clock) \cup UNION {Offer[d] : d \in Children(c)}
    IN IF Paused(c, clock) \/ ~has_capacity(c) THEN {}
       ELSE {j \in ready : IsFirst(j, ready) /\ ~HeldBack(c, j, clock)}

\* The runner does not oversleep: whenever a job could run although nothing was
\* notified, the wake-up time has come.
NoMissedWakeup ==
    Asleep /\ notif = {} /\ Offer[Root] # {} => \E t \in WakeupTimes : t <= clock

\* The runner does not spin: the wake-up time it goes to sleep with is in the future.
NoPerpetualWakeup ==
    Asleep => \A t \in WakeupTimes : t > now

\* A sequential channel takes its jobs in the order of their priorities: it waits
\* for a job with an eta rather than let a later one pass.  With several of them it
\* does not: pop looks at the one with the soonest eta only.
SequentialOrder ==
    [][\A c \in Sequential, j \in Jobs :
          Working /\ j \in chan'[c].running \ chan[c].running
                  /\ Cardinality(chan[c].eta) <= 1 =>
              \A k \in chan[c].queue \cup chan[c].eta : Key[j] <= Key[k]]_vars
=============================================================================
