---------------------------- MODULE ContractProofs ----------------------------
(* JobQueue implements JobContract, for any set of jobs and any dependencies. *)
EXTENDS JobQueueProofs

\* A job that was done and that no user touched stays done, or is deleted.
DoneStays ==
    \A j \in Jobs : j \in wasDone /\ touches[j] = 0 => row[j] \in {"done", "none"}

\* A worker that saw a job blocked saw the work of a user on one of its parents.
BlockedByUser ==
    \A r \in Requests : req[r].srv \in Executing /\ req[r].blocked =>
        \E p \in Depends[req[r].job] : touches[p] # 0

ContractInv == DoneStays /\ BlockedByUser

AllInv == TypeInv /\ KidsInv /\ ParentsInv /\ SoloInv /\ ContractInv

OnItsWay == {"pending", "enqueued", "started"}

\* What a step may do to the row of a job.
RowStep(k) ==
    \/ row'[k] = row[k]
    \/ touches'[k] # 0 /\ row[k] # "none"
    \/ /\ row[k] \in OnItsWay /\ ParentsMet(k)
       /\ row'[k] \in OnItsWay \cup {"failed"} \/ (row'[k] = "done" /\ k \in wasDone')
    \/ /\ row[k] = "wait_dependencies" /\ ParentsMet(k) /\ row'[k] = "pending"
       /\ \/ \E j \in Jobs : touches'[j] # 0
          \/ \E r \in Requests : ReleaseChildren(r) /\ k \in req[r].kids
    \/ /\ row[k] \in OnItsWay /\ row'[k] = "wait_dependencies"
       /\ \E p \in Depends[k] : touches[p] # 0
    \/ row[k] \in {"done", "failed", "cancelled"} /\ row'[k] = "none"

RowsStep ==
    /\ wasDone \subseteq wasDone'
    /\ \A k \in Jobs : touches[k] # 0 => touches'[k] # 0
    /\ \A k \in wasDone' \ wasDone : row'[k] = "done"
    /\ \A k \in Jobs : RowStep(k)

\* Parents that a worker finds unfinished although they were done: a user.
LEMMA BlockedTouched ==
    ASSUME AllInv, NEW j \in Jobs, ParentsMet(j), Unfinished(j) # {}
    PROVE  \E p \in Depends[j] : touches[p] # 0
BY DependsType DEF AllInv, ContractInv, DoneStays, ParentsMet, Unfinished

LEMMA RunnerRows == AllInv /\ RunnerNext => RowsStep
<1> SUFFICES ASSUME AllInv, RunnerNext PROVE RowsStep  OBVIOUS
<1> USE DEF AllInv, TypeInv, TypeOK, RowsStep, RowStep, OnItsWay
<1>1. CASE \/ Listen \/ LoadJobs \/ \E killed \in BOOLEAN : RunnerStops(killed)
           \/ \E j \in Jobs : ProcessNotification(j)
  BY <1>1 DEF Listen, LoadJobs, RunnerStops, ProcessNotification, table, history
<1>2. ASSUME NEW j \in Jobs, NEW r \in Requests, RunJob(j, r) PROVE RowsStep
  <2>1. mem[j] = "queue"  BY <1>2 DEF RunJob
  <2>2. ParentsMet(j)  BY <2>1 DEF ParentsInv, ComesReleased
  <2>3. touches[j] = 0 => row[j] = "pending"  BY <2>1 DEF SoloInv, QueuedPending
  <2> QED  BY <1>2, <2>2, <2>3 DEF RunJob, WriteOne, Write, history
<1>3. ASSUME NEW r \in Requests, SetJobPending(r) PROVE RowsStep
  <2> DEFINE j == req[r].job
  <2>1. j \in Jobs /\ row[j] = "enqueued" => ParentsMet(j)
    BY DEF ParentsInv, ComesReleased
  <2> QED  BY <1>3, <2>1 DEF SetJobPending, WriteOne, Write, history
<1> QED  BY <1>1, <1>2, <1>3 DEF RunnerNext

LEMMA ServerRows == AllInv /\ ServerNext => RowsStep
<1> SUFFICES ASSUME AllInv, NEW r \in Requests,
                    \/ Refuse(r) \/ SetStarted(r) \/ Perform(r)
                    \/ SetDone(r) \/ NothingToDoLost(r) \/ StoreConflict(r)
                    \/ DataConflict(r) \/ RaiseRetryable(r) \/ RaiseIgnoreRetry(r)
                    \/ RaiseError(r) \/ EnqueueWaiting(r) \/ ReleaseChildren(r)
                    \/ ReleaseFails(r) \/ ServerCrash(r)
             PROVE  RowsStep
  BY DEF ServerNext
<1> USE DEF AllInv, TypeInv, TypeOK, RowsStep, RowStep, OnItsWay
<1> DEFINE j == req[r].job
<1>1. req[r].srv \in Executing =>
         /\ j \in Jobs /\ row[j] # "none" /\ ParentsMet(j)
         /\ touches[j] = 0 => row[j] = "started"
  BY DEF ParentsInv, ExecutionsMet, SoloInv, ExecutionStarted
<1>2. CASE \/ Refuse(r) \/ Perform(r) \/ NothingToDoLost(r) \/ EnqueueWaiting(r)
           \/ ReleaseFails(r) \/ ServerCrash(r)
  BY <1>2 DEF Refuse, Perform, NothingToDoLost, EnqueueWaiting, ReleaseFails, ServerCrash,
              table, memory, history
<1>3. CASE SetStarted(r)
  <2>1. j \in Jobs /\ row[j] = "enqueued"
    BY <1>3 DEF SetStarted, Idle
  <2>2. ParentsMet(j)  BY <2>1 DEF ParentsInv, ComesReleased
  <2> QED  BY <1>3, <2>1, <2>2 DEF SetStarted, WriteOne, Write, history
<1>4. CASE SetDone(r)
  BY <1>1, <1>4 DEF SetDone, WriteOne, Write, history, Executing
<1>5. CASE RaiseError(r)
  BY <1>1, <1>5 DEF RaiseError, WriteOne, Write, history, Executing
<1>6. CASE StoreConflict(r) \/ DataConflict(r) \/ RaiseRetryable(r) \/ RaiseIgnoreRetry(r)
  <2>1. PICK count : Postpone(r, count)
    BY <1>6 DEF StoreConflict, DataConflict, RaiseRetryable, RaiseIgnoreRetry
  <2>2. req[r].srv \in Executing /\ UNCHANGED <<wasDone, touches>>
    BY <1>6 DEF StoreConflict, DataConflict, RaiseRetryable, RaiseIgnoreRetry, history,
                Executing
  <2>3. row' = [row EXCEPT ![j] = PendingState(req[r].blocked)]
    BY <2>1 DEF Postpone, WriteOne, Write
  <2>4. req[r].blocked => \E p \in Depends[j] : touches[p] # 0
    BY <2>2 DEF ContractInv, BlockedByUser
  <2> QED  BY <1>1, <2>2, <2>3, <2>4 DEF PendingState
<1>7. CASE ReleaseChildren(r)
  <2>1. \A c \in req[r].kids : c \in Jobs /\ row[c] = "wait_dependencies" /\ ParentsMet(c)
    BY <1>7, ReleasedWait DEF ParentsInv, KidsMet, ReleaseChildren
  <2>2. row' = [k \in Jobs |-> IF k \in req[r].kids THEN "pending" ELSE row[k]]
        /\ UNCHANGED <<wasDone, touches>>
    BY <1>7 DEF ReleaseChildren, Write, history
  <2> QED  BY <1>7, <2>1, <2>2
<1> QED  BY <1>2, <1>3, <1>4, <1>5, <1>6, <1>7

LEMMA UserRows == AllInv /\ UserNext => RowsStep
<1> SUFFICES ASSUME AllInv, NEW j \in Jobs,
                    \/ ButtonDone(j) \/ ButtonCancelled(j) \/ Requeue(j)
                    \/ RequeueStuckJob(j) \/ Autovacuum(j)
             PROVE  RowsStep
  BY DEF UserNext
<1> USE DEF AllInv, TypeInv, TypeOK, RowsStep, RowStep, OnItsWay
<1>1. Touch(j) => /\ touches'[j] # 0
                  /\ \A k \in Jobs \ {j} : touches'[k] = touches[k]
                  /\ \A k \in Jobs : touches[k] # 0 => touches'[k] # 0
  <2>1. touches[j] \in Nat /\ touches[j] + 1 # 0  OBVIOUS
  <2> QED  BY <2>1 DEF Touch
<1>2. CASE ButtonDone(j)
  <2> DEFINE rel == Released(j)
  <2>1. \A c \in rel : c \in Jobs /\ row[c] = "wait_dependencies" /\ ParentsMet(c)
    BY UnblockedMet DEF Released, ParentsInv
  <2>2. /\ row[j] # "none" /\ Touch(j)
        /\ row' = [k \in Jobs |-> IF k = j THEN "done"
                                  ELSE IF k \in rel THEN "pending" ELSE row[k]]
        /\ wasDone' = wasDone \cup {j}
    BY <1>2 DEF ButtonDone, Write
  <2> HIDE DEF rel
  <2> QED  BY <1>1, <2>1, <2>2
<1>3. CASE ButtonCancelled(j)
  BY <1>1, <1>3 DEF ButtonCancelled, WriteOne, Write
<1>4. CASE Requeue(j)
  BY <1>1, <1>4 DEF Requeue, SetPending, WriteOne, Write
<1>5. CASE RequeueStuckJob(j)
  <2>1. row[j] = "enqueued" /\ UNCHANGED <<touches, wasDone>>
        /\ row' = [row EXCEPT ![j] = PendingState(Unfinished(j) # {})]
    BY <1>5 DEF RequeueStuckJob, SetPending, WriteOne, Write
  <2>2. ParentsMet(j)  BY <2>1 DEF ParentsInv, ComesReleased
  <2>3. Unfinished(j) # {} => \E p \in Depends[j] : touches[p] # 0
    BY <2>2, BlockedTouched
  <2> QED  BY <2>1, <2>2, <2>3 DEF PendingState
<1>6. CASE Autovacuum(j)
  <2>1. row[j] # "wait_dependencies"  BY <1>6 DEF Autovacuum, KidsInv, WaitingNotClosed
  <2>2. touches[j] = 0 => row[j] \in {"done", "failed"}
    BY <1>6 DEF Autovacuum, SoloInv, ClosedOver
  <2> QED  BY <1>6, <2>1, <2>2 DEF Autovacuum, history
<1> QED  BY <1>2, <1>3, <1>4, <1>5, <1>6

LEMMA RowsStutter == AllInv /\ UNCHANGED vars => RowsStep
BY DEF RowsStep, RowStep, vars, table, history

LEMMA ContractStep ==
    ASSUME AllInv, RowsStep, ExecutionsStep PROVE ContractInv'
<1>1. DoneStays'
  <2> SUFFICES ASSUME NEW k \in Jobs, k \in wasDone', touches'[k] = 0
               PROVE  row'[k] \in {"done", "none"}
    BY DEF DoneStays
  <2>1. touches[k] = 0  BY DEF RowsStep
  <2>2. CASE k \in wasDone
    <3>1. row[k] \in {"done", "none"}  BY <2>1, <2>2 DEF AllInv, ContractInv, DoneStays
    <3>2. RowStep(k)  BY DEF RowsStep
    <3> QED  BY <3>1, <3>2 DEF RowStep, OnItsWay
  <2>3. CASE k \notin wasDone  BY <2>3 DEF RowsStep
  <2> QED  BY <2>2, <2>3
<1>2. ASSUME NEW q \in Requests, req'[q].srv \in Executing, req'[q].blocked
      PROVE  \E p \in Depends[req'[q].job] : touches'[p] # 0
  <2>1. req[q].job \in Jobs /\ req'[q].job = req[q].job
    <3>1. SetStarted(q) => req[q].job \in Jobs
      BY DEF SetStarted, AllInv, TypeInv, TypeOK, Idle
    <3>2. req[q].srv \in Executing => req[q].job \in Jobs
      BY DEF AllInv, SoloInv, ExecutionStarted
    <3> QED  BY <1>2, <3>1, <3>2 DEF ExecutionsStep
  <2>2. \E p \in Depends[req[q].job] : touches[p] # 0
    <3>1. CASE req[q].srv \in Executing /\ req'[q].blocked = req[q].blocked
      BY <1>2, <3>1 DEF AllInv, ContractInv, BlockedByUser
    <3>2. CASE SetStarted(q)
      <4> DEFINE j == req[q].job
      <4>1. row[j] = "enqueued"  BY <3>2 DEF SetStarted
      <4>2. ParentsMet(j)  BY <2>1, <4>1 DEF AllInv, ParentsInv, ComesReleased
      <4>3. req'[q].blocked = (Unfinished(j) # {})
        <5>1. Marked({j}) \in [Requests -> RequestType]
          BY MarkedType DEF AllInv, TypeInv, TypeOK
        <5>2. Marked({j})[q] \in RequestType  BY <5>1
        <5>3. req'[q] = [Marked({j})[q] EXCEPT !.srv = "started",
                            !.blocked = Unfinished(j) # {}, !.closed = j \in closed,
                            !.tries = retry[j] + 1]
          BY <3>2, <5>1 DEF SetStarted
        <5> QED  BY <5>2, <5>3 DEF RequestType
      <4> QED  BY <1>2, <2>1, <4>2, <4>3, BlockedTouched
    <3> QED  BY <1>2, <3>1, <3>2 DEF ExecutionsStep
  <2> QED  BY <2>1, <2>2, DependsType DEF RowsStep
<1>3. BlockedByUser'  BY <1>2 DEF BlockedByUser
<1> QED  BY <1>1, <1>3 DEF ContractInv

\* Each step of the rows is a step of the contract.
LEMMA RowsContract ==
    ASSUME AllInv, AllInv', RowsStep PROVE Contract!Next
<1>1. \A j \in Jobs : touches[j] \in Nat /\ touches'[j] \in Nat
  BY DEF AllInv, TypeInv, TypeOK
<1>2. \A j \in Jobs : (touches[j] > 0 <=> touches[j] # 0) /\ (touches'[j] > 0 <=> touches'[j] # 0)
  BY <1>1
<1>3. wasDone \subseteq Jobs /\ wasDone' \subseteq Jobs  BY DEF AllInv, TypeInv, TypeOK
<1>4. {j \in Jobs : touches[j] > 0} \subseteq {j \in Jobs : touches'[j] > 0}
  BY <1>2 DEF RowsStep
<1>5. \A j \in wasDone' \ wasDone : [k \in Jobs |-> ContractState(row'[k])][j] = "done"
  BY <1>3 DEF RowsStep, ContractState
<1>6. ASSUME NEW j \in Jobs, RowStep(j)
      PROVE  \/ Contract!Keep(j) \/ Contract!Release(j) \/ Contract!Complete(j)
             \/ Contract!Fail(j) \/ Contract!Block(j) \/ Contract!Forget(j)
             \/ Contract!Interfere(j)
  <2> DEFINE job == [k \in Jobs |-> ContractState(row[k])]
             after == [k \in Jobs |-> ContractState(row'[k])]
  <2>1. row[j] \in RowStates \cup {"none"} /\ row'[j] \in RowStates \cup {"none"}
    BY DEF AllInv, TypeInv, TypeOK
  <2>2. ParentsMet(j) => Contract!Preceded(j)
    BY DependsType DEF ParentsMet, Contract!Preceded, ContractState
  <2>3. CASE row'[j] = row[j]
    BY <2>3 DEF Contract!Keep
  <2>4. CASE touches'[j] # 0 /\ row[j] # "none"
    BY <1>2, <2>1, <2>4 DEF Contract!Interfere, ContractState, RowStates
  <2>5. CASE /\ row[j] \in OnItsWay /\ ParentsMet(j)
             /\ row'[j] \in OnItsWay \cup {"failed"} \/ (row'[j] = "done" /\ j \in wasDone')
    BY <2>2, <2>5 DEF OnItsWay, Contract!Open, Contract!Release, Contract!Fail,
                      Contract!Complete, ContractState
  <2>6. CASE /\ row[j] \in OnItsWay /\ row'[j] = "wait_dependencies"
             /\ \E p \in Depends[j] : touches[p] # 0
    <3>1. PICK p \in Depends[j] : touches[p] # 0  BY <2>6
    <3>2. p \in {k \in Jobs : touches[k] > 0}  BY <1>2, <3>1, DependsType
    <3> QED  BY <2>6, <3>2 DEF OnItsWay, Contract!Block, ContractState
  <2>7. CASE row[j] \in {"done", "failed", "cancelled"} /\ row'[j] = "none"
    BY <2>7 DEF Contract!Forget, ContractState
  <2>8. CASE row[j] = "wait_dependencies" /\ ParentsMet(j) /\ row'[j] = "pending"
    BY <2>2, <2>8 DEF Contract!Open, Contract!Release, ContractState
  <2> QED  BY <1>6, <2>3, <2>4, <2>5, <2>6, <2>7, <2>8 DEF RowStep, OnItsWay
<1> QED  BY <1>4, <1>5, <1>6 DEF RowsStep, Contract!Next

LEMMA AllStep == AllInv /\ [Next]_vars => AllInv' /\ RowsStep
<1> SUFFICES ASSUME AllInv, [Next]_vars PROVE AllInv' /\ RowsStep  OBVIOUS
<1>1. TypeInv'  BY RunnerType, ServerType, UserType, TypeStutter DEF Next, AllInv
<1>2. CASE Next
  <2>1. RowsStep  BY <1>2, RunnerRows, ServerRows, UserRows DEF Next
  <2>2. ExecutionsStep  BY <1>2, ExecutionsFrame DEF AllInv
  <2>3. ParentsFrame  BY <1>2, RunnerParents, ServerParents, UserParents DEF Next, AllInv
  <2>4. SoloFrame  BY <1>2, RunnerSolo, ServerSolo, UserSolo DEF Next, AllInv
  <2>8. ReleasesStep  BY <1>2, ReleasesFrame DEF AllInv
  <2>9. KidsInv'  BY KidsStep DEF AllInv
  <2>5. ParentsInv'  BY <2>2, <2>3, <2>8, ParentsStep DEF AllInv
  <2>6. SoloInv'  BY <1>1, <2>2, <2>4, SoloStep DEF AllInv
  <2>7. ContractInv'  BY <2>1, <2>2, ContractStep
  <2> QED  BY <1>1, <2>1, <2>5, <2>6, <2>7, <2>9 DEF AllInv
<1>3. CASE UNCHANGED vars
  <2>1. RowsStep  BY <1>3, RowsStutter
  <2>2. ParentsInv'
    BY <1>3 DEF AllInv, vars, table, memory, history, ParentsInv, ComesReleased, DoneWasDone,
                ExecutionsMet, KidsMet, ParentsMet
  <2>3. SoloInv'
    BY <1>3 DEF AllInv, vars, table, memory, history, SoloInv, QueuedPending,
                ExecutionStarted, ClosedOver, AtMostOneExecution
  <2>5. KidsInv'  BY <1>3, KidsStep DEF AllInv
  <2>4. ContractInv'
    BY <1>3 DEF AllInv, vars, table, memory, history, ContractInv, DoneStays, BlockedByUser
  <2> QED  BY <1>1, <2>1, <2>2, <2>3, <2>4, <2>5 DEF AllInv
<1> QED  BY <1>2, <1>3

LEMMA AllInit == Init => AllInv
<1> SUFFICES ASSUME Init PROVE AllInv  OBVIOUS
<1>1. TypeInv  BY TypeInit
<1>2. ParentsInv
  BY DEF Init, ParentsInv, ComesReleased, DoneWasDone, ExecutionsMet, KidsMet,
         ParentsMet, PendingState, Idle, Executing
<1>3. SoloInv
  BY DEF Init, SoloInv, QueuedPending, ExecutionStarted, ClosedOver, AtMostOneExecution, Idle, Executing
<1>4. ContractInv
  BY DEF Init, ContractInv, DoneStays, BlockedByUser, Idle, Executing
<1>5. KidsInv  BY KidsInit
<1> QED  BY <1>1, <1>2, <1>3, <1>4, <1>5 DEF AllInv

\* The queue keeps its contract, for every graph of jobs: without users a job is
\* released once its parents are done, is completed or fails once, and is never
\* set back, whatever timeouts, late requests, crashes and restarts do.
THEOREM QueueKeepsContract == Spec => ContractKept
<1>1. Init => Contract!Init
  BY DEF Init, Contract!Init, ContractState, PendingState
<1>2. AllInv /\ [Next]_vars => AllInv' /\ [Contract!Next]_(Contract!vars)
  <2> SUFFICES ASSUME AllInv, [Next]_vars PROVE AllInv' /\ Contract!Next
    OBVIOUS
  <2> QED  BY AllStep, RowsContract
<1> QED  BY <1>1, <1>2, AllInit, PTL DEF Spec, ContractKept, Contract!Spec

-----------------------------------------------------------------------------
(* Full channels *)

\* A job that holds a slot does not wait for its parents, unless a user was at work.
RunningReleased ==
    \A j \in Jobs : /\ mem[j] = "running" /\ touches[j] = 0
                    /\ \A p \in Depends[j] : touches[p] = 0
                    => row[j] # "wait_dependencies"

\* A slot is given to a job that was released.
LEMMA RunningFrame ==
    ASSUME AllInv, [Next]_vars, NEW k \in Jobs, mem'[k] = "running"
    PROVE  mem[k] = "running" \/ row'[k] # "wait_dependencies"
<1> USE DEF AllInv, TypeInv, TypeOK
<1>1. CASE UNCHANGED mem  BY <1>1
<1>2. CASE LoadJobs  BY <1>2 DEF LoadJobs, notify, NOT_DONE, Active
<1>3. ASSUME NEW j \in Jobs, ProcessNotification(j)
      PROVE  mem[k] = "running" \/ row'[k] # "wait_dependencies"
  <2>1. mem' = [mem EXCEPT ![j] = notify(row[j], mem[j], eta[j] = "moved")] /\ row' = row
    BY <1>3 DEF ProcessNotification
  <2>2. CASE k = j  BY <2>1, <2>2 DEF notify
  <2> QED  BY <2>1, <2>2
<1>4. ASSUME NEW j \in Jobs, NEW r \in Requests, RunJob(j, r)
      PROVE  mem[k] = "running" \/ row'[k] # "wait_dependencies"
  <2>1. mem' = [mem EXCEPT ![j] = "running"]
        /\ \/ row' = row /\ row[j] = "none"
           \/ row' = [row EXCEPT ![j] = "enqueued"]
    BY <1>4 DEF RunJob, WriteOne, Write
  <2> QED  BY <2>1
<1>5. CASE \E killed \in BOOLEAN : RunnerStops(killed)
  BY <1>5 DEF RunnerStops
<1>6. CASE Listen \/ \E r \in Requests : SetJobPending(r)
  BY <1>1, <1>6 DEF Listen, SetJobPending
<1>7. CASE ServerNext
  BY <1>1, <1>7 DEF ServerNext, Refuse, SetStarted, Perform, SetDone, NothingToDoLost,
        StoreConflict, DataConflict, RaiseRetryable, RaiseIgnoreRetry, RaiseError,
        EnqueueWaiting, ReleaseChildren, ReleaseFails, ServerCrash, Postpone, memory
<1>8. CASE UserNext
  BY <1>1, <1>8 DEF UserNext, ButtonDone, ButtonCancelled, Requeue, RequeueStuckJob,
        SetPending, Autovacuum
<1>9. CASE UNCHANGED vars  BY <1>1, <1>9 DEF vars, memory
<1> QED  BY <1>2, <1>3, <1>4, <1>5, <1>6, <1>7, <1>8, <1>9 DEF Next, RunnerNext

LEMMA RunningStep ==
    ASSUME AllInv, RunningReleased, [Next]_vars PROVE RunningReleased'
<1>1. RowsStep  BY AllStep
<1> SUFFICES ASSUME NEW k \in Jobs, mem'[k] = "running", touches'[k] = 0,
                    \A p \in Depends[k] : touches'[p] = 0,
                    row'[k] = "wait_dependencies"
             PROVE  FALSE
  BY DEF RunningReleased
<1>2. touches[k] = 0 /\ \A p \in Depends[k] : touches[p] = 0
  BY <1>1, DependsType DEF RowsStep
<1>3. mem[k] = "running"  BY RunningFrame
<1>4. row[k] # "wait_dependencies"  BY <1>2, <1>3 DEF RunningReleased
<1>5. RowStep(k)  BY <1>1 DEF RowsStep
<1> QED  BY <1>2, <1>4, <1>5 DEF RowStep, OnItsWay

\* A full channel whose notifications are processed runs a job the table has as
\* enqueued or started, as long as users keep away, for every graph and capacity:
\* the scheduler may sleep without a timeout until that job ends.
THEOREM FullChannelIsWoken == Spec => []FullChannelWakesUp
<1>1. Init => AllInv /\ RunningReleased /\ RunnerInSync
  BY AllInit DEF Init, RunningReleased, RunnerInSync
<1>2. AllInv /\ RunningReleased /\ RunnerInSync /\ [Next]_vars
      => AllInv' /\ RunningReleased' /\ RunnerInSync'
  <2> SUFFICES ASSUME AllInv, RunningReleased, RunnerInSync, [Next]_vars
               PROVE  AllInv' /\ RunningReleased' /\ RunnerInSync'
    OBVIOUS
  <2>1. TypeInv  BY DEF AllInv
  <2>2. RunnerInSync'
    BY <2>1, SyncRunner, SyncServer, SyncUser, SyncFrame DEF Next, vars, table, memory
  <2> QED  BY <2>2, AllStep, RunningStep
<1>3. AllInv /\ RunningReleased /\ RunnerInSync => FullChannelWakesUp
  <2> SUFFICES ASSUME AllInv, RunningReleased, RunnerInSync, runner = "up", notif = {},
                      Capacity > 0, Cardinality(RunningJobs) >= Capacity,
                      \A j \in Jobs : touches[j] = 0
               PROVE  \E j \in RunningJobs : row[j] \in Active
    BY DEF FullChannelWakesUp
  <2>1. RunningJobs # {}
    <3>1. Cardinality({}) = 0  BY FS_EmptySet
    <3>2. CASE RunningJobs = {}  BY <3>1, <3>2, CapacityType
    <3> QED  BY <3>2
  <2>2. PICK j \in Jobs : mem[j] = "running"  BY <2>1 DEF RunningJobs
  <2>3. row[j] # "wait_dependencies"  BY <2>2, DependsType DEF RunningReleased
  <2>4. mem[j] = notify(row[j], mem[j], FALSE)  BY <2>3 DEF RunnerInSync
  <2>5. row[j] \in RowStates \cup {"none"}  BY DEF AllInv, TypeInv, TypeOK
  <2>6. row[j] \in Active
    BY <2>2, <2>3, <2>4, <2>5 DEF notify, RowStates, Active
  <2> QED  BY <2>2, <2>6 DEF RunningJobs
<1> QED  BY <1>1, <1>2, <1>3, PTL DEF Spec
-----------------------------------------------------------------------------
(* The release of children *)

ParentsDone(c) == \A p \in Depends[c] : row[p] = "done"

\* No process has died and no user was at work.
Calm == faults = 0 /\ \A j \in Jobs : touches[j] = 0

\* While a waiting job has only parents that are done, a worker that did one of
\* them is still to look for the children it releases, or has found this one and
\* will not be refused.
ReleaseUnderWay ==
    Calm => \A c \in Jobs : row[c] = "wait_dependencies" /\ ParentsDone(c) =>
        \/ \E r \in Requests : req[r].srv = "done" /\ req[r].job \in Depends[c]
        \/ \E r \in Requests : req[r].srv = "releasing" /\ c \in req[r].kids /\ ~req[r].stale

Siblings(c, d) == Depends[c] \cap Depends[d] # {}

\* Siblings are released by the same transaction, ...
WaitTogether ==
    Calm => \A c, d \in Jobs : Siblings(c, d) /\ row[c] = "wait_dependencies"
                                 => row[d] = "wait_dependencies"

\* ... since each that releases one of them releases all.
KidsComplete ==
    Calm => \A r \in Requests : req[r].srv = "releasing" =>
        \A c \in req[r].kids : /\ req[r].job \in Depends[c]
                               /\ \A d \in Jobs : Siblings(c, d) => d \in req[r].kids

ReleaseInv == WaitTogether /\ KidsComplete /\ ReleaseUnderWay

\* A request that stored "done" and is still to release what it can.
Reports(q) == req[q].srv = "done" \/ (req[q].srv = "releasing" /\ ~req[q].stale)

StillReports(q) ==
    /\ req'[q].srv = req[q].srv /\ req'[q].job = req[q].job
    /\ req'[q].kids = req[q].kids /\ req'[q].stale = req[q].stale

ReleasedBy(q) ==
    \E r \in Requests : ReleaseChildren(r) /\ (r = q \/ req[r].kids \cap Writing(req[q]) # {})

\* Without faults a worker that stored "done" goes on to release the children,
\* unless another one releases some of them.
LEMMA ReportKept ==
    ASSUME AllInv, [Next]_vars, Calm, Calm', NEW q \in Requests, Reports(q)
    PROVE  StillReports(q) \/ EnqueueWaiting(q) \/ ReleasedBy(q)
<1> DEFINE Goal == StillReports(q) \/ EnqueueWaiting(q) \/ ReleasedBy(q)
<1> USE DEF StillReports
<1>a. /\ req \in [Requests -> RequestType] /\ TypeInv
      /\ \A r \in Requests : req[r] # Idle => req[r].job \in Jobs
  BY DEF AllInv, TypeInv, TypeOK
<1>b. faults = 0 /\ faults' = 0
      /\ \A j \in Jobs : touches[j] = 0 /\ touches'[j] = 0 /\ touches[j] + 1 # 0
  BY DEF Calm
\* The rows that q is to write wait, so writes of other rows do not disturb it.
<1>c. \A k \in Writing(req[q]) : k \in Jobs /\ row[k] = "wait_dependencies"
  <2>1. CASE req[q].srv = "done"  BY <2>1 DEF Writing
  <2>2. CASE req[q].srv = "releasing" /\ ~req[q].stale
    BY <1>a, <2>2 DEF Writing, AllInv, KidsInv, KidsWait, RequestType
  <2> QED  BY <2>1, <2>2 DEF Reports
<1>d. ASSUME NEW js, js \cap Writing(req[q]) = {}
      PROVE  Marked(js)[q] = req[q] /\ Marked(js) \in [Requests -> RequestType]
  BY <1>a, <1>d, MarkedType DEF Marked
<1>e. \A r \in Requests : req[r].srv = "performing" => row[req[r].job] = "started"
  BY <1>a, <1>b DEF AllInv, SoloInv, ExecutionStarted, Executing, Idle
<1>1. ASSUME NEW r \in Requests, r # q, NEW js, NEW new, req' = [Marked(js) EXCEPT ![r] = new],
             js \cap Writing(req[q]) = {}
      PROVE  Goal
  BY <1>1, <1>d
<1>2. ASSUME NEW r \in Requests, r # q, NEW new, req' = [req EXCEPT ![r] = new]
      PROVE  Goal
  BY <1>2, <1>a
<1>4. CASE UNCHANGED req  BY <1>4
<1>5. CASE RunnerNext
  <2>1. ASSUME NEW j \in Jobs, NEW r \in Requests, RunJob(j, r) PROVE Goal
    <3> DEFINE sent == [Idle EXCEPT !.job = j, !.client = TRUE, !.srv = "sent"]
    <3>1. req' = [Marked({j}) EXCEPT ![r] = sent] /\ req[r] = Idle /\ mem[j] = "queue"
      BY <2>1 DEF RunJob
    <3> HIDE DEF sent
    <3>2. r # q  BY <3>1 DEF Idle, Reports
    <3>3. row[j] = "pending"  BY <1>b, <3>1 DEF AllInv, SoloInv, QueuedPending
    <3>4. {j} \cap Writing(req[q]) = {}  BY <1>c, <3>3
    <3> QED  BY <1>1, <3>1, <3>2, <3>4
  <2>2. ~\E killed \in BOOLEAN : RunnerStops(killed)  BY <1>b DEF RunnerStops
  <2>3. ASSUME NEW r \in Requests, SetJobPending(r) PROVE Goal
    <3> DEFINE js == IF row[req[r].job] = "enqueued" THEN {req[r].job} ELSE {}
    <3>1. js \cap Writing(req[q]) = {}  BY <1>c
    <3>2. Marked({}) = req  BY <1>a DEF Marked
    <3>3. req' = [Marked(js) EXCEPT ![r] = Left(Marked(js)[r])]
      BY <2>3, <3>2, <1>a, MarkedType DEF SetJobPending
    <3>4. CASE r = q
      <4>1. Marked(js)[q] = req[q] /\ Marked(js) \in [Requests -> RequestType]
        BY <1>d, <3>1
      <4>2. req'[q] = Left(req[q])  BY <3>3, <3>4, <4>1
      <4> QED  BY <4>2, <1>a DEF Left, Reports, RequestType
    <3> HIDE DEF js
    <3> QED  BY <1>1, <3>1, <3>3, <3>4
  <2>4. CASE Listen \/ LoadJobs \/ \E j \in Jobs : ProcessNotification(j)
    BY <1>4, <2>4 DEF Listen, LoadJobs, ProcessNotification
  <2> QED  BY <1>5, <2>1, <2>2, <2>3, <2>4 DEF RunnerNext
<1>6. ASSUME NEW r \in Requests,
             \/ Refuse(r) \/ SetStarted(r) \/ Perform(r)
             \/ SetDone(r) \/ NothingToDoLost(r) \/ StoreConflict(r) \/ DataConflict(r)
             \/ RaiseRetryable(r) \/ RaiseIgnoreRetry(r) \/ RaiseError(r)
             \/ EnqueueWaiting(r) \/ ReleaseChildren(r) \/ ReleaseFails(r) \/ ServerCrash(r)
      PROVE  Goal
  <2> DEFINE j == req[r].job
  <2>1. CASE EnqueueWaiting(r)
    <3>1. CASE r = q  BY <2>1, <3>1
    <3>2. CASE r # q
      <4>1. req'[q] = req[q]  BY <1>a, <2>1, <3>2 DEF EnqueueWaiting
      <4> QED  BY <4>1
    <3> QED  BY <3>1, <3>2
  <2>2. ~ServerCrash(r)  BY <1>b DEF ServerCrash
  <2>3. CASE Refuse(r) \/ NothingToDoLost(r) \/ ReleaseFails(r)
    <3>1. PICK answered : req' = [req EXCEPT ![r] = Ended(req[r], answered)]
      BY <2>3 DEF Refuse, NothingToDoLost, ReleaseFails
    <3>2. r # q  BY <2>3 DEF Refuse, NothingToDoLost, ReleaseFails, Reports
    <3> QED  BY <1>2, <3>1, <3>2
  <2>4. CASE Perform(r)
    <3>1. r # q  BY <2>4 DEF Perform, Reports
    <3> QED  BY <1>a, <2>4, <3>1 DEF Perform
  <2>5. ASSUME NEW js, NEW answered, r # q, js \cap Writing(req[q]) = {},
               req' = [Marked(js) EXCEPT ![r] = Ended(@, answered)]
        PROVE  Goal
    <3>1. req' = [Marked(js) EXCEPT ![r] = Ended(Marked(js)[r], answered)]
      BY <2>5, <1>d
    <3> QED  BY <1>1, <2>5, <3>1
  <2>6. CASE SetStarted(r)
    <3>1. row[j] = "enqueued" /\ r # q  BY <2>6 DEF SetStarted, Reports
    <3>2. {j} \cap Writing(req[q]) = {}  BY <1>c, <3>1
    <3>3. PICK new : new = [Marked({j})[r] EXCEPT !.srv = "started",
                              !.blocked = Unfinished(j) # {}, !.closed = j \in closed,
                              !.tries = retry[j] + 1]
      OBVIOUS
    <3>4. req' = [Marked({j}) EXCEPT ![r] = new]
      BY <1>d, <2>6, <3>2, <3>3 DEF SetStarted
    <3> QED  BY <1>1, <3>1, <3>2, <3>4
  <2>7. CASE SetDone(r)
    <3> DEFINE new == [Idle EXCEPT !.job = j, !.client = req[r].client, !.srv = "done"]
    <3>1. req' = [Marked({j}) EXCEPT ![r] = new] /\ row[j] = "started" /\ r # q
      BY <1>e, <2>7 DEF SetDone, Reports
    <3>2. {j} \cap Writing(req[q]) = {}  BY <1>c, <3>1
    <3> HIDE DEF new
    <3> QED  BY <1>1, <3>1, <3>2
  <2>8. CASE \/ StoreConflict(r) \/ DataConflict(r) \/ RaiseRetryable(r)
             \/ RaiseIgnoreRetry(r) \/ RaiseError(r)
    <3>1. PICK answered : req' = [Marked({j}) EXCEPT ![r] = Ended(@, answered)]
      <4>1. ASSUME NEW count, Postpone(r, count)
            PROVE  req' = [Marked({j}) EXCEPT ![r] = Ended(@, TRUE)]
        BY <4>1 DEF Postpone
      <4>2. CASE RaiseError(r)  BY <4>2 DEF RaiseError
      <4> QED  BY <2>8, <4>1, <4>2
               DEF StoreConflict, DataConflict, RaiseRetryable, RaiseIgnoreRetry
    <3>2. req[r].srv = "performing"
      BY <2>8 DEF StoreConflict, DataConflict, RaiseRetryable, RaiseIgnoreRetry, RaiseError
    <3>3. row[j] = "started" /\ r # q  BY <1>e, <3>2 DEF Reports
    <3>4. {j} \cap Writing(req[q]) = {}  BY <1>c, <3>3
    <3> QED  BY <2>5, <3>1, <3>3, <3>4
  <2>9. CASE ReleaseChildren(r)
    <3>1. CASE r = q \/ req[r].kids \cap Writing(req[q]) # {}  BY <2>9, <3>1 DEF ReleasedBy
    <3>2. CASE r # q /\ req[r].kids \cap Writing(req[q]) = {}
      <4>1. req' = [Marked(req[r].kids) EXCEPT ![r] = Ended(@, TRUE)]
        BY <2>9 DEF ReleaseChildren
      <4> QED  BY <2>5, <3>2, <4>1
    <3> QED  BY <3>1, <3>2
  <2> QED  BY <1>6, <2>1, <2>2, <2>3, <2>4, <2>6, <2>7, <2>8, <2>9
<1>7. ASSUME NEW j \in Jobs,
             \/ ButtonDone(j) \/ ButtonCancelled(j) \/ Requeue(j)
             \/ RequeueStuckJob(j) \/ Autovacuum(j)
      PROVE  Goal
  <2>1. ~Touch(j)  BY <1>b DEF Touch, AllInv, TypeInv, TypeOK
  <2>2. CASE RequeueStuckJob(j)
    <3>1. row[j] = "enqueued" /\ req' = Marked({j})
      BY <2>2 DEF RequeueStuckJob, SetPending
    <3>2. {j} \cap Writing(req[q]) = {}  BY <1>c, <3>1
    <3> QED  BY <1>d, <3>1, <3>2
  <2>3. CASE Autovacuum(j)  BY <1>4, <2>3 DEF Autovacuum
  <2> QED  BY <1>7, <2>1, <2>2, <2>3 DEF ButtonDone, ButtonCancelled, Requeue
<1>8. CASE UNCHANGED vars  BY <1>4, <1>8 DEF vars
<1> QED  BY <1>5, <1>6, <1>7, <1>8 DEF Next, ServerNext, UserNext

\* Without users a job becomes done only by a worker, which then releases its
\* children.
LEMMA DoneReports ==
    ASSUME AllInv, [Next]_vars, NEW p \in Jobs, touches'[p] = 0,
           row[p] # "done", row'[p] = "done"
    PROVE  \E r \in Requests : req'[r].srv = "done" /\ req'[r].job = p
<1> USE DEF AllInv, TypeInv, TypeOK
<1>1. ASSUME NEW r \in Requests, SetDone(r)
      PROVE  \E q \in Requests : req'[q].srv = "done" /\ req'[q].job = p
  <2> DEFINE j == req[r].job
             new == [Idle EXCEPT !.job = j, !.client = req[r].client, !.srv = "done"]
  <2>1. new.srv = "done" /\ new.job = j  BY DEF Idle
  <2>2. row' = [row EXCEPT ![j] = "done"] /\ req' = [Marked({j}) EXCEPT ![r] = new]
    BY <1>1 DEF SetDone, WriteOne, Write
  <2> HIDE DEF new
  <2>3. req'[r] = new  BY <2>2, OtherRequests
  <2>4. p = j  BY <2>2
  <2> QED  BY <2>1, <2>3, <2>4
<1>2. CASE RunnerNext
  <2>1. ASSUME NEW j, NEW s, s # "done", WriteOne(j, s) PROVE FALSE
    BY <2>1 DEF WriteOne, Write
  <2> QED
    BY <1>2, <2>1 DEF RunnerNext, Listen, LoadJobs, ProcessNotification, RunJob,
                      RunnerStops, SetJobPending, table
<1>3. ASSUME NEW r \in Requests,
             \/ Refuse(r) \/ SetStarted(r) \/ Perform(r)
             \/ NothingToDoLost(r) \/ StoreConflict(r) \/ DataConflict(r)
             \/ RaiseRetryable(r) \/ RaiseIgnoreRetry(r) \/ RaiseError(r)
             \/ EnqueueWaiting(r) \/ ReleaseChildren(r) \/ ReleaseFails(r)
             \/ ServerCrash(r)
      PROVE  FALSE
  <2>1. ASSUME NEW j, NEW s, s # "done", WriteOne(j, s) PROVE FALSE
    BY <2>1 DEF WriteOne, Write
  <2>2. CASE \/ Refuse(r) \/ Perform(r) \/ NothingToDoLost(r) \/ EnqueueWaiting(r)
             \/ ReleaseFails(r) \/ ServerCrash(r)
    BY <2>2 DEF Refuse, Perform, NothingToDoLost, EnqueueWaiting, ReleaseFails,
                ServerCrash, table
  <2>3. CASE SetStarted(r) \/ RaiseError(r)
    BY <2>1, <2>3 DEF SetStarted, RaiseError
  <2>4. CASE ReleaseChildren(r)
    <3>1. row'[p] \in {"pending", row[p]}  BY <2>4 DEF ReleaseChildren, Write
    <3> QED  BY <3>1
  <2>5. CASE StoreConflict(r) \/ DataConflict(r) \/ RaiseRetryable(r) \/ RaiseIgnoreRetry(r)
    <3>1. PICK count : Postpone(r, count)
      BY <2>5 DEF StoreConflict, DataConflict, RaiseRetryable, RaiseIgnoreRetry
    <3>2. PendingState(req[r].blocked) # "done"  BY DEF PendingState
    <3> QED  BY <2>1, <3>1, <3>2 DEF Postpone
  <2> QED  BY <1>3, <2>2, <2>3, <2>4, <2>5
<1>4. ASSUME NEW j \in Jobs,
             \/ ButtonDone(j) \/ ButtonCancelled(j) \/ Requeue(j)
             \/ RequeueStuckJob(j) \/ Autovacuum(j)
      PROVE  FALSE
  <2>1. ASSUME NEW s, s # "done", WriteOne(j, s) PROVE FALSE
    BY <2>1 DEF WriteOne, Write
  <2>2. CASE ButtonDone(j)
    <3>1. touches[j] + 1 # 0  OBVIOUS
    <3>2. p # j  BY <2>2, <3>1 DEF ButtonDone, Touch
    <3>3. row'[p] \in {"pending", row[p]}  BY <2>2, <3>2 DEF ButtonDone, Write
    <3> QED  BY <3>3
  <2>3. CASE ButtonCancelled(j)  BY <2>1, <2>3 DEF ButtonCancelled
  <2>4. CASE Requeue(j) \/ RequeueStuckJob(j)
    <3>1. PendingState(Unfinished(j) # {}) # "done"  BY DEF PendingState
    <3> QED  BY <2>1, <2>4, <3>1 DEF Requeue, RequeueStuckJob, SetPending
  <2>5. CASE Autovacuum(j)  BY <2>5 DEF Autovacuum
  <2> QED  BY <1>4, <2>2, <2>3, <2>4, <2>5
<1>5. CASE UNCHANGED vars  BY <1>5 DEF vars, table
<1> QED  BY <1>1, <1>2, <1>3, <1>4, <1>5 DEF Next, ServerNext, UserNext

LEMMA FaultsStay == AllInv /\ [Next]_vars /\ faults # 0 => faults' # 0
<1> SUFFICES ASSUME AllInv, [Next]_vars, faults # 0 PROVE faults' # 0  OBVIOUS
<1>1. faults \in Nat /\ faults + 1 # 0  BY DEF AllInv, TypeInv, TypeOK
<1>2. faults' = faults \/ faults' = faults + 1
  BY DEF vars, history, memory, table, Next, RunnerNext, Listen, LoadJobs,
         ProcessNotification, RunJob, RunnerStops, SetJobPending, ServerNext, Refuse,
         SetStarted, Perform, SetDone, NothingToDoLost, StoreConflict, DataConflict,
         RaiseRetryable, RaiseIgnoreRetry, RaiseError, EnqueueWaiting, ReleaseChildren,
         ReleaseFails, ServerCrash, UserNext, ButtonDone, ButtonCancelled, Requeue, RequeueStuckJob,
         SetPending, Autovacuum
<1> QED  BY <1>1, <1>2

\* What a calm step may do to a waiting job, and which one begins to wait.
LEMMA WaitEnds ==
    ASSUME AllInv, [Next]_vars, Calm', NEW c \in Jobs
    PROVE  /\ Calm
           /\ row'[c] = "wait_dependencies" => row[c] = "wait_dependencies"
           /\ row[c] = "wait_dependencies" /\ row'[c] # "wait_dependencies" =>
                  \E r \in Requests : ReleaseChildren(r) /\ c \in req[r].kids
<1>1. RowsStep  BY AllStep
<1>2. Calm
  <2>1. \A j \in Jobs : touches[j] = 0  BY <1>1 DEF RowsStep, Calm
  <2>2. faults = 0  BY FaultsStay DEF Calm
  <2> QED  BY <2>1, <2>2 DEF Calm
<1>3. \A j \in Jobs : touches[j] = 0 /\ touches'[j] = 0  BY <1>2 DEF Calm
<1>4. Depends[c] \subseteq Jobs  BY DependsType
<1>5. RowStep(c)  BY <1>1 DEF RowsStep
<1> QED  BY <1>2, <1>3, <1>4, <1>5 DEF RowStep, OnItsWay

LEMMA ChildrenWritten ==
    ASSUME NEW r \in Requests, ReleaseChildren(r), NEW c \in Jobs, c \in req[r].kids
    PROVE  row'[c] = "pending"
BY DEF ReleaseChildren, Write

LEMMA WaitTogetherStep ==
    ASSUME SiblingsAgree, AllInv, ReleaseInv, [Next]_vars PROVE WaitTogether'
<1> SUFFICES ASSUME Calm', NEW c \in Jobs, NEW d \in Jobs, Siblings(c, d),
                    row'[c] = "wait_dependencies", row'[d] # "wait_dependencies"
             PROVE  FALSE
  BY DEF WaitTogether, Siblings
<1>1. Calm /\ row[c] = "wait_dependencies"  BY WaitEnds
<1>2. row[d] = "wait_dependencies"  BY <1>1 DEF ReleaseInv, WaitTogether
<1>3. PICK r \in Requests : ReleaseChildren(r) /\ d \in req[r].kids  BY <1>2, WaitEnds
<1>4. req[r].srv = "releasing" /\ Siblings(d, c)  BY <1>3 DEF ReleaseChildren, Siblings
<1>5. c \in req[r].kids  BY <1>1, <1>3, <1>4 DEF ReleaseInv, KidsComplete
<1> QED  BY <1>3, <1>5, ChildrenWritten

LEMMA KidsCompleteStep ==
    ASSUME SiblingsAgree, AllInv, ReleaseInv, [Next]_vars PROVE KidsComplete'
<1> SUFFICES ASSUME Calm', NEW q \in Requests, req'[q].srv = "releasing",
                    NEW c \in req'[q].kids
             PROVE  /\ req'[q].job \in Depends[c]
                    /\ \A d \in Jobs : Siblings(c, d) => d \in req'[q].kids
  BY DEF KidsComplete, Siblings
<1>1. TypeInv /\ req' \in [Requests -> RequestType]
  BY AllStep DEF AllInv, TypeInv, TypeOK
<1>2. c \in Jobs  BY <1>1 DEF RequestType
<1>3. Calm  BY <1>2, WaitEnds
<1>4. CASE EnqueueWaiting(q)
  <2>1. req'[q].kids = Released(req[q].job) /\ req'[q].job = req[q].job
    BY <1>1, <1>4, KidsFound
  <2>2. row[c] = "wait_dependencies" /\ req[q].job \in Depends[c] /\ Unfinished(c) = {}
    BY <2>1 DEF Released
  <2>3. ASSUME NEW d \in Jobs, Siblings(c, d) PROVE d \in req'[q].kids
    <3>1. Depends[d] = Depends[c]  BY <1>2, <2>3 DEF SiblingsAgree, Siblings
    <3>2. row[d] = "wait_dependencies"
      BY <1>2, <1>3, <2>2, <2>3 DEF ReleaseInv, WaitTogether
    <3> QED  BY <2>1, <2>2, <3>1, <3>2 DEF Released, Unfinished
  <2> QED  BY <2>1, <2>2, <2>3
<1>5. CASE req[q].srv = "releasing" /\ req'[q].job = req[q].job /\ req'[q].kids = req[q].kids
  BY <1>3, <1>5 DEF ReleaseInv, KidsComplete
<1>6. CASE Next
  <2>1. EnqueueWaiting(q) \/ KidsKept(q)  BY <1>1, <1>6, ReleasesFrame DEF ReleasesStep
  <2> QED  BY <1>4, <1>5, <2>1 DEF KidsKept
<1> QED  BY <1>5, <1>6 DEF vars

LEMMA ReleaseStep ==
    ASSUME SiblingsAgree, AllInv, ReleaseInv, [Next]_vars PROVE ReleaseUnderWay'
<1> SUFFICES ASSUME Calm', NEW c \in Jobs, row'[c] = "wait_dependencies",
                    \A p \in Depends[c] : row'[p] = "done"
             PROVE  \/ \E r \in Requests : req'[r].srv = "done" /\ req'[r].job \in Depends[c]
                    \/ \E r \in Requests : /\ req'[r].srv = "releasing" /\ c \in req'[r].kids
                                           /\ ~req'[r].stale
  BY DEF ReleaseUnderWay, ParentsDone
<1>1. Calm /\ row[c] = "wait_dependencies"  BY WaitEnds
<1>2. Depends[c] \subseteq Jobs /\ \A j \in Jobs : touches'[j] = 0  BY DependsType DEF Calm
<1>3. CASE \E p \in Depends[c] : row[p] # "done"
  <2>1. PICK p \in Depends[c] : row[p] # "done"  BY <1>3
  <2>2. \E r \in Requests : req'[r].srv = "done" /\ req'[r].job = p
    BY <1>2, <2>1, DoneReports
  <2> QED  BY <2>1, <2>2
<1>4. ASSUME \A p \in Depends[c] : row[p] = "done", NEW r \in Requests,
             req[r].srv = "done", req[r].job \in Depends[c], EnqueueWaiting(r)
      PROVE  req'[r].srv = "releasing" /\ c \in req'[r].kids /\ ~req'[r].stale
  <2> DEFINE j == req[r].job
             rel == IF row[j] = "none" THEN {} ELSE Released(j)
  <2>1. c \in rel  BY <1>1, <1>4 DEF Released, Unfinished
  <2>2. TypeInv /\ req \in [Requests -> RequestType]  BY DEF AllInv, TypeInv, TypeOK
  <2>3. req'[r] = [req[r] EXCEPT !.srv = "releasing", !.kids = rel, !.stale = FALSE]
    BY <1>4, <2>1, <2>2 DEF EnqueueWaiting
  <2> HIDE DEF rel
  <2> QED  BY <2>1, <2>2, <2>3 DEF RequestType
<1>5. ASSUME NEW q \in Requests, req[q].srv = "releasing", c \in req[q].kids, ReleasedBy(q)
      PROVE  FALSE
  <2>1. PICK r \in Requests : ReleaseChildren(r) /\ (r = q \/ req[r].kids \cap req[q].kids # {})
    BY <1>5 DEF ReleasedBy, Writing
  <2>2. CASE r = q  BY <1>5, <2>1, <2>2, ChildrenWritten
  <2>3. CASE req[r].kids \cap req[q].kids # {}
    <3>1. PICK k \in req[r].kids : k \in req[q].kids  BY <2>3
    <3>2. req[q].job \in Depends[k] /\ req[q].job \in Depends[c]
      BY <1>1, <1>5, <3>1 DEF ReleaseInv, KidsComplete
    <3>3. Siblings(k, c)  BY <3>2 DEF Siblings
    <3>4. req[r].srv = "releasing"  BY <2>1 DEF ReleaseChildren
    <3>5. c \in req[r].kids  BY <1>1, <3>1, <3>3, <3>4 DEF ReleaseInv, KidsComplete
    <3> QED  BY <2>1, <3>5, ChildrenWritten
  <2> QED  BY <2>1, <2>2, <2>3
<1>6. CASE \A p \in Depends[c] : row[p] = "done"
  <2>1. \/ \E r \in Requests : req[r].srv = "done" /\ req[r].job \in Depends[c]
        \/ \E r \in Requests : req[r].srv = "releasing" /\ c \in req[r].kids /\ ~req[r].stale
    BY <1>1, <1>6 DEF ReleaseInv, ReleaseUnderWay, ParentsDone
  <2>2. ASSUME NEW r \in Requests, req[r].srv = "done", req[r].job \in Depends[c]
        PROVE  \/ req'[r].srv = "done" /\ req'[r].job \in Depends[c]
               \/ req'[r].srv = "releasing" /\ c \in req'[r].kids /\ ~req'[r].stale
    <3>1. ~ReleasedBy(r)  BY <2>2 DEF ReleasedBy, Writing, ReleaseChildren
    <3>2. StillReports(r) \/ EnqueueWaiting(r)  BY <1>1, <2>2, <3>1, ReportKept DEF Reports
    <3> QED  BY <1>4, <1>6, <2>2, <3>2 DEF StillReports
  <2>3. ASSUME NEW r \in Requests, req[r].srv = "releasing", c \in req[r].kids, ~req[r].stale
        PROVE  req'[r].srv = "releasing" /\ c \in req'[r].kids /\ ~req'[r].stale
    <3>1. ~EnqueueWaiting(r)  BY <2>3 DEF EnqueueWaiting
    <3>2. StillReports(r)  BY <1>1, <1>5, <2>3, <3>1, ReportKept DEF Reports
    <3> QED  BY <2>3, <3>2 DEF StillReports
  <2> QED  BY <2>1, <2>2, <2>3
<1> QED  BY <1>3, <1>6

\* No release is lost, in every graph whose siblings agree on their parents: whichever
\* parent of a job ends last, and however the transactions that release it overlap, fail
\* and are given up, a job whose parents are all done is released or has a worker that
\* is to release it and will not be refused, as long as no process died and no user was
\* at work: an UPDATE that is refused on one row was overtaken by one that writes them
\* all.  With fairness of that worker's steps this is what ChildrenReleased promises.
THEOREM ReleaseKept == SiblingsAgree => (Spec => []ReleaseUnderWay)
<1> SUFFICES ASSUME SiblingsAgree PROVE Spec => []ReleaseUnderWay  OBVIOUS
<1>1. Init => AllInv /\ ReleaseInv
  <2> SUFFICES ASSUME Init PROVE ReleaseInv  BY AllInit
  <2>1. \A c \in Jobs : row[c] = "wait_dependencies" <=> Depends[c] # {}
    BY DEF Init, PendingState
  <2>2. \A j \in Jobs : row[j] # "done"  BY DEF Init, PendingState
  <2>3. \A r \in Requests : req[r].srv = "none"  BY DEF Init, Idle
  <2> QED
    BY <2>1, <2>2, <2>3, DependsType
    DEF ReleaseInv, WaitTogether, KidsComplete, ReleaseUnderWay, ParentsDone, Siblings
<1>2. AllInv /\ ReleaseInv /\ [Next]_vars => AllInv' /\ ReleaseInv'
  BY AllStep, WaitTogetherStep, KidsCompleteStep, ReleaseStep DEF ReleaseInv
<1>3. ReleaseInv => ReleaseUnderWay  BY DEF ReleaseInv
<1> QED  BY <1>1, <1>2, <1>3, PTL DEF Spec
=============================================================================
