--------------------------- MODULE JobQueueProofs ---------------------------
(* Proofs about JobQueue, for any set of jobs, requests and dependencies. *)
EXTENDS JobQueue, TLAPS, FiniteSetTheorems

\* perform() counts a try before it runs the job.
TriesCounted == \A r \in Requests : req[r].srv \in Executing => req[r].tries # 0

TypeInv == TypeOK /\ TriesCounted

\* Marking snapshots as stale changes nothing else of a request.
LEMMA MarkedFields ==
    ASSUME req \in [Requests -> RequestType], NEW js, NEW r \in Requests
    PROVE  /\ Marked(js)[r] \in RequestType
           /\ Marked(js)[r].job = req[r].job
           /\ Marked(js)[r].client = req[r].client
           /\ Marked(js)[r].srv = req[r].srv
           /\ Marked(js)[r].tries = req[r].tries
           /\ Marked(js)[r].blocked = req[r].blocked
           /\ Marked(js)[r].closed = req[r].closed
           /\ Marked(js)[r].kids = req[r].kids
           /\ req[r].stale => Marked(js)[r].stale
           /\ req[r] = Idle => Marked(js)[r] = Idle
           /\ Writing(req[r]) \cap js = {} => Marked(js)[r] = req[r]
<1>1. Writing(Idle) = {}  BY DEF Idle, Writing
<1>2. Writing(req[r]) \cap js = {} => Marked(js)[r] = req[r]  BY DEF Marked
<1>3. req[r] \in RequestType  OBVIOUS
<1>4. req[r] = Idle => Marked(js)[r] = Idle  BY <1>1, <1>2
<1>5. CASE Marked(js)[r] = req[r]  BY <1>2, <1>3, <1>4, <1>5
<1>6. CASE Marked(js)[r] = [req[r] EXCEPT !.stale = TRUE]
  <2>1. /\ Marked(js)[r] \in RequestType
        /\ Marked(js)[r].job = req[r].job
        /\ Marked(js)[r].client = req[r].client
        /\ Marked(js)[r].srv = req[r].srv
        /\ Marked(js)[r].tries = req[r].tries
        /\ Marked(js)[r].blocked = req[r].blocked
    BY <1>3, <1>6 DEF RequestType
  <2>2. /\ Marked(js)[r].closed = req[r].closed
        /\ Marked(js)[r].kids = req[r].kids
        /\ Marked(js)[r].stale
    BY <1>3, <1>6 DEF RequestType
  <2> QED  BY <1>2, <1>4, <2>1, <2>2
<1> QED  BY <1>5, <1>6 DEF Marked

LEMMA MarkedType ==
    ASSUME req \in [Requests -> RequestType], NEW js
    PROVE  Marked(js) \in [Requests -> RequestType]
<1>1. \A r \in Requests : Marked(js)[r] \in RequestType  BY MarkedFields
<1>2. Marked(js) = [r \in Requests |-> Marked(js)[r]]  BY DEF Marked
<1> QED  BY <1>1, <1>2

LEMMA IdleType == Idle \in RequestType
BY DEF Idle, RequestType

\* A request the server is through with.
LEMMA EndedType ==
    ASSUME NEW q \in RequestType, NEW answered \in BOOLEAN, q # Idle => q.job \in Jobs
    PROVE  /\ Ended(q, answered) \in RequestType
           /\ Ended(q, answered).srv = "none"
           /\ Ended(q, answered) # Idle => Ended(q, answered).job \in Jobs
BY IdleType DEF Ended, RequestType, Idle

\* A request whose thread is gone.
LEMMA LeftType ==
    ASSUME NEW q \in RequestType, q # Idle => q.job \in Jobs
    PROVE  /\ Left(q) \in RequestType
           /\ Left(q) # Idle => Left(q).job \in Jobs
           /\ Left(q).srv = q.srv
           /\ q.srv # "none" =>
                /\ Left(q).job = q.job /\ Left(q).tries = q.tries
                /\ Left(q).blocked = q.blocked /\ Left(q).kids = q.kids
                /\ Left(q).stale = q.stale
<1>1. Idle.srv = "none"  BY DEF Idle
<1>2. CASE q.srv = "none"
  <2>1. Left(q) = Idle  BY <1>2 DEF Left
  <2> QED  BY <1>1, <1>2, <2>1, IdleType
<1>3. CASE q.srv # "none"
  <2>1. Left(q) = [q EXCEPT !.client = FALSE] /\ q # Idle  BY <1>1, <1>3 DEF Left
  <2> QED  BY <1>3, <2>1 DEF RequestType
<1> QED  BY <1>2, <1>3

ReqInv ==
    /\ req \in [Requests -> RequestType]
    /\ \A r \in Requests : req[r] # Idle => req[r].job \in Jobs
    /\ TriesCounted

\* The step of most actions on the requests: the rows of "js" are written and
\* request r becomes "new".
LEMMA RequestStep ==
    ASSUME ReqInv, NEW js, NEW r \in Requests, NEW new \in RequestType,
           new # Idle => new.job \in Jobs,
           new.srv \in Executing => new.tries # 0,
           req' = [Marked(js) EXCEPT ![r] = new]
    PROVE  ReqInv'
<1> USE DEF ReqInv
<1>1. Marked(js) \in [Requests -> RequestType]  BY MarkedType
<1>2. req' \in [Requests -> RequestType]  BY <1>1
<1>3. ASSUME NEW q \in Requests
      PROVE  /\ req'[q] # Idle => req'[q].job \in Jobs
             /\ req'[q].srv \in Executing => req'[q].tries # 0
  <2>1. CASE q = r  BY <1>1, <2>1
  <2>2. CASE q # r
    <3>1. req'[q] = Marked(js)[q]  BY <1>1, <2>2
    <3>2. /\ Marked(js)[q].job = req[q].job
          /\ Marked(js)[q].srv = req[q].srv
          /\ Marked(js)[q].tries = req[q].tries
          /\ req[q] = Idle => Marked(js)[q] = Idle
      BY MarkedFields
    <3> QED  BY <3>1, <3>2 DEF TriesCounted
  <2> QED  BY <2>1, <2>2
<1> QED  BY <1>2, <1>3 DEF TriesCounted

\* The step of user actions, which touch no request.
LEMMA MarkStep ==
    ASSUME ReqInv, NEW js, req' = Marked(js) PROVE ReqInv'
<1>1. req' \in [Requests -> RequestType]  BY MarkedType DEF ReqInv
<1>2. ASSUME NEW q \in Requests
      PROVE  /\ req'[q] # Idle => req'[q].job \in Jobs
             /\ req'[q].srv \in Executing => req'[q].tries # 0
  <2>1. /\ Marked(js)[q].job = req[q].job
        /\ Marked(js)[q].srv = req[q].srv
        /\ Marked(js)[q].tries = req[q].tries
        /\ req[q] = Idle => Marked(js)[q] = Idle
    BY MarkedFields DEF ReqInv
  <2> QED  BY <2>1 DEF ReqInv, TriesCounted
<1> QED  BY <1>1, <1>2 DEF ReqInv, TriesCounted

\* The step of actions that write no row.
LEMMA PlainStep ==
    ASSUME ReqInv, NEW r \in Requests, NEW new \in RequestType,
           new # Idle => new.job \in Jobs,
           new.srv \in Executing => new.tries # 0,
           req' = [req EXCEPT ![r] = new]
    PROVE  ReqInv'
BY DEF ReqInv, TriesCounted

LEMMA TypeInit == Init => TypeInv
BY IdleType DEF Init, TypeInv, TypeOK, TriesCounted, PendingState, RowStates, Idle, Executing

LEMMA PendingStateType == \A b : PendingState(b) \in RowStates
BY DEF PendingState, RowStates

LEMMA RunnerType == TypeInv /\ RunnerNext => TypeInv'
<1> SUFFICES ASSUME TypeInv, RunnerNext PROVE TypeInv'  OBVIOUS
<1> USE DEF TypeInv, TypeOK, TriesCounted
<1>1. CASE Listen
  BY <1>1 DEF Listen, table, history
<1>2. CASE LoadJobs
  BY <1>2 DEF LoadJobs, history, notify, NOT_DONE, Active, Reread
<1>3. ASSUME NEW j \in Jobs, ProcessNotification(j) PROVE TypeInv'
  <2>1. notify(row[j], mem[j], eta[j] = "moved") \in {"absent", "queue", "running", "failed"}
    BY <1>3 DEF notify, RowStates, Active
  <2> QED  BY <1>3, <2>1 DEF ProcessNotification, history, Reread
<1>4. ASSUME NEW j \in Jobs, NEW r \in Requests, RunJob(j, r) PROVE TypeInv'
  <2> DEFINE sent == [Idle EXCEPT !.job = j, !.client = TRUE, !.srv = "sent"]
  <2>1. sent \in RequestType /\ sent.job \in Jobs /\ sent.srv \notin Executing
    BY DEF Idle, RequestType, Executing
  <2>2. req' = [Marked({j}) EXCEPT ![r] = sent]  BY <1>4 DEF RunJob
  <2> HIDE DEF sent
  <2>3. ReqInv'  BY <2>1, <2>2, RequestStep DEF ReqInv
  <2>4. row' \in [Jobs -> RowStates \cup {"none"}] /\ notif' \subseteq Jobs
    BY <1>4 DEF RunJob, WriteOne, Write, RowStates
  <2>5. mem' = [mem EXCEPT ![j] = "running"]  BY <1>4 DEF RunJob
  <2>6. eta' \in [Jobs -> {"none", "known", "moved"}]
    <3>1. PICK due : eta' = [k \in Jobs |-> IF k \in due THEN "moved" ELSE eta[k]]
      BY <1>4 DEF RunJob
    <3> QED  BY <3>1
  <2>7. UNCHANGED <<retry, closed, runner, wasDone, effects, touches, faults>>
    BY <1>4 DEF RunJob, history
  <2> QED  BY <2>3, <2>4, <2>5, <2>6, <2>7 DEF ReqInv
<1>5. ASSUME NEW killed \in BOOLEAN, RunnerStops(killed) PROVE TypeInv'
  <2>1. ASSUME NEW r \in Requests
        PROVE  /\ req'[r] \in RequestType
               /\ req'[r] # Idle => req'[r].job \in Jobs
               /\ req'[r].srv \in Executing => req'[r].tries # 0
    <3>1. req'[r] = Left(req[r]) \/ req'[r] = req[r]  BY <1>5 DEF RunnerStops
    <3>2. CASE req'[r] = Left(req[r])
      <4>1. /\ req'[r] \in RequestType
            /\ req'[r] # Idle => req'[r].job \in Jobs
            /\ req'[r].srv = req[r].srv
            /\ req[r].srv # "none" => req'[r].tries = req[r].tries
        BY <3>2, LeftType
      <4> QED  BY <4>1 DEF Executing
    <3> QED  BY <3>1, <3>2
  <2>2. req' \in [Requests -> RequestType]
    <3>1. req' = [r \in Requests |-> req'[r]]  BY <1>5 DEF RunnerStops
    <3> QED  BY <2>1, <3>1
  <2>3. (\A r \in Requests : req'[r] # Idle => req'[r].job \in Jobs) /\ TriesCounted'
    BY <2>1
  <2> QED  BY <1>5, <2>2, <2>3 DEF RunnerStops, Reread
<1>6. ASSUME NEW r \in Requests, SetJobPending(r) PROVE TypeInv'
  <2> DEFINE j == req[r].job
  <2>0. req[r].client  BY <1>6 DEF SetJobPending
  <2>1. j \in Jobs  BY <2>0 DEF Idle
  <2>2. PICK js : req' = [Marked(js) EXCEPT ![r] = Left(Marked(js)[r])]
                  \/ req' = [req EXCEPT ![r] = Left(req[r])]
    BY <1>6, MarkedType DEF SetJobPending
  <2>3. row' \in [Jobs -> RowStates \cup {"none"}] /\ notif' \subseteq Jobs
    BY <1>6, <2>1 DEF SetJobPending, WriteOne, Write, RowStates
  <2>4. ReqInv /\ req[r] \in RequestType /\ Marked(js)[r] \in RequestType  BY MarkedFields DEF ReqInv
  <2>5. /\ Marked(js)[r].job \in Jobs
        /\ Marked(js)[r].srv \in Executing => Marked(js)[r].tries # 0
    BY <2>1, MarkedFields
  <2>6. ASSUME NEW q \in RequestType, q.job \in Jobs, q.srv \in Executing => q.tries # 0
        PROVE  /\ Left(q) \in RequestType /\ (Left(q) # Idle => Left(q).job \in Jobs)
               /\ Left(q).srv \in Executing => Left(q).tries # 0
    BY <2>6, LeftType DEF Executing
  <2>7. ReqInv'
    <3>1. CASE req' = [Marked(js) EXCEPT ![r] = Left(Marked(js)[r])]
      <4> DEFINE new == Left(Marked(js)[r])
      <4>1. /\ new \in RequestType /\ (new # Idle => new.job \in Jobs)
            /\ new.srv \in Executing => new.tries # 0
        BY <2>4, <2>5, <2>6
      <4>2. req' = [Marked(js) EXCEPT ![r] = new]  BY <3>1
      <4> HIDE DEF new
      <4> QED  BY <2>4, <4>1, <4>2, RequestStep
    <3>2. CASE req' = [req EXCEPT ![r] = Left(req[r])]
      <4> DEFINE new == Left(req[r])
      <4>1. /\ new \in RequestType /\ (new # Idle => new.job \in Jobs)
            /\ new.srv \in Executing => new.tries # 0
        BY <2>1, <2>4, <2>6
      <4>2. req' = [req EXCEPT ![r] = new]  BY <3>2
      <4> HIDE DEF new
      <4> QED  BY <2>4, <4>1, <4>2, PlainStep
    <3> QED  BY <2>2, <3>1, <3>2
  <2> QED  BY <1>6, <2>3, <2>7 DEF SetJobPending, history, ReqInv
<1> QED  BY <1>1, <1>2, <1>3, <1>4, <1>5, <1>6 DEF RunnerNext

\* The steps of the controller.
LEMMA PostponeType ==
    ASSUME TypeInv, NEW r \in Requests, NEW count \in Nat,
           req[r].srv = "performing", Postpone(r, count),
           wasDone' \subseteq Jobs, effects' \in [Jobs -> Nat],
           touches' \in [Jobs -> Nat], faults' \in Nat
    PROVE  TypeInv'
<1> USE DEF TypeInv, TypeOK
<1> DEFINE j == req[r].job
           ended == Ended(Marked({j})[r], TRUE)
<1>1. j \in Jobs  BY DEF Idle
<1>2. ended = Idle  BY DEF Ended
<1>3. req' = [Marked({j}) EXCEPT ![r] = ended]
  BY MarkedType DEF Postpone
<1>4. ReqInv'
  BY <1>2, <1>3, IdleType, RequestStep DEF ReqInv, Idle, Executing
<1>5. row' \in [Jobs -> RowStates \cup {"none"}] /\ notif' \subseteq Jobs
  BY <1>1, PendingStateType DEF Postpone, WriteOne, Write
<1> QED  BY <1>1, <1>4, <1>5 DEF Postpone, ReqInv

LEMMA ServerType == TypeInv /\ ServerNext => TypeInv'
<1> SUFFICES ASSUME TypeInv, NEW r \in Requests,
                    \/ Refuse(r) \/ SetStarted(r) \/ Perform(r)
                    \/ SetDone(r) \/ NothingToDoLost(r) \/ StoreConflict(r)
                    \/ DataConflict(r) \/ RaiseRetryable(r) \/ RaiseIgnoreRetry(r)
                    \/ RaiseError(r) \/ EnqueueWaiting(r) \/ ReleaseChildren(r)
                    \/ ReleaseFails(r) \/ ServerCrash(r)
             PROVE  TypeInv'
  BY DEF ServerNext
<1> USE DEF TypeInv, TypeOK
<1> DEFINE j == req[r].job
           marked(js) == Marked(js)[r]
<1>1. req[r].srv # "none" => j \in Jobs  BY DEF Idle
<1>2. req[r] \in RequestType /\ ReqInv  BY DEF ReqInv
<1>3. \A js : Marked(js) \in [Requests -> RequestType]  BY MarkedType
<1>4. ASSUME NEW js, j \in Jobs
      PROVE  /\ Marked(js)[r] \in RequestType
             /\ Marked(js)[r].job \in Jobs
  BY <1>4, MarkedFields
<1>5. CASE Refuse(r) \/ NothingToDoLost(r) \/ ReleaseFails(r) \/ ServerCrash(r)
  <2>1. PICK answered \in BOOLEAN : req' = [req EXCEPT ![r] = Ended(req[r], answered)]
    BY <1>5 DEF Refuse, NothingToDoLost, ReleaseFails, ServerCrash
  <2>2. /\ Ended(req[r], answered) \in RequestType
        /\ Ended(req[r], answered).srv = "none"
        /\ Ended(req[r], answered) # Idle => Ended(req[r], answered).job \in Jobs
    BY <1>2, EndedType
  <2>3. ReqInv'  BY <1>2, <2>1, <2>2, PlainStep DEF Executing
  <2>4. UNCHANGED <<row, retry, eta, closed, mem, notif, runner, wasDone, effects, touches>>
    BY <1>5 DEF Refuse, NothingToDoLost, ReleaseFails, ServerCrash, table, memory, history
  <2>5. faults' = faults \/ faults' = faults + 1
    BY <1>5 DEF Refuse, NothingToDoLost, ReleaseFails, ServerCrash, history
  <2> QED  BY <2>3, <2>4, <2>5 DEF ReqInv
<1>6. CASE SetStarted(r)
  <2> DEFINE new == [Marked({j})[r] EXCEPT !.srv = "started",
                        !.blocked = Unfinished(j) # {}, !.closed = j \in closed,
                        !.tries = retry[j] + 1]
  <2>1. j \in Jobs  BY <1>1, <1>6 DEF SetStarted
  <2>2. req' = [Marked({j}) EXCEPT ![r] = new]  BY <1>3, <1>6 DEF SetStarted
  <2>3. Marked({j})[r] \in RequestType /\ Marked({j})[r].job = j  BY MarkedFields
  <2>4. new \in RequestType /\ new.job \in Jobs /\ new.tries # 0
    <3>1. retry[j] \in Nat /\ retry[j] + 1 \in Nat /\ retry[j] + 1 # 0  BY <2>1
    <3>2. (Unfinished(j) # {}) \in BOOLEAN /\ (j \in closed) \in BOOLEAN  OBVIOUS
    <3> QED  BY <2>1, <2>3, <3>1, <3>2 DEF RequestType
  <2> HIDE DEF new
  <2>5. ReqInv'  BY <1>2, <2>2, <2>4, RequestStep
  <2>6. row' \in [Jobs -> RowStates \cup {"none"}] /\ notif' \subseteq Jobs
    BY <1>6, <2>1 DEF SetStarted, WriteOne, Write, RowStates
  <2> QED  BY <1>6, <2>5, <2>6 DEF SetStarted, history, ReqInv
<1>7. CASE Perform(r)
  <2> DEFINE new == [req[r] EXCEPT !.srv = "performing"]
  <2>1. new \in RequestType /\ new.job \in Jobs /\ new.tries # 0
    BY <1>1, <1>2, <1>7 DEF Perform, RequestType, TriesCounted, Executing
  <2>2. req' = [req EXCEPT ![r] = new]  BY <1>7 DEF Perform
  <2> HIDE DEF new
  <2>3. ReqInv'  BY <1>2, <2>1, <2>2, PlainStep
  <2> QED  BY <1>7, <2>3 DEF Perform, table, memory, history, ReqInv
<1>8. CASE SetDone(r)
  <2> DEFINE new == [Idle EXCEPT !.job = j, !.client = req[r].client, !.srv = "done"]
  <2>1. j \in Jobs  BY <1>1, <1>8 DEF SetDone
  <2>2. new \in RequestType /\ new.job \in Jobs /\ new.srv \notin Executing
    BY <1>2, <2>1 DEF Idle, RequestType, Executing
  <2>3. req' = [Marked({j}) EXCEPT ![r] = new]  BY <1>8 DEF SetDone
  <2> HIDE DEF new
  <2>4. ReqInv'  BY <1>2, <2>2, <2>3, RequestStep
  <2>5. row' \in [Jobs -> RowStates \cup {"none"}] /\ notif' \subseteq Jobs
    BY <1>8, <2>1 DEF SetDone, WriteOne, Write, RowStates
  <2>6. req[r].tries \in Nat  BY <1>2 DEF RequestType
  <2>7. /\ wasDone' \subseteq Jobs /\ effects' \in [Jobs -> Nat] /\ retry' \in [Jobs -> Nat]
        /\ closed' \subseteq Jobs /\ UNCHANGED <<eta, mem, runner, touches, faults>>
    BY <1>8, <2>1, <2>6 DEF SetDone
  <2> QED  BY <2>4, <2>5, <2>7 DEF ReqInv
<1>9. CASE StoreConflict(r) \/ DataConflict(r) \/ RaiseRetryable(r) \/ RaiseIgnoreRetry(r)
  <2>1. req[r].srv = "performing"
    BY <1>9 DEF StoreConflict, DataConflict, RaiseRetryable, RaiseIgnoreRetry
  <2>2. req[r].tries \in Nat /\ req[r].tries # 0
    BY <1>2, <2>1 DEF RequestType, TriesCounted, Executing
  <2>3. PICK count \in Nat : Postpone(r, count)
    BY <1>9, <2>2 DEF StoreConflict, DataConflict, RaiseRetryable, RaiseIgnoreRetry
  <2>4. /\ wasDone' \subseteq Jobs /\ effects' \in [Jobs -> Nat]
        /\ touches' \in [Jobs -> Nat] /\ faults' \in Nat
    BY <1>9 DEF StoreConflict, DataConflict, RaiseRetryable, RaiseIgnoreRetry, history
  <2> QED  BY <2>1, <2>3, <2>4, PostponeType
<1>10. CASE RaiseError(r)
  <2>1. j \in Jobs  BY <1>1, <1>10 DEF RaiseError
  <2>2. req' = [Marked({j}) EXCEPT ![r] = Ended(Marked({j})[r], FALSE)]
    BY <1>3, <1>10 DEF RaiseError
  <2>3. ReqInv'
    <3> DEFINE q == Marked({j})[r]
               new == Ended(q, FALSE)
    <3>0. q \in RequestType /\ q.job \in Jobs  BY <1>4, <2>1
    <3> HIDE DEF q
    <3>1. new \in RequestType /\ new.srv \notin Executing /\ (new # Idle => new.job \in Jobs)
      BY <3>0, IdleType DEF Ended, RequestType, Idle, Executing
    <3>2. req' = [Marked({j}) EXCEPT ![r] = new]  BY <2>2 DEF q
    <3> HIDE DEF new
    <3> QED  BY <1>2, <3>1, <3>2, RequestStep
  <2>4. row' \in [Jobs -> RowStates \cup {"none"}] /\ notif' \subseteq Jobs
    BY <1>10, <2>1 DEF RaiseError, WriteOne, Write, RowStates
  <2>5. req[r].tries \in Nat  BY <1>2 DEF RequestType
  <2>6. closed' \subseteq Jobs  BY <1>10, <2>1 DEF RaiseError
  <2> QED  BY <1>10, <2>1, <2>3, <2>4, <2>5, <2>6 DEF RaiseError, history, ReqInv
<1>11. CASE EnqueueWaiting(r)
  <2> DEFINE rel == IF row[j] = "none" THEN {} ELSE Released(j)
             new == [req[r] EXCEPT !.srv = "releasing", !.kids = rel, !.stale = FALSE]
  <2>1. j \in Jobs /\ rel \subseteq Jobs  BY <1>1, <1>11 DEF EnqueueWaiting, Released
  <2>2. req' = [req EXCEPT ![r] = Ended(req[r], TRUE)] \/ req' = [req EXCEPT ![r] = new]
    BY <1>11 DEF EnqueueWaiting
  <2> HIDE DEF rel
  <2>3. new \in RequestType /\ new.job \in Jobs /\ new.srv \notin Executing
    BY <1>2, <2>1 DEF RequestType, Executing
  <2> HIDE DEF new
  <2>4. Ended(req[r], TRUE) = Idle /\ Idle.srv \notin Executing  BY DEF Ended, Idle, Executing
  <2>5. ReqInv'  BY <1>2, <2>2, <2>3, <2>4, IdleType, PlainStep
  <2> QED  BY <1>11, <2>5 DEF EnqueueWaiting, table, memory, history, ReqInv
<1>12. CASE ReleaseChildren(r)
  <2>1. PICK kids : kids = req[r].kids  OBVIOUS
  <2>2. kids \subseteq Jobs  BY <1>2, <2>1 DEF RequestType
  <2>3. req' = [Marked(kids) EXCEPT ![r] = Ended(Marked(kids)[r], TRUE)]
    BY <1>3, <1>12, <2>1 DEF ReleaseChildren
  <2>4. Write(kids, [k \in Jobs |-> IF k \in kids THEN "pending" ELSE row[k]])
    BY <1>12, <2>1 DEF ReleaseChildren
  <2>5. ReqInv'
    <3>1. req' = [Marked(kids) EXCEPT ![r] = Idle]  BY <2>3 DEF Ended
    <3>2. Idle.srv \notin Executing  BY DEF Idle, Executing
    <3> QED  BY <1>2, <3>1, <3>2, IdleType, RequestStep
  <2>6. row' \in [Jobs -> RowStates \cup {"none"}] /\ notif' \subseteq Jobs
    BY <2>2, <2>4 DEF Write, RowStates
  <2> QED  BY <1>12, <2>5, <2>6 DEF ReleaseChildren, history, ReqInv
<1> QED  BY <1>5, <1>6, <1>7, <1>8, <1>9, <1>10, <1>11, <1>12

\* The steps of users and crons.
LEMMA UserType == TypeInv /\ UserNext => TypeInv'
<1> SUFFICES ASSUME TypeInv, NEW j \in Jobs,
                    \/ ButtonDone(j) \/ ButtonCancelled(j) \/ Requeue(j)
                    \/ RequeueStuckJob(j) \/ Autovacuum(j)
             PROVE  TypeInv'
  BY DEF UserNext
<1> USE DEF TypeInv, TypeOK
<1>1. ReqInv  BY DEF ReqInv
<1>2. CASE ButtonDone(j)
  <2> DEFINE js == {j} \cup Released(j)
  <2>1. js \subseteq Jobs  BY DEF Released
  <2>2. req' = Marked(js)  BY <1>2 DEF ButtonDone
  <2>3. ReqInv'  BY <1>1, <2>2, MarkStep
  <2>4. row' \in [Jobs -> RowStates \cup {"none"}] /\ notif' \subseteq Jobs
    BY <1>2, <2>1 DEF ButtonDone, Write, RowStates
  <2>5. /\ wasDone' \subseteq Jobs /\ touches' \in [Jobs -> Nat]
        /\ closed' \subseteq Jobs /\ UNCHANGED <<retry, eta, mem, runner, effects, faults>>
    BY <1>2 DEF ButtonDone, Touch
  <2> QED  BY <2>3, <2>4, <2>5 DEF ReqInv
<1>3. CASE ButtonCancelled(j)
  <2>1. ReqInv'  BY <1>1, <1>3, MarkStep DEF ButtonCancelled
  <2>2. row' \in [Jobs -> RowStates \cup {"none"}] /\ notif' \subseteq Jobs
    BY <1>3 DEF ButtonCancelled, WriteOne, Write, RowStates
  <2>3. /\ closed' \subseteq Jobs /\ touches' \in [Jobs -> Nat]
        /\ UNCHANGED <<retry, eta, mem, runner, wasDone, effects, faults>>
    BY <1>3 DEF ButtonCancelled, Touch
  <2> QED  BY <2>1, <2>2, <2>3 DEF ReqInv
<1>4. CASE Requeue(j) \/ RequeueStuckJob(j)
  <2>1. SetPending(j)  BY <1>4 DEF Requeue, RequeueStuckJob
  <2>2. ReqInv'  BY <1>1, <2>1, MarkStep DEF SetPending
  <2>3. row' \in [Jobs -> RowStates \cup {"none"}] /\ notif' \subseteq Jobs
    BY <2>1, PendingStateType DEF SetPending, WriteOne, Write
  <2>4. touches' \in [Jobs -> Nat]  BY <1>4 DEF Requeue, RequeueStuckJob, Touch
  <2> QED  BY <2>1, <2>2, <2>3, <2>4 DEF SetPending, ReqInv
<1>5. CASE Autovacuum(j)
  <2>1. ReqInv'  BY <1>1, <1>5 DEF Autovacuum, ReqInv, TriesCounted
  <2> QED  BY <1>5, <2>1 DEF Autovacuum, history, ReqInv
<1> QED  BY <1>2, <1>3, <1>4, <1>5

LEMMA TypeStutter == TypeInv /\ UNCHANGED vars => TypeInv'
BY DEF TypeInv, TypeOK, TriesCounted, vars, table, memory, history

\* Every variable keeps its type in every behaviour, whatever the constants.
THEOREM TypeCorrect == Spec => []TypeOK
<1>1. Init => TypeInv  BY TypeInit
<1>2. TypeInv /\ [Next]_vars => TypeInv'
  BY RunnerType, ServerType, UserType, TypeStutter DEF Next
<1>3. TypeInv => TypeOK  BY DEF TypeInv
<1> QED  BY <1>1, <1>2, <1>3, PTL DEF Spec

-----------------------------------------------------------------------------
(* Capacity.  WithinCapacity is about the table, the capacity is enforced in   *)
(* the runner's memory: the link is that, while the runner is up, every active *)
(* row holds a slot.                                                           *)

ActiveRows == {j \in Jobs : row[j] \in Active}

ActiveHoldsSlot == runner = "up" => ActiveRows \subseteq RunningJobs

CapacityInv == ActiveHoldsSlot /\ WithinCapacity

\* Only RunJob makes a row active.
LEMMA OnlyRunJobActivates ==
    TypeInv /\ (ServerNext \/ UserNext) =>
        ActiveRows' \subseteq ActiveRows /\ UNCHANGED <<mem, runner>>
<1> SUFFICES ASSUME TypeInv, ServerNext \/ UserNext
             PROVE  ActiveRows' \subseteq ActiveRows /\ UNCHANGED <<mem, runner>>
  OBVIOUS
<1> USE DEF TypeInv, TypeOK, ActiveRows, Active
<1>1. ASSUME NEW r \in Requests,
             \/ Refuse(r) \/ Perform(r) \/ NothingToDoLost(r) \/ EnqueueWaiting(r)
             \/ ReleaseFails(r) \/ ServerCrash(r)
      PROVE  ActiveRows' \subseteq ActiveRows /\ UNCHANGED <<mem, runner>>
  BY <1>1 DEF Refuse, Perform, NothingToDoLost, EnqueueWaiting, ReleaseFails, ServerCrash,
              table, memory
<1>2. ASSUME NEW r \in Requests, SetStarted(r) \/ SetDone(r) \/ RaiseError(r)
      PROVE  ActiveRows' \subseteq ActiveRows /\ UNCHANGED <<mem, runner>>
  BY <1>2 DEF SetStarted, SetDone, RaiseError, WriteOne, Write
<1>3. ASSUME NEW r \in Requests,
             \/ StoreConflict(r) \/ DataConflict(r)
             \/ RaiseRetryable(r) \/ RaiseIgnoreRetry(r)
      PROVE  ActiveRows' \subseteq ActiveRows /\ UNCHANGED <<mem, runner>>
  <2>1. PICK count : Postpone(r, count)
    BY <1>3 DEF StoreConflict, DataConflict, RaiseRetryable, RaiseIgnoreRetry
  <2> QED  BY <2>1 DEF Postpone, WriteOne, Write, PendingState
<1>4. ASSUME NEW r \in Requests, ReleaseChildren(r)
      PROVE  ActiveRows' \subseteq ActiveRows /\ UNCHANGED <<mem, runner>>
  BY <1>4 DEF ReleaseChildren, Write
<1>5. ASSUME NEW j \in Jobs, ButtonDone(j) \/ ButtonCancelled(j) \/ Autovacuum(j)
      PROVE  ActiveRows' \subseteq ActiveRows /\ UNCHANGED <<mem, runner>>
  BY <1>5 DEF ButtonDone, ButtonCancelled, Autovacuum, WriteOne, Write
<1>6. ASSUME NEW j \in Jobs, Requeue(j) \/ RequeueStuckJob(j)
      PROVE  ActiveRows' \subseteq ActiveRows /\ UNCHANGED <<mem, runner>>
  BY <1>6 DEF Requeue, RequeueStuckJob, SetPending, WriteOne, Write, PendingState
<1> QED  BY <1>1, <1>2, <1>3, <1>4, <1>5, <1>6 DEF ServerNext, UserNext

\* Fewer active rows stay within the capacity.
LEMMA FewerActive ==
    ASSUME TypeInv, WithinCapacity, ActiveRows' \subseteq ActiveRows
    PROVE  WithinCapacity'
<1>1. IsFiniteSet(ActiveRows)  BY JobsFinite, FS_Subset DEF ActiveRows
<1>2. Cardinality(ActiveRows') <= Cardinality(ActiveRows)
  BY <1>1, FS_Subset
<1>3. IsFiniteSet(ActiveRows')  BY <1>1, FS_Subset
<1>4. Cardinality(ActiveRows) \in Nat /\ Cardinality(ActiveRows') \in Nat
  BY <1>1, <1>3, FS_CardinalityType
<1>5. ActiveRows = {j \in Jobs : row[j] \in Active}
      /\ ActiveRows' = {j \in Jobs : row'[j] \in Active}
  BY DEF ActiveRows
<1> QED  BY <1>2, <1>4, <1>5, CapacityType DEF WithinCapacity

LEMMA RunnerCapacity == TypeInv /\ CapacityInv /\ RunnerNext => CapacityInv'
<1> SUFFICES ASSUME TypeInv, CapacityInv, RunnerNext PROVE CapacityInv'  OBVIOUS
<1> USE DEF TypeInv, TypeOK, CapacityInv
<1>1. CASE Listen
  BY <1>1 DEF Listen, table, ActiveHoldsSlot, WithinCapacity
<1>2. CASE LoadJobs
  <2>1. ASSUME NEW j \in Jobs, row[j] \in Active PROVE mem'[j] = "running"
    BY <1>2, <2>1 DEF LoadJobs, notify, NOT_DONE, Active
  <2> QED  BY <1>2, <2>1
           DEF LoadJobs, ActiveHoldsSlot, WithinCapacity, ActiveRows, RunningJobs
<1>3. ASSUME NEW j \in Jobs, ProcessNotification(j) PROVE CapacityInv'
  <2>1. row[j] \in Active => notify(row[j], mem[j], eta[j] = "moved") = "running"
    BY DEF notify, Active
  <2> QED  BY <1>3, <2>1 DEF ProcessNotification, ActiveHoldsSlot, WithinCapacity,
                             ActiveRows, RunningJobs
<1>4. ASSUME NEW j \in Jobs, NEW r \in Requests, RunJob(j, r) PROVE CapacityInv'
  <2>1. RunningJobs' = RunningJobs \cup {j} /\ j \notin RunningJobs /\ runner = "up"
    BY <1>4 DEF RunJob, RunningJobs
  <2>2. ActiveRows' \subseteq ActiveRows \cup {j}
    BY <1>4 DEF RunJob, WriteOne, Write, ActiveRows
  <2>3. ActiveRows' \subseteq RunningJobs'
    BY <2>1, <2>2 DEF ActiveHoldsSlot
  <2>4. ASSUME Capacity > 0 PROVE Cardinality(ActiveRows') <= Capacity
    <3>1. IsFiniteSet(RunningJobs)  BY JobsFinite, FS_Subset DEF RunningJobs
    <3>2. Cardinality(RunningJobs') = Cardinality(RunningJobs) + 1
          /\ IsFiniteSet(RunningJobs')
      BY <2>1, <3>1, FS_AddElement
    <3>3. Cardinality(RunningJobs) < Capacity
      BY <1>4, <2>4, CapacityType DEF RunJob, has_capacity
    <3>4. Cardinality(ActiveRows') <= Cardinality(RunningJobs') /\ IsFiniteSet(ActiveRows')
      BY <2>3, <3>2, FS_Subset
    <3>5. /\ Cardinality(RunningJobs) \in Nat /\ Cardinality(RunningJobs') \in Nat
          /\ Cardinality(ActiveRows') \in Nat
      BY <3>1, <3>2, <3>4, FS_CardinalityType
    <3> QED  BY <3>2, <3>3, <3>4, <3>5, CapacityType
  <2>5. ActiveRows' = {k \in Jobs : row'[k] \in Active}  BY DEF ActiveRows
  <2> QED  BY <2>3, <2>4, <2>5 DEF ActiveHoldsSlot, WithinCapacity
<1>5. ASSUME NEW killed \in BOOLEAN, RunnerStops(killed) PROVE CapacityInv'
  BY <1>5 DEF RunnerStops, table, ActiveHoldsSlot, WithinCapacity
<1>6. ASSUME NEW r \in Requests, SetJobPending(r) PROVE CapacityInv'
  <2>1. ActiveRows' \subseteq ActiveRows
    BY <1>6 DEF SetJobPending, WriteOne, Write, ActiveRows, Active
  <2>2. WithinCapacity'  BY <2>1, FewerActive
  <2> QED  BY <1>6, <2>1, <2>2 DEF SetJobPending, ActiveHoldsSlot, RunningJobs
<1> QED  BY <1>1, <1>2, <1>3, <1>4, <1>5, <1>6 DEF RunnerNext

\* The table never holds more enqueued and started jobs than the channel has
\* capacity for, whatever the capacity, the jobs and the number of requests.
THEOREM CapacityRespected == Spec => []WithinCapacity
<1>1. Init => TypeInv /\ CapacityInv
  <2> SUFFICES ASSUME Init PROVE CapacityInv  BY TypeInit
  <2>1. {j \in Jobs : row[j] \in Active} = {}
    BY DEF Init, PendingState, Active
  <2>2. WithinCapacity  BY <2>1, FS_EmptySet, CapacityType DEF WithinCapacity
  <2> QED  BY <2>2 DEF Init, CapacityInv, ActiveHoldsSlot
<1>2. TypeInv /\ CapacityInv /\ [Next]_vars => TypeInv' /\ CapacityInv'
  <2> SUFFICES ASSUME TypeInv, CapacityInv, [Next]_vars PROVE TypeInv' /\ CapacityInv'
    OBVIOUS
  <2>1. TypeInv'  BY RunnerType, ServerType, UserType, TypeStutter DEF Next
  <2>2. CASE RunnerNext  BY <2>1, <2>2, RunnerCapacity
  <2>3. CASE ServerNext \/ UserNext
    <3>1. ActiveRows' \subseteq ActiveRows /\ UNCHANGED <<mem, runner>>
      BY <2>3, OnlyRunJobActivates
    <3>2. WithinCapacity'  BY <3>1, FewerActive DEF CapacityInv
    <3> QED  BY <2>1, <3>1, <3>2 DEF CapacityInv, ActiveHoldsSlot, RunningJobs
  <2>4. CASE UNCHANGED vars
    BY <2>1, <2>4 DEF vars, table, memory, CapacityInv, ActiveHoldsSlot, WithinCapacity,
                      ActiveRows, RunningJobs
  <2> QED  BY <2>2, <2>3, <2>4 DEF Next
<1>3. CapacityInv => WithinCapacity  BY DEF CapacityInv
<1> QED  BY <1>1, <1>2, <1>3, PTL DEF Spec

-----------------------------------------------------------------------------
(* Releases.  The worker that has found the children to release writes them in *)
(* a later step: until then they wait, or its transaction is refused.          *)

SameExecution(q) ==
    req'[q].srv = req[q].srv /\ req'[q].job = req[q].job /\ req'[q].blocked = req[q].blocked

LEMMA OtherRequests ==
    ASSUME TypeInv, NEW js, NEW r \in Requests, NEW new, req' = [Marked(js) EXCEPT ![r] = new]
    PROVE  req'[r] = new /\ \A q \in Requests \ {r} : SameExecution(q)
<1>1. Marked(js) \in [Requests -> RequestType]  BY MarkedType DEF TypeInv, TypeOK
<1>2. ASSUME NEW q \in Requests \ {r}
      PROVE  SameExecution(q)
  <2>1. req'[q] = Marked(js)[q]  BY <1>1
  <2> QED  BY <2>1, MarkedFields DEF SameExecution, TypeInv, TypeOK
<1> QED  BY <1>1, <1>2

\* A request that is over executes nothing.
LEMMA EndedNotExecuting == \A q, answered : Ended(q, answered).srv \notin Executing
BY DEF Ended, Idle, Executing

LEMMA EndedOver == \A q, answered : Ended(q, answered).srv = "none"
BY DEF Ended, Idle

\* A job that waits has no date_done or date_cancelled, so autovacuum leaves it.
WaitingNotClosed == \A j \in closed : row[j] # "wait_dependencies"

KidsWait ==
    \A r \in Requests : req[r].srv = "releasing" /\ ~req[r].stale =>
        \A k \in req[r].kids : row[k] = "wait_dependencies"

KidsInv == WaitingNotClosed /\ KidsWait

\* A release that goes on is marked when someone else writes a row of it; only
\* autovacuum marks nothing.
KidsKept(q) ==
    /\ req[q].srv = "releasing" /\ req'[q].job = req[q].job /\ req'[q].kids = req[q].kids
    /\ \/ req'[q].stale
       \/ ~req[q].stale /\ \A k \in req[q].kids : row'[k] = row[k] \/ k \in closed

ReleasesStep ==
    \A q \in Requests : req'[q].srv = "releasing" => EnqueueWaiting(q) \/ KidsKept(q)

LEMMA KidsMarked ==
    ASSUME TypeInv, NEW js, NEW q \in Requests, req[q].srv = "releasing",
           \A k \in Jobs \ js : row'[k] = row[k]
    PROVE  /\ Marked(js)[q].job = req[q].job /\ Marked(js)[q].kids = req[q].kids
           /\ Marked(js)[q].srv = "releasing"
           /\ \/ Marked(js)[q].stale
              \/ ~req[q].stale /\ \A k \in req[q].kids : row'[k] = row[k]
<1>1. req \in [Requests -> RequestType] /\ req[q] \in RequestType  BY DEF TypeInv, TypeOK
<1>2. Writing(req[q]) = req[q].kids /\ req[q].kids \subseteq Jobs
  BY <1>1 DEF Writing, RequestType
<1>3. /\ Marked(js)[q].job = req[q].job /\ Marked(js)[q].kids = req[q].kids
      /\ Marked(js)[q].srv = "releasing" /\ (req[q].stale => Marked(js)[q].stale)
  BY <1>1, MarkedFields
<1>4. CASE req[q].kids \cap js = {}  BY <1>2, <1>3, <1>4
<1>5. CASE req[q].kids \cap js # {}
  <2>1. Marked(js)[q] = [req[q] EXCEPT !.stale = TRUE]  BY <1>2, <1>5 DEF Marked
  <2> QED  BY <1>1, <1>3, <2>1 DEF RequestType
<1> QED  BY <1>4, <1>5

\* What EnqueueWaiting has found when there is something to release.
LEMMA KidsFound ==
    ASSUME TypeInv, NEW q \in Requests, EnqueueWaiting(q), req'[q].srv = "releasing"
    PROVE  /\ req'[q].kids = Released(req[q].job) /\ req'[q].job = req[q].job
           /\ ~req'[q].stale /\ row' = row
<1> DEFINE rel == IF row[req[q].job] = "none" THEN {} ELSE Released(req[q].job)
<1>1. req[q] \in RequestType /\ req \in [Requests -> RequestType]  BY DEF TypeInv, TypeOK
<1>2. rel # {}
  <2>1. CASE rel = {}
    <3>1. req' = [req EXCEPT ![q] = Ended(req[q], TRUE)]  BY <2>1 DEF EnqueueWaiting
    <3>2. req'[q] = Ended(req[q], TRUE)  BY <1>1, <3>1
    <3> QED  BY <3>2, EndedOver
  <2> QED  BY <2>1
<1>3. req'[q] = [req[q] EXCEPT !.srv = "releasing", !.kids = rel, !.stale = FALSE]
  BY <1>1, <1>2 DEF EnqueueWaiting
<1>4. rel = Released(req[q].job)  BY <1>2
<1>5. row' = row  BY DEF EnqueueWaiting, table
<1> HIDE DEF rel
<1> QED  BY <1>1, <1>3, <1>4, <1>5 DEF RequestType

LEMMA ReleasesFrame == TypeInv /\ Next => ReleasesStep
<1> SUFFICES ASSUME TypeInv, Next PROVE ReleasesStep  OBVIOUS
<1>0. req \in [Requests -> RequestType]  BY DEF TypeInv, TypeOK
<1> USE DEF ReleasesStep
<1>1. ASSUME NEW r \in Requests, NEW js, NEW new, new.srv # "releasing",
             req' = [Marked(js) EXCEPT ![r] = new], \A k \in Jobs \ js : row'[k] = row[k]
      PROVE  ReleasesStep
  <2> SUFFICES ASSUME NEW q \in Requests, req'[q].srv = "releasing" PROVE KidsKept(q)
    OBVIOUS
  <2>1. Marked(js) \in [Requests -> RequestType]  BY <1>0, MarkedType
  <2>2. q # r  BY <1>1, <2>1
  <2>3. req'[q] = Marked(js)[q]  BY <1>1, <2>1, <2>2
  <2>4. req[q].srv = "releasing"  BY <1>0, <2>3, MarkedFields
  <2> QED  BY <1>1, <2>3, <2>4, KidsMarked DEF KidsKept
<1>2. ASSUME NEW r \in Requests, NEW new, new.srv # "releasing",
             req' = [req EXCEPT ![r] = new], row' = row
      PROVE  ReleasesStep
  BY <1>0, <1>2 DEF KidsKept
<1>3. ASSUME NEW js, req' = Marked(js), \A k \in Jobs \ js : row'[k] = row[k]
      PROVE  ReleasesStep
  <2> SUFFICES ASSUME NEW q \in Requests, req'[q].srv = "releasing" PROVE KidsKept(q)
    OBVIOUS
  <2>1. req[q].srv = "releasing"  BY <1>0, <1>3, MarkedFields
  <2> QED  BY <1>3, <2>1, KidsMarked DEF KidsKept
<1>4. ASSUME UNCHANGED req, \A k \in Jobs : row'[k] = row[k] \/ k \in closed
      PROVE  ReleasesStep
  <2>1. \A q \in Requests : req[q].kids \subseteq Jobs  BY <1>0 DEF RequestType
  <2> QED  BY <1>4, <2>1 DEF KidsKept
<1>5. ASSUME NEW j, NEW s, WriteOne(j, s) PROVE \A k \in Jobs \ {j} : row'[k] = row[k]
  BY <1>5 DEF WriteOne, Write, TypeInv, TypeOK
<1>6. CASE RunnerNext
  <2>1. ASSUME NEW j \in Jobs, NEW r \in Requests, RunJob(j, r) PROVE ReleasesStep
    <3> DEFINE sent == [Idle EXCEPT !.job = j, !.client = TRUE, !.srv = "sent"]
    <3>1. sent.srv # "releasing"  BY DEF Idle
    <3>2. req' = [Marked({j}) EXCEPT ![r] = sent]  BY <2>1 DEF RunJob
    <3> HIDE DEF sent
    <3>3. \A k \in Jobs \ {j} : row'[k] = row[k]  BY <1>5, <2>1 DEF RunJob
    <3> QED  BY <1>1, <3>1, <3>2, <3>3
  <2>2. ASSUME NEW killed \in BOOLEAN, RunnerStops(killed) PROVE ReleasesStep
    <3> SUFFICES ASSUME NEW q \in Requests, req'[q].srv = "releasing" PROVE KidsKept(q)
      OBVIOUS
    <3>1. row' = row /\ (req'[q] = Left(req[q]) \/ req'[q] = req[q])  BY <2>2 DEF RunnerStops
    <3>2. req[q] \in RequestType /\ (req[q] # Idle => req[q].job \in Jobs)
      BY DEF TypeInv, TypeOK
    <3>3. /\ Left(req[q]).srv = req[q].srv
          /\ req[q].srv = "releasing" =>
               /\ Left(req[q]).job = req[q].job /\ Left(req[q]).kids = req[q].kids
               /\ Left(req[q]).stale = req[q].stale
      BY <3>2, LeftType
    <3> QED  BY <3>1, <3>2, <3>3 DEF KidsKept, RequestType
  <2>3. ASSUME NEW r \in Requests, SetJobPending(r) PROVE ReleasesStep
    <3> SUFFICES ASSUME NEW q \in Requests, req'[q].srv = "releasing" PROVE KidsKept(q)
      OBVIOUS
    <3> DEFINE js == IF row[req[r].job] = "enqueued" THEN {req[r].job} ELSE {}
    <3>1. \A k \in Jobs \ js : row'[k] = row[k]  BY <1>5, <2>3 DEF SetJobPending
    <3>2. Marked({}) = req  BY <1>0 DEF Marked
    <3>3. req' = [Marked(js) EXCEPT ![r] = Left(Marked(js)[r])]
      BY <1>0, <2>3, <3>2, MarkedType DEF SetJobPending
    <3> HIDE DEF js
    <3>4. Marked(js) \in [Requests -> RequestType] /\ Marked(js)[q] \in RequestType
      BY <1>0, MarkedType
    <3>5. req[q] # Idle => req[q].job \in Jobs  BY DEF TypeInv, TypeOK
    <3>6. Marked(js)[q] # Idle => Marked(js)[q].job \in Jobs
      BY <1>0, <3>5, MarkedFields
    <3>7. /\ Left(Marked(js)[q]).srv = Marked(js)[q].srv
          /\ Marked(js)[q].srv = "releasing" =>
               /\ Left(Marked(js)[q]).job = Marked(js)[q].job
               /\ Left(Marked(js)[q]).kids = Marked(js)[q].kids
               /\ Left(Marked(js)[q]).stale = Marked(js)[q].stale
      BY <3>4, <3>6, LeftType
    <3>8. req'[q] = Marked(js)[q] \/ req'[q] = Left(Marked(js)[q])  BY <3>3, <3>4
    <3>9. Marked(js)[q].srv = "releasing"  BY <3>7, <3>8
    <3>10. req[q].srv = "releasing"  BY <1>0, <3>9, MarkedFields
    <3> QED  BY <3>1, <3>7, <3>8, <3>9, <3>10, KidsMarked DEF KidsKept
  <2>4. CASE Listen \/ LoadJobs \/ \E j \in Jobs : ProcessNotification(j)
    BY <1>4, <2>4 DEF Listen, LoadJobs, ProcessNotification, table
  <2> QED  BY <1>6, <2>1, <2>2, <2>3, <2>4 DEF RunnerNext
<1>7. ASSUME NEW r \in Requests,
             \/ Refuse(r) \/ SetStarted(r) \/ Perform(r)
             \/ SetDone(r) \/ NothingToDoLost(r) \/ StoreConflict(r) \/ DataConflict(r)
             \/ RaiseRetryable(r) \/ RaiseIgnoreRetry(r) \/ RaiseError(r)
             \/ EnqueueWaiting(r) \/ ReleaseChildren(r) \/ ReleaseFails(r) \/ ServerCrash(r)
      PROVE  ReleasesStep
  <2> DEFINE j == req[r].job
  <2>1. ASSUME NEW js, NEW answered, req' = [Marked(js) EXCEPT ![r] = Ended(@, answered)],
               \A k \in Jobs \ js : row'[k] = row[k]
        PROVE  ReleasesStep
    <3>1. Marked(js) \in [Requests -> RequestType]  BY <1>0, MarkedType
    <3>2. PICK new : new = Ended(Marked(js)[r], answered)  OBVIOUS
    <3>3. req' = [Marked(js) EXCEPT ![r] = new]  BY <2>1, <3>1, <3>2
    <3>4. new.srv # "releasing"  BY <3>2, EndedOver
    <3> QED  BY <1>1, <2>1, <3>3, <3>4
  <2>2. CASE Refuse(r) \/ NothingToDoLost(r) \/ ReleaseFails(r) \/ ServerCrash(r)
    <3>1. PICK answered : req' = [req EXCEPT ![r] = Ended(req[r], answered)]
      BY <2>2 DEF Refuse, NothingToDoLost, ReleaseFails, ServerCrash
    <3>2. row' = row
      BY <2>2 DEF Refuse, NothingToDoLost, ReleaseFails, ServerCrash, table
    <3> QED  BY <1>2, <3>1, <3>2, EndedOver
  <2>3. CASE Perform(r)
    <3> DEFINE new == [req[r] EXCEPT !.srv = "performing"]
    <3>1. new.srv # "releasing"  BY <1>0 DEF RequestType
    <3>2. req' = [req EXCEPT ![r] = new] /\ row' = row  BY <2>3 DEF Perform, table
    <3> HIDE DEF new
    <3> QED  BY <1>2, <3>1, <3>2
  <2>4. CASE SetStarted(r)
    <3>1. Marked({j}) \in [Requests -> RequestType]  BY <1>0, MarkedType
    <3>2. PICK new : new = [Marked({j})[r] EXCEPT !.srv = "started",
                              !.blocked = Unfinished(j) # {}, !.closed = j \in closed,
                              !.tries = retry[j] + 1]
      OBVIOUS
    <3>3. req' = [Marked({j}) EXCEPT ![r] = new] /\ WriteOne(j, "started")
      BY <2>4, <3>1, <3>2 DEF SetStarted
    <3>4. new.srv # "releasing"  BY <3>1, <3>2 DEF RequestType
    <3> QED  BY <1>1, <1>5, <3>3, <3>4
  <2>5. CASE SetDone(r)
    <3> DEFINE new == [Idle EXCEPT !.job = j, !.client = req[r].client, !.srv = "done"]
    <3>1. new.srv # "releasing"  BY DEF Idle
    <3>2. req' = [Marked({j}) EXCEPT ![r] = new] /\ WriteOne(j, "done")
      BY <2>5 DEF SetDone
    <3> HIDE DEF new
    <3> QED  BY <1>1, <1>5, <3>1, <3>2
  <2>6. CASE StoreConflict(r) \/ DataConflict(r) \/ RaiseRetryable(r) \/ RaiseIgnoreRetry(r)
    <3>1. PICK count : Postpone(r, count)
      BY <2>6 DEF StoreConflict, DataConflict, RaiseRetryable, RaiseIgnoreRetry
    <3> QED  BY <1>5, <2>1, <3>1 DEF Postpone
  <2>7. CASE RaiseError(r)  BY <1>5, <2>1, <2>7 DEF RaiseError
  <2>8. CASE EnqueueWaiting(r)
    <3>1. \A q \in Requests \ {r} : req'[q] = req[q]  BY <1>0, <2>8 DEF EnqueueWaiting
    <3>2. row' = row  BY <2>8 DEF EnqueueWaiting, table
    <3> QED  BY <2>8, <3>1, <3>2 DEF KidsKept
  <2>9. CASE ReleaseChildren(r)
    <3>1. req' = [Marked(req[r].kids) EXCEPT ![r] = Ended(@, TRUE)]
      BY <2>9 DEF ReleaseChildren
    <3>2. \A k \in Jobs \ req[r].kids : row'[k] = row[k]
      BY <2>9 DEF ReleaseChildren, Write
    <3> QED  BY <2>1, <3>1, <3>2
  <2> QED  BY <1>7, <2>2, <2>3, <2>4, <2>5, <2>6, <2>7, <2>8, <2>9
<1>8. ASSUME NEW j \in Jobs,
             \/ ButtonDone(j) \/ ButtonCancelled(j) \/ Requeue(j)
             \/ RequeueStuckJob(j) \/ Autovacuum(j)
      PROVE  ReleasesStep
  <2>1. CASE ButtonDone(j)
    <3>1. PICK js : js = {j} \cup Released(j)  OBVIOUS
    <3>2. req' = Marked(js) /\ \A k \in Jobs \ js : row'[k] = row[k]
      BY <2>1, <3>1 DEF ButtonDone, Write
    <3> QED  BY <1>3, <3>2
  <2>2. CASE ButtonCancelled(j)  BY <1>3, <1>5, <2>2 DEF ButtonCancelled
  <2>3. CASE Requeue(j) \/ RequeueStuckJob(j)
    BY <1>3, <1>5, <2>3 DEF Requeue, RequeueStuckJob, SetPending
  <2>4. CASE Autovacuum(j)
    BY <1>4, <2>4 DEF Autovacuum, TypeInv, TypeOK
  <2> QED  BY <1>8, <2>1, <2>2, <2>3, <2>4
<1> QED  BY <1>6, <1>7, <1>8 DEF Next, ServerNext, UserNext

LEMMA KidsStep == TypeInv /\ KidsInv /\ [Next]_vars => KidsInv'
<1> SUFFICES ASSUME TypeInv, KidsInv, [Next]_vars PROVE KidsInv'  OBVIOUS
<1> USE DEF TypeInv, TypeOK
<1>1. CASE UNCHANGED vars
  BY <1>1 DEF vars, table, memory, history, KidsInv, WaitingNotClosed, KidsWait
<1>2. CASE Next
  <2>1. WaitingNotClosed'
    <3> USE DEF KidsInv, WaitingNotClosed
    <3>1. ASSUME NEW j \in Jobs, NEW s, WriteOne(j, s),
                 \/ s # "wait_dependencies" /\ closed' \subseteq closed \cup {j}
                 \/ closed' \subseteq closed \ {j}
          PROVE  WaitingNotClosed'
      <4>1. row' = [row EXCEPT ![j] = s]  BY <3>1 DEF WriteOne, Write
      <4>2. ASSUME NEW k \in closed' PROVE row'[k] # "wait_dependencies"
        <5>1. k \in closed \/ (k = j /\ s # "wait_dependencies")  BY <3>1, <4>2
        <5>2. k \in Jobs  BY <3>1, <4>2, <5>1
        <5>3. CASE k = j  BY <3>1, <4>1, <4>2, <5>2, <5>3
        <5>4. CASE k # j  BY <3>1, <4>1, <4>2, <5>1, <5>2, <5>4
        <5> QED  BY <5>3, <5>4
      <4> QED  BY <4>2
    <3>2. CASE UNCHANGED <<row, closed>>  BY <3>2
    <3>3. CASE RunnerNext
      <4>1. ASSUME NEW j \in Jobs, NEW r \in Requests, RunJob(j, r) PROVE WaitingNotClosed'
        BY <3>1, <3>2, <4>1 DEF RunJob
      <4>2. ASSUME NEW r \in Requests, SetJobPending(r) PROVE WaitingNotClosed'
        <5>1. req[r].job \in Jobs  BY <4>2 DEF SetJobPending, Idle
        <5> QED  BY <3>1, <3>2, <4>2, <5>1 DEF SetJobPending
      <4>3. CASE \/ Listen \/ LoadJobs \/ \E killed \in BOOLEAN : RunnerStops(killed)
                 \/ \E j \in Jobs : ProcessNotification(j)
        BY <3>2, <4>3 DEF Listen, LoadJobs, RunnerStops, ProcessNotification, table
      <4> QED  BY <3>3, <4>1, <4>2, <4>3 DEF RunnerNext
    <3>0. \A r \in Requests : req[r].srv # "none" \/ req[r].client => req[r].job \in Jobs
      BY DEF Idle
    <3>4. ASSUME NEW r \in Requests,
                 \/ Refuse(r) \/ Perform(r) \/ NothingToDoLost(r) \/ EnqueueWaiting(r)
                 \/ ReleaseFails(r) \/ ServerCrash(r)
          PROVE  WaitingNotClosed'
      BY <3>2, <3>4 DEF Refuse, Perform, NothingToDoLost, EnqueueWaiting, ReleaseFails,
                        ServerCrash, table
    <3>5. ASSUME NEW r \in Requests,
                 \/ SetStarted(r) \/ SetDone(r) \/ StoreConflict(r) \/ DataConflict(r)
                 \/ RaiseRetryable(r) \/ RaiseIgnoreRetry(r) \/ RaiseError(r)
          PROVE  WaitingNotClosed'
      <4>0. req[r].job \in Jobs
        BY <3>0, <3>5 DEF SetStarted, SetDone, StoreConflict, DataConflict, RaiseRetryable,
                          RaiseIgnoreRetry, RaiseError
      <4>1. CASE SetStarted(r)  BY <3>1, <4>0, <4>1 DEF SetStarted
      <4>2. CASE SetDone(r)  BY <3>1, <4>0, <4>2 DEF SetDone
      <4>3. CASE RaiseError(r)
        <5>1. closed' \subseteq closed \cup {req[r].job}  BY <4>3 DEF RaiseError
        <5>2. WriteOne(req[r].job, "failed")  BY <4>3 DEF RaiseError
        <5> QED  BY <3>1, <4>0, <5>1, <5>2
      <4>4. ASSUME NEW count, Postpone(r, count) PROVE WaitingNotClosed'
        BY <3>1, <4>0, <4>4 DEF Postpone
      <4> QED  BY <3>5, <4>1, <4>2, <4>3, <4>4
               DEF StoreConflict, DataConflict, RaiseRetryable, RaiseIgnoreRetry
    <3>6. ASSUME NEW r \in Requests, ReleaseChildren(r) PROVE WaitingNotClosed'
      BY <3>6 DEF ReleaseChildren, Write
    <3>7. ASSUME NEW j \in Jobs, ButtonDone(j) PROVE WaitingNotClosed'
      BY <3>7 DEF ButtonDone, Write
    <3>8. ASSUME NEW j \in Jobs,
                 ButtonCancelled(j) \/ Requeue(j) \/ RequeueStuckJob(j) \/ Autovacuum(j)
          PROVE  WaitingNotClosed'
      <4>1. CASE ButtonCancelled(j)  BY <3>1, <4>1 DEF ButtonCancelled
      <4>2. CASE Requeue(j) \/ RequeueStuckJob(j)
        BY <3>1, <4>2 DEF Requeue, RequeueStuckJob, SetPending
      <4>3. CASE Autovacuum(j)  BY <4>3 DEF Autovacuum
      <4> QED  BY <3>8, <4>1, <4>2, <4>3
    <3> QED  BY <1>2, <3>3, <3>4, <3>5, <3>6, <3>7, <3>8 DEF Next, ServerNext, UserNext
  <2>2. ReleasesStep  BY <1>2, ReleasesFrame
  <2>3. ASSUME NEW q \in Requests, req'[q].srv = "releasing", ~req'[q].stale, NEW k \in req'[q].kids
        PROVE  row'[k] = "wait_dependencies"
    <3>1. CASE EnqueueWaiting(q)  BY <2>3, <3>1, KidsFound DEF Released
    <3>2. CASE KidsKept(q)
      BY <2>3, <3>2 DEF KidsKept, KidsInv, KidsWait, WaitingNotClosed
    <3> QED  BY <2>2, <2>3, <3>1, <3>2 DEF ReleasesStep
  <2> QED  BY <2>1, <2>3 DEF KidsInv, KidsWait
<1> QED  BY <1>1, <1>2

LEMMA KidsInit == Init => KidsInv
BY DEF Init, KidsInv, WaitingNotClosed, KidsWait, Idle

\* The children that a release writes are jobs that wait.
LEMMA ReleasedWait ==
    ASSUME TypeInv, KidsInv, NEW r \in Requests, ReleaseChildren(r), NEW k \in req[r].kids
    PROVE  k \in Jobs /\ row[k] = "wait_dependencies"
<1>1. req[r].kids \subseteq Jobs  BY DEF TypeInv, TypeOK, RequestType
<1> QED  BY <1>1 DEF ReleaseChildren, KidsInv, KidsWait

-----------------------------------------------------------------------------
(* Dependencies.  A job can only come to execution through "pending", which it *)
(* reaches when its parents are done; the runner may make a stale copy of that *)
(* state active again, and the row of a parent may change, but a parent that   *)
(* was done once has been done, and one that was deleted stays deleted.        *)

ParentsMet(j) == \A p \in Depends[j] : p \in wasDone \/ row[p] = "none"

\* Jobs on their way to execution, in the table or in the runner's queue.
ComesReleased ==
    \A j \in Jobs :
        row[j] \in {"pending", "enqueued", "started"} \/ mem[j] = "queue" => ParentsMet(j)

DoneWasDone == \A j \in Jobs : row[j] = "done" => j \in wasDone

ExecutionsMet ==
    \A r \in Requests : req[r].srv \in Executing =>
        req[r].job \in Jobs /\ row[req[r].job] # "none" /\ ParentsMet(req[r].job)

\* So are the children that a worker is about to release.
KidsMet ==
    \A r \in Requests : req[r].srv = "releasing" => \A k \in req[r].kids : k \in Jobs /\ ParentsMet(k)

ParentsInv == ComesReleased /\ DoneWasDone /\ ExecutionsMet /\ KidsMet

\* Only SetStarted begins an execution, and it stays about the same job and what
\* the worker knows of its parents.
ExecutionsStep ==
    \A q \in Requests : req'[q].srv \in Executing =>
        /\ req'[q].job = req[q].job
        /\ \/ SetStarted(q)
           \/ req[q].srv \in Executing /\ req'[q].blocked = req[q].blocked

LEMMA ExecutionsFrame == TypeInv /\ Next => ExecutionsStep
<1> SUFFICES ASSUME TypeInv, Next PROVE ExecutionsStep  OBVIOUS
<1> USE DEF ExecutionsStep, SameExecution
<1>1. ASSUME NEW r \in Requests, NEW js, NEW new, new.srv \notin Executing,
             req' = [Marked(js) EXCEPT ![r] = new]
      PROVE  ExecutionsStep
  <2>1. req'[r] = new /\ \A q \in Requests \ {r} : SameExecution(q)
    BY <1>1, OtherRequests
  <2> QED  BY <1>1, <2>1
<1>2. ASSUME NEW r \in Requests, NEW new, new.srv \notin Executing,
             req' = [req EXCEPT ![r] = new]
      PROVE  ExecutionsStep
  BY <1>2 DEF TypeInv, TypeOK
<1>3. ASSUME NEW js, req' = Marked(js) PROVE ExecutionsStep
  <2>1. ASSUME NEW q \in Requests
        PROVE  SameExecution(q)
    BY <1>3, MarkedFields DEF SameExecution, TypeInv, TypeOK
  <2> QED  BY <2>1
<1>4. CASE UNCHANGED req  BY <1>4
<1>5. CASE RunnerNext
  <2>1. ASSUME NEW j \in Jobs, NEW r \in Requests, RunJob(j, r) PROVE ExecutionsStep
    <3> DEFINE sent == [Idle EXCEPT !.job = j, !.client = TRUE, !.srv = "sent"]
    <3>1. sent.srv \notin Executing  BY DEF Idle, Executing
    <3>2. req' = [Marked({j}) EXCEPT ![r] = sent]  BY <2>1 DEF RunJob
    <3> HIDE DEF sent
    <3> QED  BY <1>1, <3>1, <3>2
  <2>2. ASSUME NEW killed \in BOOLEAN, RunnerStops(killed) PROVE ExecutionsStep
    <3> SUFFICES ASSUME NEW q \in Requests, req'[q].srv \in Executing
                 PROVE  SameExecution(q)
      OBVIOUS
    <3>1. req'[q] = Left(req[q]) \/ req'[q] = req[q]  BY <2>2 DEF RunnerStops
    <3>2. req[q] \in RequestType /\ (req[q] # Idle => req[q].job \in Jobs)
      BY DEF TypeInv, TypeOK
    <3>3. /\ Left(req[q]).srv = req[q].srv
          /\ req[q].srv # "none" =>
               Left(req[q]).job = req[q].job /\ Left(req[q]).blocked = req[q].blocked
      BY <3>2, LeftType
    <3> QED  BY <3>1, <3>3 DEF Executing
  <2>3. ASSUME NEW r \in Requests, SetJobPending(r) PROVE ExecutionsStep
    <3>1. PICK js : req' = [Marked(js) EXCEPT ![r] = Left(Marked(js)[r])]
                    \/ req' = [req EXCEPT ![r] = Left(req[r])]
      BY <2>3, MarkedType DEF SetJobPending, TypeInv, TypeOK
    <3>2. ASSUME NEW q \in RequestType, q.job = req[r].job, q.srv = req[r].srv,
                 q.blocked = req[r].blocked
          PROVE  /\ Left(q).srv = req[r].srv
                 /\ Left(q).srv \in Executing =>
                      Left(q).job = req[r].job /\ Left(q).blocked = req[r].blocked
      <4>1. req[r].srv # "none" => req[r].job \in Jobs  BY DEF TypeInv, TypeOK, Idle
      <4>2. CASE req[r].srv # "none"  BY <3>2, <4>1, <4>2, LeftType
      <4>3. CASE req[r].srv = "none"
        <5>1. Left(q) = Idle  BY <3>2, <4>3 DEF Left
        <5> QED  BY <4>3, <5>1 DEF Idle, Executing
      <4> QED  BY <4>2, <4>3
    <3>3. CASE req' = [Marked(js) EXCEPT ![r] = Left(Marked(js)[r])]
      <4>1. /\ Marked(js)[r] \in RequestType /\ Marked(js)[r].job = req[r].job
            /\ Marked(js)[r].srv = req[r].srv /\ Marked(js)[r].blocked = req[r].blocked
        BY MarkedFields DEF TypeInv, TypeOK
      <4>2. PICK new : new = Left(Marked(js)[r])  OBVIOUS
      <4>3. /\ new.srv = req[r].srv
            /\ new.srv \in Executing => new.job = req[r].job /\ new.blocked = req[r].blocked
        BY <3>2, <4>1, <4>2
      <4>4. req' = [Marked(js) EXCEPT ![r] = new]  BY <3>3, <4>2
      <4>5. req'[r] = new /\ \A q \in Requests \ {r} : SameExecution(q)
        BY <4>4, OtherRequests
      <4> QED  BY <4>3, <4>5
    <3>4. CASE req' = [req EXCEPT ![r] = Left(req[r])]
      <4>1. req[r] \in RequestType  BY DEF TypeInv, TypeOK
      <4>2. /\ Left(req[r]).srv = req[r].srv
            /\ Left(req[r]).srv \in Executing =>
                 Left(req[r]).job = req[r].job /\ Left(req[r]).blocked = req[r].blocked
        BY <3>2, <4>1
      <4> QED  BY <3>4, <4>2 DEF TypeInv, TypeOK
    <3> QED  BY <3>1, <3>3, <3>4
  <2>4. CASE Listen \/ LoadJobs \/ \E j \in Jobs : ProcessNotification(j)
    BY <1>4, <2>4 DEF Listen, LoadJobs, ProcessNotification
  <2> QED  BY <1>5, <2>1, <2>2, <2>3, <2>4 DEF RunnerNext
<1>6. CASE ServerNext
  <2>1. ASSUME NEW r \in Requests,
               Refuse(r) \/ NothingToDoLost(r) \/ ReleaseFails(r) \/ ServerCrash(r)
        PROVE  ExecutionsStep
    <3>1. PICK answered : req' = [req EXCEPT ![r] = Ended(req[r], answered)]
      BY <2>1 DEF Refuse, NothingToDoLost, ReleaseFails, ServerCrash
    <3> QED  BY <1>2, <3>1, EndedNotExecuting
  <2>2. ASSUME NEW r \in Requests, SetStarted(r) PROVE ExecutionsStep
    <3> DEFINE j == req[r].job
               new == [Marked({j})[r] EXCEPT !.srv = "started",
                         !.blocked = Unfinished(j) # {}, !.closed = j \in closed,
                         !.tries = retry[j] + 1]
    <3>1. Marked({j})[r] \in RequestType /\ Marked({j})[r].job = j
      BY MarkedFields DEF TypeInv, TypeOK
    <3>2. new.job = j  BY <3>1 DEF RequestType
    <3>3. req' = [Marked({j}) EXCEPT ![r] = new]
      BY <2>2, MarkedType DEF SetStarted, TypeInv, TypeOK
    <3> HIDE DEF new
    <3>4. req'[r] = new /\ \A q \in Requests \ {r} : SameExecution(q)
      BY <3>3, OtherRequests
    <3> QED  BY <2>2, <3>2, <3>4
  <2>3. ASSUME NEW r \in Requests, Perform(r) PROVE ExecutionsStep
    <3> DEFINE new == [req[r] EXCEPT !.srv = "performing"]
    <3>1. new.job = req[r].job /\ new.blocked = req[r].blocked /\ req[r].srv \in Executing
      BY <2>3 DEF Perform, TypeInv, TypeOK, RequestType, Executing
    <3>2. req' = [req EXCEPT ![r] = new]  BY <2>3 DEF Perform
    <3> HIDE DEF new
    <3> QED  BY <3>1, <3>2 DEF TypeInv, TypeOK
  <2>4. ASSUME NEW r \in Requests, SetDone(r) PROVE ExecutionsStep
    <3> DEFINE new == [Idle EXCEPT !.job = req[r].job, !.client = req[r].client, !.srv = "done"]
    <3>1. new.srv \notin Executing  BY DEF Idle, Executing
    <3>2. req' = [Marked({req[r].job}) EXCEPT ![r] = new]  BY <2>4 DEF SetDone
    <3> HIDE DEF new
    <3> QED  BY <1>1, <3>1, <3>2
  <2>5. ASSUME NEW r \in Requests,
               \/ StoreConflict(r) \/ DataConflict(r)
               \/ RaiseRetryable(r) \/ RaiseIgnoreRetry(r) \/ RaiseError(r) \/ ReleaseChildren(r)
        PROVE  ExecutionsStep
    <3>1. ASSUME NEW js, NEW answered, req' = [Marked(js) EXCEPT ![r] = Ended(@, answered)]
          PROVE  ExecutionsStep
      <4>1. Marked(js) \in [Requests -> RequestType]  BY MarkedType DEF TypeInv, TypeOK
      <4>2. req' = [Marked(js) EXCEPT ![r] = Ended(Marked(js)[r], answered)]
        BY <3>1, <4>1
      <4> QED  BY <1>1, <4>2, EndedNotExecuting
    <3>2. CASE RaiseError(r)  BY <3>1, <3>2 DEF RaiseError
    <3>3. CASE ReleaseChildren(r)  BY <3>1, <3>3 DEF ReleaseChildren
    <3>4. ASSUME NEW count, Postpone(r, count) PROVE ExecutionsStep
      BY <3>1, <3>4 DEF Postpone
    <3> QED  BY <2>5, <3>2, <3>3, <3>4
             DEF StoreConflict, DataConflict, RaiseRetryable, RaiseIgnoreRetry
  <2>6. ASSUME NEW r \in Requests, EnqueueWaiting(r) PROVE ExecutionsStep
    <3> DEFINE rel == IF row[req[r].job] = "none" THEN {} ELSE Released(req[r].job)
    <3>1. PICK new : /\ req' = [req EXCEPT ![r] = new]
                     /\ \/ new = Ended(req[r], TRUE)
                        \/ new = [req[r] EXCEPT !.srv = "releasing", !.kids = rel, !.stale = FALSE]
      BY <2>6 DEF EnqueueWaiting
    <3> HIDE DEF rel
    <3>2. new.srv \notin Executing
      <4>1. CASE new = Ended(req[r], TRUE)  BY <4>1, EndedNotExecuting
      <4>2. CASE new = [req[r] EXCEPT !.srv = "releasing", !.kids = rel, !.stale = FALSE]
        BY <4>2 DEF TypeInv, TypeOK, RequestType, Executing
      <4> QED  BY <3>1, <4>1, <4>2
    <3> QED  BY <1>2, <3>1, <3>2
  <2> QED  BY <1>6, <2>1, <2>2, <2>3, <2>4, <2>5, <2>6 DEF ServerNext
<1>7. CASE UserNext
  BY <1>3, <1>4, <1>7 DEF UserNext, ButtonDone, ButtonCancelled, Requeue, RequeueStuckJob,
                          SetPending, Autovacuum
<1> QED  BY <1>5, <1>6, <1>7 DEF Next

\* What a step does to the rows and to the runner's queue, as far as parents go.
ParentsFrame ==
    /\ wasDone \subseteq wasDone'
    /\ \A k \in Jobs : row[k] = "none" => row'[k] = "none"
    /\ \A k \in Jobs : row'[k] = "none" =>
          row[k] = "none" \/ \A r \in Requests : req[r].job # k
    /\ \A k \in Jobs :
          row'[k] \in {"pending", "enqueued", "started"} \/ mem'[k] = "queue" =>
            ParentsMet(k) \/ ParentsMet(k)'
    /\ DoneWasDone'

LEMMA MetStays ==
    ASSUME NEW j \in Jobs, wasDone \subseteq wasDone', ParentsMet(j),
           \A k \in Jobs : row[k] = "none" => row'[k] = "none"
    PROVE  ParentsMet(j)'
BY DependsType DEF ParentsMet

\* All parents done or deleted: they have been done or deleted.
LEMMA UnblockedMet ==
    ASSUME DoneWasDone, NEW j \in Jobs, Unfinished(j) = {} PROVE ParentsMet(j)
BY DependsType DEF DoneWasDone, Unfinished, ParentsMet

LEMMA RunnerParents == TypeInv /\ ParentsInv /\ RunnerNext => ParentsFrame
<1> SUFFICES ASSUME TypeInv, ParentsInv, RunnerNext PROVE ParentsFrame  OBVIOUS
<1> USE DEF TypeInv, TypeOK, ParentsInv, ParentsFrame, DoneWasDone, ComesReleased
<1>1. CASE Listen \/ \E killed \in BOOLEAN : RunnerStops(killed)
  BY <1>1 DEF Listen, RunnerStops, table, history
<1>2. CASE LoadJobs
  BY <1>2 DEF LoadJobs, history, notify, NOT_DONE, Active, Reread
<1>3. ASSUME NEW j \in Jobs, ProcessNotification(j) PROVE ParentsFrame
  <2>1. notify(row[j], mem[j], eta[j] = "moved") = "queue" =>
           row[j] = "pending" \/ mem[j] = "queue"
    BY DEF notify, Active, RowStates
  <2> QED  BY <1>3, <2>1 DEF ProcessNotification, history
<1>4. ASSUME NEW j \in Jobs, NEW r \in Requests, RunJob(j, r) PROVE ParentsFrame
  BY <1>4 DEF RunJob, WriteOne, Write, history
<1>5. ASSUME NEW r \in Requests, SetJobPending(r) PROVE ParentsFrame
  BY <1>5 DEF SetJobPending, WriteOne, Write, history
<1> QED  BY <1>1, <1>3, <1>2, <1>4, <1>5 DEF RunnerNext

LEMMA ServerParents == TypeInv /\ KidsInv /\ ParentsInv /\ ServerNext => ParentsFrame
<1> SUFFICES ASSUME TypeInv, KidsInv, ParentsInv, NEW r \in Requests,
                    \/ Refuse(r) \/ SetStarted(r) \/ Perform(r)
                    \/ SetDone(r) \/ NothingToDoLost(r) \/ StoreConflict(r)
                    \/ DataConflict(r) \/ RaiseRetryable(r) \/ RaiseIgnoreRetry(r)
                    \/ RaiseError(r) \/ EnqueueWaiting(r) \/ ReleaseChildren(r)
                    \/ ReleaseFails(r) \/ ServerCrash(r)
             PROVE  ParentsFrame
  BY DEF ServerNext
<1> USE DEF TypeInv, TypeOK, ParentsInv, ParentsFrame, DoneWasDone, ComesReleased
<1> DEFINE j == req[r].job
<1>1. req[r].srv \in Executing => j \in Jobs /\ row[j] # "none" /\ ParentsMet(j)
  BY DEF ExecutionsMet
<1>2. CASE \/ Refuse(r) \/ Perform(r) \/ NothingToDoLost(r) \/ EnqueueWaiting(r)
           \/ ReleaseFails(r) \/ ServerCrash(r)
  BY <1>2 DEF Refuse, Perform, NothingToDoLost, EnqueueWaiting, ReleaseFails, ServerCrash,
              table, memory, history
<1>3. CASE SetStarted(r)
  BY <1>3 DEF SetStarted, WriteOne, Write, history
<1>4. CASE SetDone(r) \/ RaiseError(r)
  BY <1>1, <1>4 DEF SetDone, RaiseError, WriteOne, Write, history, Executing
<1>5. CASE StoreConflict(r) \/ DataConflict(r) \/ RaiseRetryable(r) \/ RaiseIgnoreRetry(r)
  <2>1. PICK count : Postpone(r, count)
    BY <1>5 DEF StoreConflict, DataConflict, RaiseRetryable, RaiseIgnoreRetry
  <2>2. req[r].srv \in Executing /\ wasDone' = wasDone
    BY <1>5 DEF StoreConflict, DataConflict, RaiseRetryable, RaiseIgnoreRetry, history,
                Executing
  <2> QED  BY <1>1, <2>1, <2>2 DEF Postpone, WriteOne, Write, PendingState
<1>6. CASE ReleaseChildren(r)
  <2>1. PICK kids : kids = req[r].kids  OBVIOUS
  <2>2. \A c \in kids : c \in Jobs /\ row[c] = "wait_dependencies" /\ ParentsMet(c)
    BY <1>6, <2>1, ReleasedWait DEF KidsMet, ReleaseChildren
  <2>3. row' = [k \in Jobs |-> IF k \in kids THEN "pending" ELSE row[k]]
        /\ UNCHANGED <<mem, wasDone>>
    BY <1>6, <2>1 DEF ReleaseChildren, Write, history
  <2> QED  BY <2>2, <2>3
<1> QED  BY <1>2, <1>3, <1>4, <1>5, <1>6

LEMMA UserParents == TypeInv /\ ParentsInv /\ UserNext => ParentsFrame
<1> SUFFICES ASSUME TypeInv, ParentsInv, NEW j \in Jobs,
                    \/ ButtonDone(j) \/ ButtonCancelled(j) \/ Requeue(j)
                    \/ RequeueStuckJob(j) \/ Autovacuum(j)
             PROVE  ParentsFrame
  BY DEF UserNext
<1> USE DEF TypeInv, TypeOK, ParentsInv, ParentsFrame, DoneWasDone, ComesReleased
<1>1. CASE ButtonDone(j)
  <2> DEFINE rel == Released(j)
  <2>1. /\ row[j] # "none"
        /\ row' = [k \in Jobs |-> IF k = j THEN "done"
                                   ELSE IF k \in rel THEN "pending" ELSE row[k]]
        /\ wasDone' = wasDone \cup {j}
        /\ mem' = mem
    BY <1>1 DEF ButtonDone, Write
  <2>2. \A c \in rel : c \in Jobs /\ row[c] = "wait_dependencies" /\ ParentsMet(c)
    BY UnblockedMet DEF Released
  <2> HIDE DEF rel
  <2>3. ASSUME NEW c \in rel PROVE ParentsMet(c)'
    <3>1. ASSUME NEW p \in Depends[c] PROVE p \in wasDone' \/ row'[p] = "none"
      <4>1. p \in Jobs  BY <2>2, DependsType
      <4>2. CASE p \in wasDone  BY <2>1, <4>2
      <4>3. CASE row[p] = "none"  BY <2>1, <2>2, <4>1, <4>3
      <4> QED  BY <2>2, <4>2, <4>3 DEF ParentsMet
    <3> QED  BY <3>1 DEF ParentsMet
  <2> QED  BY <2>1, <2>2, <2>3
<1>2. CASE ButtonCancelled(j)
  BY <1>2 DEF ButtonCancelled, WriteOne, Write
<1>3. CASE Requeue(j) \/ RequeueStuckJob(j)
  <2>1. SetPending(j) /\ row[j] # "none"  BY <1>3 DEF Requeue, RequeueStuckJob
  <2>2. Unfinished(j) = {} => ParentsMet(j)  BY UnblockedMet
  <2> QED  BY <2>1, <2>2 DEF SetPending, WriteOne, Write, PendingState
<1>4. CASE Autovacuum(j)
  BY <1>4 DEF Autovacuum, history
<1> QED  BY <1>1, <1>2, <1>3, <1>4

LEMMA ParentsStep ==
    ASSUME TypeInv, ParentsInv, ParentsFrame, ExecutionsStep, ReleasesStep PROVE ParentsInv'
<1>1. DoneWasDone'  BY DEF ParentsFrame
<1>2. ComesReleased'
  BY MetStays DEF ParentsFrame, ComesReleased
<1>3. ASSUME NEW q \in Requests, req'[q].srv \in Executing
      PROVE  \E j \in Jobs : req'[q].job = j /\ row'[j] # "none" /\ ParentsMet(j)'
  <2>1. PICK j \in Jobs : req[q].job = j /\ row[j] # "none" /\ ParentsMet(j)
    <3>1. CASE req[q].srv \in Executing  BY <3>1 DEF ParentsInv, ExecutionsMet
    <3>2. CASE SetStarted(q)
      <4>1. req[q].job \in Jobs /\ row[req[q].job] = "enqueued"
        BY <3>2 DEF SetStarted, TypeInv, TypeOK, Idle
      <4> QED  BY <4>1 DEF ParentsInv, ComesReleased
    <3> QED  BY <1>3, <3>1, <3>2 DEF ExecutionsStep
  <2>2. req'[q].job = j  BY <1>3, <2>1 DEF ExecutionsStep
  <2>3. row'[j] # "none"  BY <2>1 DEF ParentsFrame
  <2>4. ParentsMet(j)'  BY <2>1, MetStays DEF ParentsFrame
  <2> QED  BY <2>2, <2>3, <2>4
<1>4. ExecutionsMet'
  BY <1>3 DEF ExecutionsMet, ParentsMet
<1>5. ASSUME NEW q \in Requests, req'[q].srv = "releasing", NEW k \in req'[q].kids
      PROVE  k \in Jobs /\ ParentsMet(k)'
  <2>1. k \in Jobs /\ ParentsMet(k)
    <3>1. CASE EnqueueWaiting(q)
      <4>1. k \in Released(req[q].job)  BY <1>5, <3>1, KidsFound
      <4> QED  BY <4>1, UnblockedMet DEF Released, ParentsInv
    <3>2. CASE KidsKept(q)  BY <1>5, <3>2 DEF KidsKept, ParentsInv, KidsMet
    <3> QED  BY <1>5, <3>1, <3>2 DEF ReleasesStep
  <2> QED  BY <2>1, MetStays DEF ParentsFrame
<1>6. KidsMet'  BY <1>5 DEF KidsMet, ParentsMet
<1> QED  BY <1>1, <1>2, <1>4, <1>6 DEF ParentsInv

\* No job is executed before each of its parents was once done, or was deleted,
\* for every dependency graph and whatever users, crons and faults do.
THEOREM ParentsAlwaysFirst == Spec => []ParentsFirst
<1>1. Init => TypeInv /\ KidsInv /\ ParentsInv
  <2> SUFFICES ASSUME Init PROVE ParentsInv  BY TypeInit, KidsInit
  <2> QED  BY DEF Init, ParentsInv, ComesReleased, DoneWasDone, ExecutionsMet, KidsMet,
                  ParentsMet, PendingState, Idle, Executing
<1>2. TypeInv /\ KidsInv /\ ParentsInv /\ [Next]_vars => TypeInv' /\ KidsInv' /\ ParentsInv'
  <2> SUFFICES ASSUME TypeInv, KidsInv, ParentsInv, [Next]_vars
               PROVE  TypeInv' /\ KidsInv' /\ ParentsInv'
    OBVIOUS
  <2>1. TypeInv'  BY RunnerType, ServerType, UserType, TypeStutter DEF Next
  <2>2. KidsInv'  BY KidsStep
  <2>3. CASE Next
    <3>1. ParentsFrame  BY <2>3, RunnerParents, ServerParents, UserParents DEF Next
    <3>2. ExecutionsStep /\ ReleasesStep  BY <2>3, ExecutionsFrame, ReleasesFrame
    <3> QED  BY <2>1, <2>2, <3>1, <3>2, ParentsStep
  <2>4. CASE UNCHANGED vars
    BY <2>1, <2>2, <2>4 DEF vars, table, memory, history, ParentsInv, ComesReleased,
                            DoneWasDone, ExecutionsMet, KidsMet, ParentsMet
  <2> QED  BY <2>3, <2>4
<1>3. ParentsInv => ParentsFirst
  BY DEF ParentsInv, ExecutionsMet, ParentsFirst, ParentsMet
<1> QED  BY <1>1, <1>2, <1>3, PTL DEF Spec

-----------------------------------------------------------------------------
(* One execution at a time.  As long as no user touched a job, its row says    *)
(* started exactly while it must: a queued job is pending, so RunJob does not  *)
(* overwrite an execution, and an execution begins from "enqueued" only.       *)

QueuedPending ==
    \A j \in Jobs : touches[j] = 0 /\ mem[j] = "queue" => row[j] = "pending"

ExecutionStarted ==
    \A r \in Requests : req[r].srv \in Executing =>
        req[r].job \in Jobs /\ (touches[req[r].job] = 0 => row[req[r].job] = "started")

\* Only a user makes a job that has a date_done or date_cancelled active again, so
\* autovacuum deletes no execution.
ClosedOver == \A j \in closed : touches[j] = 0 => row[j] \in {"done", "failed"}

SoloInv == QueuedPending /\ ExecutionStarted /\ ClosedOver /\ AtMostOneExecution

\* A job nobody touched leaves "started" only when an execution of it ends.
SoloFrame ==
    /\ \A k \in Jobs : touches'[k] = 0 => touches[k] = 0
    /\ QueuedPending' /\ ClosedOver'
    /\ \A k \in Jobs : touches'[k] = 0 /\ row[k] = "started" /\ row'[k] # "started" =>
          \E r \in Requests : /\ req[r].srv \in Executing /\ req[r].job = k
                             /\ req'[r].srv \notin Executing

LEMMA RunnerSolo == TypeInv /\ SoloInv /\ RunnerNext => SoloFrame
<1> SUFFICES ASSUME TypeInv, SoloInv, RunnerNext PROVE SoloFrame  OBVIOUS
<1> USE DEF TypeInv, TypeOK, SoloInv, SoloFrame, QueuedPending, ClosedOver
<1>1. CASE Listen \/ \E killed \in BOOLEAN : RunnerStops(killed)
  BY <1>1 DEF Listen, RunnerStops, table, history
<1>2. CASE LoadJobs
  BY <1>2 DEF LoadJobs, history, notify, NOT_DONE, Active, Reread
<1>3. ASSUME NEW j \in Jobs, ProcessNotification(j) PROVE SoloFrame
  <2>1. notify(row[j], mem[j], eta[j] = "moved") = "queue" =>
           row[j] = "pending" \/ (row[j] = "wait_dependencies" /\ mem[j] = "queue")
    BY DEF notify, Active, RowStates
  <2> QED  BY <1>3, <2>1 DEF ProcessNotification, history
<1>4. ASSUME NEW j \in Jobs, NEW r \in Requests, RunJob(j, r) PROVE SoloFrame
  BY <1>4 DEF RunJob, WriteOne, Write, history
<1>5. ASSUME NEW r \in Requests, SetJobPending(r) PROVE SoloFrame
  BY <1>5 DEF SetJobPending, WriteOne, Write, history
<1> QED  BY <1>1, <1>3, <1>2, <1>4, <1>5 DEF RunnerNext

LEMMA ServerSolo == TypeInv /\ KidsInv /\ SoloInv /\ ServerNext => SoloFrame
<1> SUFFICES ASSUME TypeInv, KidsInv, SoloInv, NEW r \in Requests,
                    \/ Refuse(r) \/ SetStarted(r) \/ Perform(r)
                    \/ SetDone(r) \/ NothingToDoLost(r) \/ StoreConflict(r)
                    \/ DataConflict(r) \/ RaiseRetryable(r) \/ RaiseIgnoreRetry(r)
                    \/ RaiseError(r) \/ EnqueueWaiting(r) \/ ReleaseChildren(r)
                    \/ ReleaseFails(r) \/ ServerCrash(r)
             PROVE  SoloFrame
  BY DEF ServerNext
<1> USE DEF TypeInv, TypeOK, SoloInv, SoloFrame, QueuedPending, ClosedOver
<1> DEFINE j == req[r].job
<1>1. CASE \/ Refuse(r) \/ Perform(r) \/ NothingToDoLost(r) \/ EnqueueWaiting(r)
           \/ ReleaseFails(r) \/ ServerCrash(r)
  BY <1>1 DEF Refuse, Perform, NothingToDoLost, EnqueueWaiting, ReleaseFails, ServerCrash,
              table, memory, history
<1>2. CASE SetStarted(r)
  BY <1>2 DEF SetStarted, WriteOne, Write, history
\* An execution ends: its job, if untouched, was started and not queued.
<1>3. ASSUME req[r].srv = "performing", req'[r].srv \notin Executing,
             NEW s, row' = [row EXCEPT ![j] = s], UNCHANGED <<mem, touches>>,
             \/ s \in {"done", "failed"} /\ closed' \subseteq closed \cup {j}
             \/ closed' \subseteq closed \ {j}
      PROVE  SoloFrame
  <2>1. req[r].srv \in Executing  BY <1>3 DEF Executing
  <2>2. touches[j] = 0 => row[j] = "started"  BY <2>1 DEF ExecutionStarted
  <2>3. \A k \in Jobs : row'[k] = IF k = j THEN s ELSE row[k]  BY <1>3
  <2>4. \A k \in Jobs : touches[k] = 0 /\ mem[k] = "queue" => row'[k] = "pending"
    BY <2>2, <2>3
  <2>5. ASSUME NEW k \in closed', touches[k] = 0
        PROVE  row'[k] \in {"done", "failed"}
    <3> j \in Jobs  BY <2>1 DEF Executing, Idle
    <3>1. CASE k = j  BY <1>3, <2>3, <2>5, <3>1
    <3>2. CASE k # j  BY <1>3, <2>3, <2>5, <3>2
    <3> QED  BY <3>1, <3>2
  <2>6. \A k \in Jobs : row[k] = "started" /\ row'[k] # "started" => k = j  BY <2>3
  <2> QED  BY <1>3, <2>1, <2>4, <2>5, <2>6
<1>4. ASSUME NEW js, NEW answered, req' = [Marked(js) EXCEPT ![r] = Ended(@, answered)]
      PROVE  req'[r].srv \notin Executing
  <2>1. Marked(js) \in [Requests -> RequestType]  BY MarkedType
  <2>2. PICK new : new = Ended(Marked(js)[r], answered)  OBVIOUS
  <2>3. req' = [Marked(js) EXCEPT ![r] = new]  BY <1>4, <2>1, <2>2
  <2>4. req'[r] = new  BY <2>1, <2>3
  <2>5. new.srv \notin Executing  BY <2>2, EndedNotExecuting
  <2> QED  BY <2>4, <2>5
<1>5. CASE SetDone(r)
  <2> DEFINE new == [Idle EXCEPT !.job = j, !.client = req[r].client, !.srv = "done"]
  <2>1. new.srv \notin Executing  BY DEF Idle, Executing
  <2>2. req' = [Marked({j}) EXCEPT ![r] = new]  BY <1>5 DEF SetDone
  <2> HIDE DEF new
  <2>4. req'[r] = new  BY <2>2, MarkedType
  <2>3. req'[r].srv \notin Executing  BY <2>1, <2>4
  <2> QED  BY <1>3, <1>5, <2>3 DEF SetDone, WriteOne, Write
<1>6. CASE RaiseError(r)
  <2>1. closed' \subseteq closed \cup {j}  BY <1>6 DEF RaiseError
  <2> QED  BY <1>3, <1>4, <1>6, <2>1 DEF RaiseError, WriteOne, Write, history
<1>7. CASE StoreConflict(r) \/ DataConflict(r) \/ RaiseRetryable(r) \/ RaiseIgnoreRetry(r)
  <2>1. PICK count : Postpone(r, count)
    BY <1>7 DEF StoreConflict, DataConflict, RaiseRetryable, RaiseIgnoreRetry
  <2>2. req[r].srv = "performing" /\ touches' = touches
    BY <1>7 DEF StoreConflict, DataConflict, RaiseRetryable, RaiseIgnoreRetry, history
  <2> QED  BY <1>3, <1>4, <2>1, <2>2 DEF Postpone, WriteOne, Write
<1>8. CASE ReleaseChildren(r)
  <2>1. PICK kids : kids = req[r].kids  OBVIOUS
  <2>2. \A c \in kids : c \in Jobs /\ row[c] = "wait_dependencies"
    BY <1>8, <2>1, ReleasedWait
  <2>3. row' = [k \in Jobs |-> IF k \in kids THEN "pending" ELSE row[k]]
        /\ UNCHANGED <<mem, touches, closed>>
    BY <1>8, <2>1 DEF ReleaseChildren, Write, history
  <2> QED  BY <2>2, <2>3
<1> QED  BY <1>1, <1>2, <1>5, <1>6, <1>7, <1>8

LEMMA UserSolo == TypeInv /\ KidsInv /\ SoloInv /\ UserNext => SoloFrame
<1> SUFFICES ASSUME TypeInv, KidsInv, SoloInv, NEW j \in Jobs,
                    \/ ButtonDone(j) \/ ButtonCancelled(j) \/ Requeue(j)
                    \/ RequeueStuckJob(j) \/ Autovacuum(j)
             PROVE  SoloFrame
  BY DEF UserNext
<1> USE DEF TypeInv, TypeOK, SoloInv, SoloFrame, QueuedPending, ClosedOver
<1>1. Touch(j) => /\ touches'[j] # 0
                  /\ \A k \in Jobs \ {j} : touches'[k] = touches[k]
                  /\ \A k \in Jobs : touches'[k] = 0 => touches[k] = 0
  <2>1. touches[j] \in Nat /\ touches[j] + 1 # 0  OBVIOUS
  <2> QED  BY <2>1 DEF Touch
<1>2. CASE ButtonDone(j)
  <2> DEFINE rel == Released(j)
  <2>1. \A c \in rel : c \in Jobs /\ row[c] = "wait_dependencies"  BY DEF Released
  <2>2. \A c \in rel : c \notin closed  BY <2>1 DEF KidsInv, WaitingNotClosed
  <2>3. /\ row' = [k \in Jobs |-> IF k = j THEN "done"
                                   ELSE IF k \in rel THEN "pending" ELSE row[k]]
        /\ Touch(j) /\ closed' = closed \cup {j} /\ mem' = mem
    BY <1>2 DEF ButtonDone, Write
  <2> HIDE DEF rel
  <2> QED  BY <1>1, <2>1, <2>2, <2>3
<1>3. CASE ButtonCancelled(j)
  BY <1>1, <1>3 DEF ButtonCancelled, WriteOne, Write
<1>4. CASE Requeue(j)
  BY <1>1, <1>4 DEF Requeue, SetPending, WriteOne, Write
<1>5. CASE RequeueStuckJob(j)
  BY <1>5 DEF RequeueStuckJob, SetPending, WriteOne, Write
<1>6. CASE Autovacuum(j)
  BY <1>6 DEF Autovacuum, history
<1> QED  BY <1>2, <1>3, <1>4, <1>5, <1>6

LEMMA SoloStep ==
    ASSUME TypeInv, SoloInv, SoloFrame, ExecutionsStep, TypeInv' PROVE SoloInv'
<1>1. \A q \in Requests : SetStarted(q) =>
         /\ req[q].job \in Jobs /\ row[req[q].job] = "enqueued"
         /\ row'[req[q].job] = "started"
         /\ \A r \in Requests \ {q} : req'[r].srv = req[r].srv
  <2> SUFFICES ASSUME NEW q \in Requests, SetStarted(q)
               PROVE  /\ req[q].job \in Jobs /\ row[req[q].job] = "enqueued"
                      /\ row'[req[q].job] = "started"
                      /\ \A r \in Requests \ {q} : req'[r].srv = req[r].srv
    OBVIOUS
  <2>4. req[q].srv = "sent"  BY DEF SetStarted
  <2>1. req[q].job \in Jobs  BY <2>4 DEF TypeInv, TypeOK, Idle
  <2>2. PICK new : req' = [Marked({req[q].job}) EXCEPT ![q] = new]
    BY MarkedType DEF SetStarted, TypeInv, TypeOK
  <2>3. \A r \in Requests \ {q} : req'[r].srv = req[r].srv
    BY <2>2, OtherRequests DEF SameExecution
  <2> QED  BY <2>1, <2>3 DEF SetStarted, WriteOne, Write, TypeInv, TypeOK
<1>2. ASSUME NEW q \in Requests, req'[q].srv \in Executing
      PROVE  /\ req[q].job \in Jobs /\ req'[q].job = req[q].job
             /\ touches'[req[q].job] = 0 => row'[req[q].job] = "started"
  <2>1. PICK k \in Jobs : /\ req[q].job = k /\ req'[q].job = k
                          /\ \/ SetStarted(q)
                             \/ req[q].srv \in Executing
                                /\ (touches[k] = 0 => row[k] = "started")
    BY <1>1, <1>2 DEF ExecutionsStep, SoloInv, ExecutionStarted
  <2>2. ASSUME touches'[k] = 0 PROVE row'[k] = "started"
    <3>1. touches[k] = 0  BY <2>2 DEF SoloFrame
    <3>2. CASE SetStarted(q)  BY <1>1, <2>1, <3>2
    <3>3. CASE ~SetStarted(q)
      <4>1. req[q].srv \in Executing /\ row[k] = "started"  BY <2>1, <3>1, <3>3
      <4>2. SUFFICES ASSUME row'[k] # "started" PROVE FALSE  OBVIOUS
      <4>3. PICK r \in Requests : /\ req[r].srv \in Executing /\ req[r].job = k
                                  /\ req'[r].srv \notin Executing
        BY <2>2, <4>1, <4>2 DEF SoloFrame
      <4>4. r = q
        BY <2>1, <3>1, <4>1, <4>3 DEF SoloInv, AtMostOneExecution, TypeInv, TypeOK
      <4> QED  BY <1>2, <4>3, <4>4
    <3> QED  BY <3>2, <3>3
  <2> QED  BY <2>1, <2>2
<1>3. ExecutionStarted'
  <2> SUFFICES ASSUME NEW q \in Requests, req'[q].srv \in Executing
               PROVE  /\ req'[q].job \in Jobs
                      /\ touches'[req'[q].job] = 0 => row'[req'[q].job] = "started"
    BY DEF ExecutionStarted
  <2> QED  BY <1>2
<1>4. ASSUME NEW q \in Requests, NEW r \in Requests, q # r,
             req'[q].srv \in Executing, req'[r].srv \in Executing,
             req'[q].job = req'[r].job
      PROVE  touches'[req'[q].job] > 0
  <2>10. req[q].job \in Jobs /\ req'[q].job = req[q].job  BY <1>2, <1>4
  <2>11. req'[r].job = req[r].job  BY <1>2, <1>4
  <2> DEFINE k == req[q].job
  <2>1. k \in Jobs /\ req'[q].job = k /\ req[q].job = k /\ req[r].job = k
    BY <1>4, <2>10, <2>11
  <2> HIDE DEF k
  <2>2. SUFFICES ASSUME touches'[k] = 0 PROVE FALSE
    <3>1. touches'[k] \in Nat
      BY <2>1 DEF TypeInv, TypeOK
    <3> QED  BY <2>1, <3>1
  <2>3. touches[k] = 0  BY <2>1, <2>2 DEF SoloFrame
  <2>4. req[q].srv \in Executing \/ SetStarted(q)  BY <1>4 DEF ExecutionsStep
  <2>5. req[r].srv \in Executing \/ SetStarted(r)  BY <1>4 DEF ExecutionsStep
  <2>6. CASE req[q].srv \in Executing /\ req[r].srv \in Executing
    BY <1>4, <2>1, <2>3, <2>6 DEF SoloInv, AtMostOneExecution, TypeInv, TypeOK
  <2>7. ~(SetStarted(q) /\ SetStarted(r))
    BY <1>1, <1>4 DEF SetStarted, Executing
  <2>8. CASE SetStarted(q) /\ req[r].srv \in Executing
    BY <1>1, <2>1, <2>3, <2>8 DEF SoloInv, ExecutionStarted
  <2>9. CASE SetStarted(r) /\ req[q].srv \in Executing
    BY <1>1, <2>1, <2>3, <2>9 DEF SoloInv, ExecutionStarted
  <2> QED  BY <2>4, <2>5, <2>6, <2>7, <2>8, <2>9
<1>5. AtMostOneExecution'  BY <1>4 DEF AtMostOneExecution
<1> QED  BY <1>3, <1>5 DEF SoloInv, SoloFrame

\* Two workers execute the same job only if a user changed its state: timeouts,
\* late requests, retries, restarts and the cron for stuck jobs do not suffice.
THEOREM OneExecution == Spec => []AtMostOneExecution
<1>1. Init => TypeInv /\ KidsInv /\ SoloInv
  <2> SUFFICES ASSUME Init PROVE SoloInv  BY TypeInit, KidsInit
  <2> QED  BY DEF Init, SoloInv, QueuedPending, ExecutionStarted, ClosedOver,
                  AtMostOneExecution, Idle, Executing
<1>2. TypeInv /\ KidsInv /\ SoloInv /\ [Next]_vars => TypeInv' /\ KidsInv' /\ SoloInv'
  <2> SUFFICES ASSUME TypeInv, KidsInv, SoloInv, [Next]_vars
               PROVE  TypeInv' /\ KidsInv' /\ SoloInv'
    OBVIOUS
  <2>1. TypeInv'  BY RunnerType, ServerType, UserType, TypeStutter DEF Next
  <2>2. KidsInv'  BY KidsStep
  <2>3. CASE Next
    <3>1. SoloFrame  BY <2>3, RunnerSolo, ServerSolo, UserSolo DEF Next
    <3>2. ExecutionsStep  BY <2>3, ExecutionsFrame
    <3> QED  BY <2>1, <2>2, <3>1, <3>2, SoloStep
  <2>4. CASE UNCHANGED vars
    BY <2>1, <2>2, <2>4 DEF vars, table, memory, history, SoloInv, QueuedPending,
                            ExecutionStarted, ClosedOver, AtMostOneExecution
  <2> QED  BY <2>3, <2>4
<1>3. SoloInv => AtMostOneExecution  BY DEF SoloInv
<1> QED  BY <1>1, <1>2, <1>3, PTL DEF Spec
-----------------------------------------------------------------------------
(* The runner's copy of the channel follows the table: every committed write   *)
(* leaves a notification, and only the runner itself writes without one.       *)

LEMMA NotifyGone ==
    \A place : notify("done", place, FALSE) = "absent" /\ notify("none", place, FALSE) = "absent"
BY DEF notify, Active

LEMMA SyncWrite ==
    ASSUME RunnerInSync, NEW js, NEW newRow, Write(js, newRow), UNCHANGED <<mem, runner>>,
           \A k \in Jobs \ js : newRow[k] = row[k]
    PROVE  RunnerInSync'
<1> SUFFICES ASSUME NEW k \in Jobs, runner' = "up", k \notin notif',
                    row'[k] # "wait_dependencies"
             PROVE  mem'[k] = notify(row'[k], mem'[k], FALSE)
  BY DEF RunnerInSync, notify
<1>1. k \notin notif /\ row'[k] = row[k]  BY DEF Write
<1>2. mem[k] = notify(row[k], mem[k], FALSE)  BY <1>1 DEF RunnerInSync
<1> QED  BY <1>1, <1>2

LEMMA SyncFrame ==
    ASSUME RunnerInSync, UNCHANGED <<row, mem, notif, runner>> PROVE RunnerInSync'
BY DEF RunnerInSync, notify

LEMMA SyncOne ==
    ASSUME TypeInv, RunnerInSync, NEW j \in Jobs, NEW s, WriteOne(j, s),
           UNCHANGED <<mem, runner>>
    PROVE  RunnerInSync'
<1>1. \A k \in Jobs \ {j} : [row EXCEPT ![j] = s][k] = row[k]  BY DEF TypeInv, TypeOK
<1> QED  BY <1>1, SyncWrite DEF WriteOne

LEMMA SyncRunner == TypeInv /\ RunnerInSync /\ RunnerNext => RunnerInSync'
<1> SUFFICES ASSUME TypeInv, RunnerInSync, RunnerNext PROVE RunnerInSync'  OBVIOUS
<1>1. CASE Listen \/ \E killed \in BOOLEAN : RunnerStops(killed)
  BY <1>1 DEF Listen, RunnerStops, RunnerInSync
<1>2. CASE LoadJobs
  BY <1>2 DEF LoadJobs, RunnerInSync, notify, NOT_DONE, Active, RowStates, TypeInv, TypeOK
<1>3. ASSUME NEW j \in Jobs, ProcessNotification(j) PROVE RunnerInSync'
  BY <1>3 DEF ProcessNotification, RunnerInSync, notify, Active, RowStates, TypeInv, TypeOK
<1>4. ASSUME NEW j \in Jobs, NEW r \in Requests, RunJob(j, r) PROVE RunnerInSync'
  <2>1. row[j] = "none" => j \in notif
    BY <1>4 DEF RunJob, RunnerInSync, notify
  <2>2. /\ j \in notif' /\ notif \subseteq notif' /\ runner = "up"
        /\ \A k \in Jobs \ {j} : row'[k] = row[k] /\ mem'[k] = mem[k]
    BY <1>4, <2>1 DEF RunJob, WriteOne, Write, TypeInv, TypeOK
  <2>3. ASSUME NEW k \in Jobs, k \notin notif', row'[k] # "wait_dependencies"
        PROVE  mem'[k] = notify(row'[k], mem'[k], FALSE)
    <3>1. row'[k] = row[k] /\ mem'[k] = mem[k] /\ k \notin notif  BY <2>2, <2>3
    <3> QED  BY <2>2, <2>3, <3>1 DEF RunnerInSync
  <2> QED  BY <2>3 DEF RunnerInSync, notify
<1>5. ASSUME NEW r \in Requests, SetJobPending(r) PROVE RunnerInSync'
  <2>1. req[r].job \in Jobs  BY <1>5 DEF SetJobPending, TypeInv, TypeOK, Idle
  <2> QED  BY <1>5, <2>1, SyncOne, SyncFrame DEF SetJobPending
<1> QED  BY <1>1, <1>2, <1>3, <1>4, <1>5 DEF RunnerNext

LEMMA SyncServer == TypeInv /\ RunnerInSync /\ ServerNext => RunnerInSync'
<1> SUFFICES ASSUME TypeInv, RunnerInSync, NEW r \in Requests,
                    \/ Refuse(r) \/ SetStarted(r) \/ Perform(r)
                    \/ SetDone(r) \/ NothingToDoLost(r) \/ StoreConflict(r)
                    \/ DataConflict(r) \/ RaiseRetryable(r) \/ RaiseIgnoreRetry(r)
                    \/ RaiseError(r) \/ EnqueueWaiting(r) \/ ReleaseChildren(r)
                    \/ ReleaseFails(r) \/ ServerCrash(r)
             PROVE  RunnerInSync'
  BY DEF ServerNext
<1> DEFINE j == req[r].job
<1>1. req[r].srv # "none" => j \in Jobs  BY DEF TypeInv, TypeOK, Idle
<1>2. CASE \/ Refuse(r) \/ Perform(r) \/ NothingToDoLost(r) \/ EnqueueWaiting(r)
           \/ ReleaseFails(r) \/ ServerCrash(r)
  BY <1>2, SyncFrame DEF Refuse, Perform, NothingToDoLost, EnqueueWaiting, ReleaseFails,
                         ServerCrash, table, memory
<1>3. CASE SetStarted(r) \/ SetDone(r) \/ RaiseError(r)
  <2>1. PICK s : WriteOne(j, s)  BY <1>3 DEF SetStarted, SetDone, RaiseError
  <2>2. j \in Jobs  BY <1>1, <1>3 DEF SetStarted, SetDone, RaiseError
  <2>3. UNCHANGED <<mem, runner>>  BY <1>3 DEF SetStarted, SetDone, RaiseError
  <2> QED  BY <2>1, <2>2, <2>3, SyncOne
<1>4. CASE StoreConflict(r) \/ DataConflict(r) \/ RaiseRetryable(r) \/ RaiseIgnoreRetry(r)
  <2>1. PICK count : Postpone(r, count)
    BY <1>4 DEF StoreConflict, DataConflict, RaiseRetryable, RaiseIgnoreRetry
  <2>2. j \in Jobs
    BY <1>1, <1>4 DEF StoreConflict, DataConflict, RaiseRetryable, RaiseIgnoreRetry
  <2> QED  BY <2>1, <2>2, SyncOne DEF Postpone
<1>5. CASE ReleaseChildren(r)
  <2>1. PICK rel \in SUBSET Jobs :
           Write(rel, [k \in Jobs |-> IF k \in rel THEN "pending" ELSE row[k]])
    BY <1>5 DEF ReleaseChildren, TypeInv, TypeOK, RequestType
  <2>2. UNCHANGED <<mem, runner>>  BY <1>5 DEF ReleaseChildren
  <2> QED  BY <2>1, <2>2, SyncWrite
<1> QED  BY <1>2, <1>3, <1>4, <1>5

LEMMA SyncUser == TypeInv /\ RunnerInSync /\ UserNext => RunnerInSync'
<1> SUFFICES ASSUME TypeInv, RunnerInSync, NEW j \in Jobs,
                    \/ ButtonDone(j) \/ ButtonCancelled(j) \/ Requeue(j)
                    \/ RequeueStuckJob(j) \/ Autovacuum(j)
             PROVE  RunnerInSync'
  BY DEF UserNext
<1>1. CASE ButtonDone(j)
  <2>1. PICK rel \in SUBSET Jobs :
           Write({j} \cup rel, [k \in Jobs |-> IF k = j THEN "done"
                                    ELSE IF k \in rel THEN "pending" ELSE row[k]])
    BY <1>1 DEF ButtonDone, Released
  <2>2. UNCHANGED <<mem, runner>>  BY <1>1 DEF ButtonDone
  <2> QED  BY <2>1, <2>2, SyncWrite
<1>2. CASE ButtonCancelled(j)
  BY <1>2, SyncOne DEF ButtonCancelled
<1>3. CASE Requeue(j) \/ RequeueStuckJob(j)
  BY <1>3, SyncOne DEF Requeue, RequeueStuckJob, SetPending
<1>4. CASE Autovacuum(j)
  <2>1. /\ mem' = mem /\ runner' = runner /\ notif \subseteq notif'
        /\ row[j] = "done" \/ runner = "down" \/ j \in notif'
        /\ row[j] = "done" => notif' = notif
        /\ row' = [row EXCEPT ![j] = "none"]
    BY <1>4 DEF Autovacuum
  <2>2. SUFFICES ASSUME NEW k \in Jobs, runner' = "up", k \notin notif',
                        row'[k] # "wait_dependencies"
                 PROVE  mem'[k] = notify(row'[k], mem'[k], FALSE)
    BY DEF RunnerInSync, notify
  <2>3. CASE k = j
    <3>1. row[j] = "done" /\ j \notin notif /\ runner = "up"  BY <2>1, <2>2, <2>3
    <3>2. mem[j] = notify("done", mem[j], FALSE)  BY <3>1 DEF RunnerInSync
    <3>3. mem[j] = "absent"  BY <3>2, NotifyGone
    <3>4. row'[j] = "none"  BY <2>1 DEF TypeInv, TypeOK
    <3>5. row'[k] = "none" /\ mem'[k] = "absent"  BY <2>1, <2>3, <3>3, <3>4
    <3> QED  BY <3>5, NotifyGone
  <2>4. CASE k # j
    <3>1. row'[k] = row[k]  BY <2>1, <2>4 DEF TypeInv, TypeOK
    <3> QED  BY <2>1, <2>2, <3>1 DEF RunnerInSync
  <2> QED  BY <2>3, <2>4
<1> QED  BY <1>1, <1>2, <1>3, <1>4

\* What the runner holds of a job without a pending notification is what its row
\* says, so no restart or concurrent write makes it lose or invent a slot.
THEOREM RunnerFollowsTable == Spec => []RunnerInSync
<1>1. Init => TypeInv /\ RunnerInSync
  BY TypeInit DEF Init, RunnerInSync
<1>2. TypeInv /\ RunnerInSync /\ [Next]_vars => TypeInv' /\ RunnerInSync'
  <2> SUFFICES ASSUME TypeInv, RunnerInSync, [Next]_vars PROVE TypeInv' /\ RunnerInSync'
    OBVIOUS
  <2>1. TypeInv'  BY RunnerType, ServerType, UserType, TypeStutter DEF Next
  <2>2. CASE Next  BY <2>1, <2>2, SyncRunner, SyncServer, SyncUser DEF Next
  <2>3. CASE UNCHANGED vars
    BY <2>1, <2>3, SyncFrame DEF vars, table, memory
  <2> QED  BY <2>2, <2>3
<1> QED  BY <1>1, <1>2, PTL DEF Spec

-----------------------------------------------------------------------------
(* Effects.  The work of a job is committed at most once, plus once for each   *)
(* operation of a user on it, for any number of workers, timeouts, retries and *)
(* restarts.                                                                   *)

\* The workers that execute a job.
Runs(j) == {r \in Requests : req[r].srv \in Executing /\ req[r].job = j}

\* The job may be executed once more: in the table, or because the runner, which
\* looks at its own queue only, is going to make it enqueued.
Live(j) == row[j] \in {"wait_dependencies", "pending", "enqueued"} \/ mem[j] = "queue"

Chances(j) == IF Live(j) THEN 1 ELSE 0

\* Each commit of the work takes a worker away, each worker a chance, and only
\* users give chances; a worker that postpones the job gives its own back.
Counted(j) ==
    /\ IsFiniteSet(Runs(j))
    /\ effects[j] + Cardinality(Runs(j)) + Chances(j) <= 1 + touches[j]

\* What the runner has queued is not active: RunJob takes it out of the queue.
QueuedNotActive == \A j \in Jobs : mem[j] = "queue" => row[j] \notin Active

EffectsInv == QueuedNotActive /\ \A j \in Jobs : Counted(j)

\* A worker stops to execute the job.
RunEnds(k) ==
    \E r \in Requests : /\ req[r].srv \in Executing /\ req[r].job = k
                       /\ req'[r].srv \notin Executing

\* What a step may do to a job.
EffectStep(k) ==
    \/ /\ effects'[k] = effects[k] /\ touches'[k] = touches[k]
       /\ Live(k)' => Live(k) \/ RunEnds(k)
    \/ effects'[k] = effects[k] /\ touches'[k] = touches[k] + 1
    \/ /\ effects'[k] = effects[k] + 1 /\ touches'[k] = touches[k]
       /\ RunEnds(k)
       /\ Live(k)' => Live(k)

EffectFrame == QueuedNotActive' /\ \A k \in Jobs : EffectStep(k)

LEMMA RunnerEffects == TypeInv /\ EffectsInv /\ RunnerNext => EffectFrame
<1> SUFFICES ASSUME TypeInv, EffectsInv, RunnerNext PROVE EffectFrame  OBVIOUS
<1> USE DEF TypeInv, TypeOK, EffectsInv, EffectFrame, EffectStep, QueuedNotActive, Live
<1>1. CASE Listen \/ \E killed \in BOOLEAN : RunnerStops(killed)
  BY <1>1 DEF Listen, RunnerStops, table, history
<1>2. CASE LoadJobs
  BY <1>2 DEF LoadJobs, history, notify, NOT_DONE, Active, Reread
<1>3. ASSUME NEW j \in Jobs, ProcessNotification(j) PROVE EffectFrame
  <2>1. notify(row[j], mem[j], eta[j] = "moved") = "queue" =>
           row[j] \notin Active /\ (row[j] = "pending" \/ mem[j] = "queue")
    BY DEF notify, Active, RowStates
  <2> QED  BY <1>3, <2>1 DEF ProcessNotification, history
<1>4. ASSUME NEW j \in Jobs, NEW r \in Requests, RunJob(j, r) PROVE EffectFrame
  BY <1>4 DEF RunJob, WriteOne, Write, history, Active
<1>5. ASSUME NEW r \in Requests, SetJobPending(r) PROVE EffectFrame
  BY <1>5 DEF SetJobPending, WriteOne, Write, history, Active
<1> QED  BY <1>1, <1>2, <1>3, <1>4, <1>5 DEF RunnerNext

LEMMA ServerEffects == TypeInv /\ KidsInv /\ EffectsInv /\ ServerNext => EffectFrame
<1> SUFFICES ASSUME TypeInv, KidsInv, EffectsInv, NEW r \in Requests,
                    \/ Refuse(r) \/ SetStarted(r) \/ Perform(r)
                    \/ SetDone(r) \/ NothingToDoLost(r) \/ StoreConflict(r)
                    \/ DataConflict(r) \/ RaiseRetryable(r) \/ RaiseIgnoreRetry(r)
                    \/ RaiseError(r) \/ EnqueueWaiting(r) \/ ReleaseChildren(r)
                    \/ ReleaseFails(r) \/ ServerCrash(r)
             PROVE  EffectFrame
  BY DEF ServerNext
<1> USE DEF TypeInv, TypeOK, EffectsInv, EffectFrame, EffectStep, QueuedNotActive, Live
<1> DEFINE j == req[r].job
<1>1. CASE \/ Refuse(r) \/ Perform(r) \/ NothingToDoLost(r) \/ EnqueueWaiting(r)
           \/ ReleaseFails(r) \/ ServerCrash(r)
  BY <1>1 DEF Refuse, Perform, NothingToDoLost, EnqueueWaiting, ReleaseFails, ServerCrash,
              table, memory, history
<1>2. CASE SetStarted(r)
  BY <1>2 DEF SetStarted, WriteOne, Write, history, Active
<1>3. CASE SetDone(r)
  <2>1. j \in Jobs /\ req[r].srv \in Executing  BY <1>3 DEF SetDone, Idle, Executing
  <2> DEFINE new == [Idle EXCEPT !.job = j, !.client = req[r].client, !.srv = "done"]
  <2>2. new.srv \notin Executing  BY DEF Idle, Executing
  <2>3. req' = [Marked({j}) EXCEPT ![r] = new]  BY <1>3 DEF SetDone
  <2> HIDE DEF new
  <2>4. req'[r].srv \notin Executing  BY <2>2, <2>3, OtherRequests
  <2>5. RunEnds(j)  BY <2>1, <2>4 DEF RunEnds
  <2>6. /\ row' = [row EXCEPT ![j] = "done"] /\ effects' = [effects EXCEPT ![j] = @ + 1]
        /\ UNCHANGED <<mem, touches>>
    BY <1>3 DEF SetDone, WriteOne, Write
  <2> QED  BY <2>1, <2>5, <2>6 DEF Active
<1>4. ASSUME NEW s, s \notin Active, NEW answered, req[r].srv = "performing",
             WriteOne(j, s), req' = [Marked({j}) EXCEPT ![r] = Ended(@, answered)],
             UNCHANGED <<mem, effects, touches>>
      PROVE  EffectFrame
  <2>1. j \in Jobs /\ req[r].srv \in Executing  BY <1>4 DEF Idle, Executing
  <2>2. Marked({j}) \in [Requests -> RequestType]  BY MarkedType
  <2>3. req' = [Marked({j}) EXCEPT ![r] = Ended(Marked({j})[r], answered)]
    BY <1>4, <2>2
  <2>4. req'[r].srv \notin Executing  BY <2>3, OtherRequests, EndedNotExecuting
  <2>5. RunEnds(j)  BY <2>1, <2>4 DEF RunEnds
  <2>6. row' = [row EXCEPT ![j] = s]  BY <1>4 DEF WriteOne, Write
  <2> QED  BY <1>4, <2>1, <2>5, <2>6
<1>5. CASE StoreConflict(r) \/ DataConflict(r) \/ RaiseRetryable(r) \/ RaiseIgnoreRetry(r)
  <2>1. PICK count : Postpone(r, count)
    BY <1>5 DEF StoreConflict, DataConflict, RaiseRetryable, RaiseIgnoreRetry
  <2>2. req[r].srv = "performing" /\ UNCHANGED <<effects, touches>>
    BY <1>5 DEF StoreConflict, DataConflict, RaiseRetryable, RaiseIgnoreRetry, history
  <2> QED  BY <1>4, <2>1, <2>2 DEF Postpone, PendingState, Active
<1>6. CASE RaiseError(r)
  BY <1>4, <1>6 DEF RaiseError, history, Active
<1>7. CASE ReleaseChildren(r)
  <2>1. PICK kids : kids = req[r].kids  OBVIOUS
  <2>2. \A c \in kids : c \in Jobs /\ row[c] = "wait_dependencies"
    BY <1>7, <2>1, ReleasedWait
  <2>3. /\ row' = [k \in Jobs |-> IF k \in kids THEN "pending" ELSE row[k]]
        /\ UNCHANGED <<mem, effects, touches>>
    BY <1>7, <2>1 DEF ReleaseChildren, Write, history
  <2> QED  BY <2>2, <2>3 DEF Active
<1> QED  BY <1>1, <1>2, <1>3, <1>5, <1>6, <1>7

LEMMA UserEffects == TypeInv /\ EffectsInv /\ UserNext => EffectFrame
<1> SUFFICES ASSUME TypeInv, EffectsInv, NEW j \in Jobs,
                    \/ ButtonDone(j) \/ ButtonCancelled(j) \/ Requeue(j)
                    \/ RequeueStuckJob(j) \/ Autovacuum(j)
             PROVE  EffectFrame
  BY DEF UserNext
<1> USE DEF TypeInv, TypeOK, EffectsInv, EffectFrame, EffectStep, QueuedNotActive, Live, Active
<1>1. CASE ButtonDone(j)
  <2> DEFINE rel == Released(j)
  <2>1. \A c \in rel : c \in Jobs /\ row[c] = "wait_dependencies"  BY DEF Released
  <2>2. /\ row' = [k \in Jobs |-> IF k = j THEN "done"
                                   ELSE IF k \in rel THEN "pending" ELSE row[k]]
        /\ touches' = [touches EXCEPT ![j] = @ + 1]
        /\ UNCHANGED <<mem, effects>>
    BY <1>1 DEF ButtonDone, Write, Touch
  <2> HIDE DEF rel
  <2> QED  BY <2>1, <2>2
<1>2. CASE ButtonCancelled(j)
  BY <1>2 DEF ButtonCancelled, WriteOne, Write, Touch
<1>3. CASE Requeue(j)
  BY <1>3 DEF Requeue, SetPending, WriteOne, Write, Touch, PendingState
<1>4. CASE RequeueStuckJob(j)
  BY <1>4 DEF RequeueStuckJob, SetPending, WriteOne, Write, PendingState
<1>5. CASE Autovacuum(j)
  BY <1>5 DEF Autovacuum, history
<1> QED  BY <1>1, <1>2, <1>3, <1>4, <1>5

\* The worker that begins takes the chance of the job.
LEMMA BeginCounted ==
    ASSUME TypeInv, ExecutionsStep, QueuedNotActive, QueuedNotActive',
           NEW q \in Requests, SetStarted(q), NEW k \in Jobs, req[q].job = k, Counted(k)
    PROVE  Counted(k)'
<1>1. PICK new : req' = [Marked({k}) EXCEPT ![q] = new]
  BY MarkedType DEF SetStarted, TypeInv, TypeOK
<1>2. \A r \in Requests \ {q} : req'[r].srv = req[r].srv /\ req'[r].job = req[r].job
  BY <1>1, OtherRequests DEF SameExecution
<1>3. Runs(k)' \subseteq Runs(k) \cup {q}  BY <1>2 DEF Runs
<1>4. /\ IsFiniteSet(Runs(k) \cup {q})
      /\ Cardinality(Runs(k) \cup {q}) <= Cardinality(Runs(k)) + 1
  <2>1. IsFiniteSet(Runs(k)) /\ Cardinality(Runs(k)) \in Nat
    BY FS_CardinalityType DEF Counted
  <2> QED  BY <2>1, FS_AddElement
<1>5. IsFiniteSet(Runs(k)') /\ Cardinality(Runs(k)') <= Cardinality(Runs(k) \cup {q})
  BY <1>3, <1>4, FS_Subset
<1>6. /\ Cardinality(Runs(k)) \in Nat /\ Cardinality(Runs(k)') \in Nat
      /\ Cardinality(Runs(k) \cup {q}) \in Nat
  BY <1>4, <1>5, FS_CardinalityType DEF Counted
<1>7. Chances(k) = 1 /\ Chances(k)' = 0
  <2>1. row[k] = "enqueued" /\ row'[k] = "started"
    BY DEF SetStarted, WriteOne, Write, TypeInv, TypeOK
  <2> QED  BY <2>1 DEF Chances, Live, QueuedNotActive, Active
<1>8. effects'[k] = effects[k] /\ touches'[k] = touches[k]
  BY DEF SetStarted, history
<1>9. effects[k] \in Nat /\ touches[k] \in Nat  BY DEF TypeInv, TypeOK
<1> QED  BY <1>4, <1>5, <1>6, <1>7, <1>8, <1>9 DEF Counted

\* Otherwise no worker begins, and one has ended when there is a new effect or
\* a new chance that no user has given.
LEMMA StepCounted ==
    ASSUME TypeInv, ExecutionsStep, NEW k \in Jobs, EffectStep(k), Counted(k),
           \A q \in Requests : SetStarted(q) => req[q].job # k
    PROVE  Counted(k)'
<1>1. Runs(k)' \subseteq Runs(k)  BY DEF ExecutionsStep, Runs
<1>2. IsFiniteSet(Runs(k)) /\ IsFiniteSet(Runs(k)')  BY <1>1, FS_Subset DEF Counted
<1>3. Cardinality(Runs(k)) \in Nat /\ Cardinality(Runs(k)') \in Nat
  BY <1>2, FS_CardinalityType
<1>4. Cardinality(Runs(k)') <= Cardinality(Runs(k))  BY <1>1, <1>2, FS_Subset
<1>5. ASSUME RunEnds(k) PROVE Cardinality(Runs(k)') <= Cardinality(Runs(k)) - 1
  <2>1. PICK r \in Runs(k) : r \notin Runs(k)'  BY <1>5 DEF RunEnds, Runs
  <2>2. /\ IsFiniteSet(Runs(k) \ {r})
        /\ Cardinality(Runs(k) \ {r}) = Cardinality(Runs(k)) - 1
    BY <1>2, <2>1, FS_RemoveElement
  <2>3. Runs(k)' \subseteq Runs(k) \ {r}  BY <1>1, <2>1
  <2>4. Cardinality(Runs(k)') <= Cardinality(Runs(k) \ {r})  BY <2>2, <2>3, FS_Subset
  <2> QED  BY <2>2, <2>4
<1>6. /\ Chances(k) \in {0, 1} /\ Chances(k)' \in {0, 1}
      /\ (Live(k)' => Live(k)) => Chances(k)' <= Chances(k)
  BY DEF Chances
<1>7. effects[k] \in Nat /\ touches[k] \in Nat  BY DEF TypeInv, TypeOK
<1> QED  BY <1>2, <1>3, <1>4, <1>5, <1>6, <1>7 DEF EffectStep, Counted

LEMMA EffectsStep ==
    ASSUME TypeInv, EffectsInv, EffectFrame, ExecutionsStep PROVE EffectsInv'
<1>1. QueuedNotActive /\ QueuedNotActive'  BY DEF EffectsInv, EffectFrame
<1>2. ASSUME NEW k \in Jobs PROVE Counted(k)'
  <2>1. Counted(k) /\ EffectStep(k)  BY DEF EffectsInv, EffectFrame
  <2>2. CASE \E q \in Requests : SetStarted(q) /\ req[q].job = k
    BY <1>1, <2>1, <2>2, BeginCounted
  <2>3. CASE \A q \in Requests : SetStarted(q) => req[q].job # k
    BY <2>1, <2>3, StepCounted
  <2> QED  BY <2>2, <2>3
<1> QED  BY <1>1, <1>2 DEF EffectsInv

\* The work of a job is committed at most once, plus once for each operation of a
\* user on the job: late requests, timeouts, the cron for stuck jobs, conflicts,
\* retries, lost answers and restarts do not make it run again.
THEOREM EffectsAreBounded == Spec => []EffectsBounded
<1>1. Init => TypeInv /\ KidsInv /\ EffectsInv
  <2> SUFFICES ASSUME Init PROVE EffectsInv  BY TypeInit, KidsInit
  <2>1. ASSUME NEW j \in Jobs PROVE Counted(j)
    <3>1. Runs(j) = {}  BY DEF Init, Runs, Idle, Executing
    <3>2. IsFiniteSet(Runs(j)) /\ Cardinality(Runs(j)) = 0  BY <3>1, FS_EmptySet
    <3>3. effects[j] = 0 /\ touches[j] = 0  BY DEF Init
    <3> QED  BY <3>2, <3>3 DEF Counted, Chances
  <2>2. QueuedNotActive  BY DEF Init, QueuedNotActive
  <2> QED  BY <2>1, <2>2 DEF EffectsInv
<1>2. TypeInv /\ KidsInv /\ EffectsInv /\ [Next]_vars => TypeInv' /\ KidsInv' /\ EffectsInv'
  <2> SUFFICES ASSUME TypeInv, KidsInv, EffectsInv, [Next]_vars
               PROVE  TypeInv' /\ KidsInv' /\ EffectsInv'
    OBVIOUS
  <2>1. TypeInv'  BY RunnerType, ServerType, UserType, TypeStutter DEF Next
  <2>2. KidsInv'  BY KidsStep
  <2>3. CASE Next
    <3>1. EffectFrame  BY <2>3, RunnerEffects, ServerEffects, UserEffects DEF Next
    <3>2. ExecutionsStep  BY <2>3, ExecutionsFrame
    <3> QED  BY <2>1, <2>2, <3>1, <3>2, EffectsStep
  <2>4. CASE UNCHANGED vars
    BY <2>1, <2>2, <2>4 DEF vars, table, memory, history, EffectsInv, QueuedNotActive,
                            Counted, Runs, Chances, Live
  <2> QED  BY <2>1, <2>2, <2>3, <2>4
<1>3. TypeInv /\ EffectsInv => EffectsBounded
  <2> SUFFICES ASSUME TypeInv, EffectsInv, NEW j \in Jobs PROVE effects[j] <= 1 + touches[j]
    BY DEF EffectsBounded
  <2>1. Counted(j)  BY DEF EffectsInv
  <2>2. Cardinality(Runs(j)) \in Nat  BY <2>1, FS_CardinalityType DEF Counted
  <2>3. effects[j] \in Nat /\ touches[j] \in Nat  BY DEF TypeInv, TypeOK
  <2> QED  BY <2>1, <2>2, <2>3 DEF Counted, Chances
<1> QED  BY <1>1, <1>2, <1>3, PTL DEF Spec
=============================================================================
