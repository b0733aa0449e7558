----------------------- MODULE PipelineInstanceProofs -----------------------
(* Proofs about PipelineInstance, for any number of lines, batches, heartbeats, *)
(* operations of users and faults.                                           *)
EXTENDS PipelineInstance, TLAPS, WellFoundedInduction

-----------------------------------------------------------------------------
(* The batch a heartbeat takes first *)

LEMMA Least ==
    ASSUME NEW S \in SUBSET Nat, S # {}
    PROVE  \E b \in S : \A c \in S : b <= c
<1>1. PICK R : IsWellFoundedOn(R, Nat) /\ \A b, c \in Nat : b < c => <<b, c>> \in R
  <2>1. IsWellFoundedOn(OpToRel(<, Nat), Nat)  BY NatLessThanWellFounded
  <2>2. \A b, c \in Nat : b < c => <<b, c>> \in OpToRel(<, Nat)  BY DEF OpToRel
  <2> QED  BY <2>1, <2>2, Zenon
<1>2. PICK b \in S : \A c \in S : <<c, b>> \notin R
  <2>1. IsWellFoundedOn(R, Nat) /\ S \subseteq Nat /\ S # {}  BY <1>1
  <2>2. \E b \in S : \A c \in S : ~(<<c, b>> \in R)  BY <2>1, WFMin, Zenon
  <2> QED  BY <2>2
<1>3. \A c \in S : ~(c < b)  BY <1>1, <1>2
<1> QED  BY <1>3

LEMMA FirstIn == ASSUME NEW S \in SUBSET Ids, S # {} PROVE First(S) \in S
<1>1. S \in SUBSET Nat  BY MaxBatchesType DEF Ids
<1>2. \E b \in S : \A c \in S : b <= c  BY <1>1, Least
<1> QED  BY <1>2 DEF First

-----------------------------------------------------------------------------
(* The invariant *)

Busy == {"batches", "working"}

\* The advisory lock: one heartbeat at most is past PgLock.
Locked == \A g, h \in Heartbeats : hb[g].pc \in Holding /\ hb[h].pc \in Holding => g = h

\* What a heartbeat has collected is of this incarnation of the batches, or gone.
Collected ==
    \A h \in Heartbeats : hb[h].pc \in Busy =>
        /\ hb[h].gen <= gen[hb[h].line]
        /\ Exists(h) => hb[h].todo \subseteq In(hb[h].line, "todo")
        /\ hb[h].pc = "working" => hb[h].todo # {}

\* A line has batches when it has generated them; only zbs.stop with a batchsize
\* has more than one.
Generated ==
    /\ \A l \in Lines : l \in generated <=> Rows(l) # {}
    /\ \A l \in Lines \ generated, b \in Ids : runs[l][b] = 0
    /\ N \notin Batched => Rows(N) \subseteq {1}

\* The heartbeat that runs the worker of a batch, and will be able to commit.
WorksOn(h, l, b) ==
    /\ hb[h].pc = "working" /\ hb[h].line = l /\ First(hb[h].todo) = b
    /\ Exists(h) /\ ~hb[h].stale

\* Each start of the worker of a batch that is still to be done was undone by a
\* fault or a user, but for the one under way.
RunsCounted ==
    \A l \in Lines, b \in Ids :
        /\ runs[l][b] <= 1 + faults + touches
        /\ batch[l][b] = "todo" =>
              runs[l][b] <= faults + touches \/ \E h \in Heartbeats : WorksOn(h, l, b)

\* As long as no user interferes, the lines before the current one are complete,
\* those after it empty, and the heartbeat at work is at the current one.
Ordered ==
    touches = 0 =>
        /\ \A l \in Lines : l < nextLine => Complete(l)
        /\ \A l \in Lines : l > nextLine => l \notin generated
        /\ \A h \in Heartbeats : hb[h].pc \in Busy =>
              /\ hb[h].line = nextLine /\ nextLine \in generated /\ Exists(h)
              /\ hb[h].todo = In(nextLine, "todo")
        /\ N \notin Batched /\ state = "success" => \A l \in Lines : Complete(l)

Inv == TypeOK /\ Locked /\ Collected /\ Generated /\ RunsCounted /\ Ordered

-----------------------------------------------------------------------------
(* Steps that leave the lines alone *)

LEMMA OffType ==
    /\ Off \in HeartbeatType /\ Off.pc = "idle"
    /\ [Off EXCEPT !.pc = "queued"] \in HeartbeatType
    /\ [Off EXCEPT !.pc = "queued"].pc = "queued"
    /\ ByRequest \in HeartbeatType /\ ByRequest.pc = "lock"
<1>1. 1 \in Lines  BY LinesType DEF Lines
<1>2. Off \in HeartbeatType  BY <1>1 DEF Off, HeartbeatType
<1>3. [Off EXCEPT !.pc = "queued"] \in HeartbeatType /\ ByRequest \in HeartbeatType
  BY <1>2 DEF HeartbeatType, ByRequest
<1> QED  BY <1>2, <1>3 DEF Off, ByRequest

LEMMA RetriedType ==
    ASSUME NEW h
    PROVE  Retried(h) \in HeartbeatType /\ Retried(h).pc \in {"idle", "queued"}
BY OffType DEF Retried

\* A heartbeat ends, waits or takes the lock; one whose work was not in vain is
\* ended by a fault only.
LEMMA HeartbeatStep ==
    ASSUME Inv, NEW h \in Heartbeats, NEW rec \in HeartbeatType, Set(h, rec),
           rec.pc \notin Busy,
           rec.pc = "prepare" => \A g \in Heartbeats \ {h} : hb[g].pc \notin Holding,
           UNCHANGED <<nextLine, override, batch, generated, gen, runs, touches>>,
           state' = state \/ state' = "failed",
           faults' \in Nat, faults' >= faults,
           (\A l \in Lines, b \in Ids : ~WorksOn(h, l, b)) \/ faults' = faults + 1
    PROVE  Inv'
<1> USE DEF Set
<1>1. /\ hb' \in [Heartbeats -> HeartbeatType]
      /\ hb'[h] = rec
      /\ \A g \in Heartbeats \ {h} : hb'[g] = hb[g]
      /\ faults \in Nat /\ touches \in Nat
  BY DEF Inv, TypeOK
<1>2. TypeOK'  BY <1>1 DEF Inv, TypeOK
<1>3. Locked'
  BY <1>1 DEF Inv, Locked, Holding, Busy
<1>4. Collected'
  BY <1>1 DEF Inv, Collected, Exists, In
<1>5. Generated'  BY DEF Inv, Generated, Rows
<1>6. RunsCounted'
  <2> SUFFICES ASSUME NEW l \in Lines, NEW b \in Ids
               PROVE  /\ runs[l][b] <= 1 + faults' + touches
                      /\ batch[l][b] = "todo" =>
                            \/ runs[l][b] <= faults' + touches
                            \/ \E g \in Heartbeats : WorksOn(g, l, b)'
    BY DEF RunsCounted
  <2>1. /\ runs[l][b] <= 1 + faults + touches /\ runs[l][b] \in Nat
        /\ batch[l][b] = "todo" =>
              runs[l][b] <= faults + touches \/ \E g \in Heartbeats : WorksOn(g, l, b)
    BY DEF Inv, RunsCounted, TypeOK
  <2>2. \A g \in Heartbeats \ {h} : WorksOn(g, l, b) => WorksOn(g, l, b)'
    BY <1>1 DEF WorksOn, Exists
  <2>3. CASE faults' = faults + 1  BY <1>1, <2>1, <2>3
  <2>4. CASE ~WorksOn(h, l, b)  BY <1>1, <2>1, <2>2, <2>4
  <2> QED  BY <2>3, <2>4
<1>7. Ordered'
  BY <1>1 DEF Inv, Ordered, Complete, Rows, In, Exists, TypeOK
<1> QED  BY <1>2, <1>3, <1>4, <1>5, <1>6, <1>7 DEF Inv

-----------------------------------------------------------------------------
(* Heartbeats at work *)

LEMMA Holder ==
    ASSUME Inv, NEW h \in Heartbeats, hb[h].pc \in Holding
    PROVE  \A g \in Heartbeats \ {h} : hb[g].pc \notin Holding
BY DEF Inv, Locked

LEMMA NotWorking ==
    ASSUME NEW h \in Heartbeats, hb[h].pc # "working"
    PROVE  \A l \in Lines, b \in Ids : ~WorksOn(h, l, b)
BY DEF WorksOn

\* The same without a fault.
LEMMA QuietStep ==
    ASSUME Inv, NEW h \in Heartbeats, NEW rec \in HeartbeatType, Set(h, rec),
           rec.pc \in {"idle", "queued", "lock"}, UNCHANGED <<row, lines, history>>,
           \A l \in Lines, b \in Ids : ~WorksOn(h, l, b)
    PROVE  Inv'
<1>1. /\ UNCHANGED <<nextLine, override, batch, generated, gen, runs, touches>>
      /\ state' = state /\ faults' = faults
  BY DEF row, lines, history
<1>2. faults' \in Nat /\ faults' >= faults  BY <1>1 DEF Inv, TypeOK
<1>3. rec.pc \notin Busy /\ rec.pc # "prepare"  BY DEF Busy
<1> QED  BY <1>1, <1>2, <1>3, HeartbeatStep

LEMMA WaitingSteps ==
    ASSUME Inv, NEW h \in Heartbeats,
           \/ CronHeartbeat(h) \/ RunJob(h) \/ PgLock(h) \/ TooManyParallelJobs(h)
           \/ BatchMissing(h) \/ BatchConflicts(h) \/ SerializationFailure(h) \/ Crash(h)
    PROVE  Inv'
<1> USE OffType, RetriedType DEF Busy
<1>0. /\ hb[h] \in HeartbeatType /\ faults \in Nat
      /\ [hb[h] EXCEPT !.pc = "lock"] \in HeartbeatType
      /\ [hb[h] EXCEPT !.pc = "lock"].pc = "lock"
      /\ [hb[h] EXCEPT !.pc = "prepare"] \in HeartbeatType
      /\ [hb[h] EXCEPT !.pc = "prepare"].pc = "prepare"
  BY DEF Inv, TypeOK, HeartbeatType, Holding
<1>1. CASE CronHeartbeat(h)
  <2>1. hb[h].pc # "working"  BY <1>1 DEF CronHeartbeat, Off
  <2>2. Set(h, [Off EXCEPT !.pc = "queued"]) /\ UNCHANGED <<row, lines, history>>
    BY <1>1 DEF CronHeartbeat
  <2>3. \A l \in Lines, b \in Ids : ~WorksOn(h, l, b)  BY <2>1, NotWorking
  <2> QED  BY <1>0, <2>2, <2>3, QuietStep
<1>2. CASE RunJob(h)
  <2>1. hb[h].pc # "working"  BY <1>2 DEF RunJob
  <2>2. Set(h, [hb[h] EXCEPT !.pc = "lock"]) /\ UNCHANGED <<row, lines, history>>
    BY <1>2 DEF RunJob
  <2>3. \A l \in Lines, b \in Ids : ~WorksOn(h, l, b)  BY <2>1, NotWorking
  <2> QED  BY <1>0, <2>2, <2>3, QuietStep
<1>3. CASE PgLock(h)
  <2>1. hb[h].pc # "working"  BY <1>3 DEF PgLock
  <2>0. \A l \in Lines, b \in Ids : ~WorksOn(h, l, b)  BY <2>1, NotWorking
  <2>2. UNCHANGED <<row, lines, history>>  BY <1>3 DEF PgLock
  <2>3. CASE \E g \in Heartbeats : hb[g].pc \in Holding
    <3>1. Set(h, Retried(h))  BY <1>3, <2>3 DEF PgLock
    <3> QED  BY <1>0, <2>0, <2>2, <3>1, QuietStep
  <2>4. CASE ~\E g \in Heartbeats : hb[g].pc \in Holding
    <3>1. Set(h, [hb[h] EXCEPT !.pc = "prepare"])  BY <1>3, <2>4 DEF PgLock
    <3>2. /\ UNCHANGED <<nextLine, override, batch, generated, gen, runs, touches, state>>
          /\ faults' \in Nat /\ faults' >= faults
      BY <1>0, <2>2 DEF row, lines, history
    <3> QED  BY <1>0, <2>0, <2>4, <3>1, <3>2, HeartbeatStep
  <2> QED  BY <2>3, <2>4
<1>4. CASE TooManyParallelJobs(h)
  <2>1. hb[h].pc # "working"  BY <1>4 DEF TooManyParallelJobs
  <2>2. Set(h, Retried(h)) /\ faults' = faults + 1 /\ UNCHANGED <<row, lines, runs, touches>>
    BY <1>4 DEF TooManyParallelJobs
  <2>3. \A l \in Lines, b \in Ids : ~WorksOn(h, l, b)  BY <2>1, NotWorking
  <2> QED  BY <1>0, <2>2, <2>3, HeartbeatStep DEF row, lines
<1>5. CASE BatchMissing(h)
  <2>1. hb[h].pc # "working"  BY <1>5 DEF BatchMissing
  <2>2. Set(h, Off) /\ UNCHANGED <<row, lines, history>>  BY <1>5 DEF BatchMissing
  <2>3. \A l \in Lines, b \in Ids : ~WorksOn(h, l, b)  BY <2>1, NotWorking
  <2> QED  BY <1>0, <2>2, <2>3, QuietStep
<1>6. CASE BatchConflicts(h)
  <2>1. \A l \in Lines, b \in Ids : ~WorksOn(h, l, b)
    BY <1>6 DEF BatchConflicts, Conflict, WorksOn
  <2>2. UNCHANGED <<row, lines, history>> /\ (Set(h, Retried(h)) \/ Set(h, Off))
    BY <1>6 DEF BatchConflicts
  <2>3. CASE Set(h, Retried(h))
    BY <2>1, <2>2, <2>3, QuietStep
  <2>4. CASE Set(h, Off)
    BY <2>1, <2>2, <2>4, QuietStep
  <2> QED  BY <2>2, <2>3, <2>4
<1>7. CASE SerializationFailure(h)
  <2>1. Set(h, Retried(h)) /\ faults' = faults + 1 /\ UNCHANGED <<row, lines, runs, touches>>
    BY <1>7 DEF SerializationFailure
  <2> QED  BY <1>0, <2>1, HeartbeatStep DEF row, lines
<1>8. CASE Crash(h)
  <2>1. Set(h, Off) /\ faults' = faults + 1 /\ UNCHANGED <<row, lines, runs, touches>>
    BY <1>8 DEF Crash
  <2> QED  BY <1>0, <2>1, HeartbeatStep DEF row, lines
<1> QED  BY <1>1, <1>2, <1>3, <1>4, <1>5, <1>6, <1>7, <1>8

\* The current line gets its batches if it has none.
LEMMA PrepareStep ==
    ASSUME Inv, NEW h \in Heartbeats, Prepare(h)
    PROVE  Inv'
<1>0. PICK l \in Lines : l = nextLine  BY DEF Inv, TypeOK
<1>1. /\ l = nextLine /\ N \in Nat /\ hb[h] \in HeartbeatType
      /\ batch \in [Lines -> [Ids -> {"none", "todo", "success", "failed"}]]
      /\ runs \in [Lines -> [Ids -> Nat]] /\ gen \in [Lines -> Nat]
      /\ faults \in Nat /\ touches \in Nat /\ 1 \in Ids
  BY <1>0, LinesType, MaxBatchesType DEF Inv, TypeOK, Ids
<1>2. /\ hb[h].pc = "prepare" /\ state' = "running"
      /\ UNCHANGED <<nextLine, override, gen, runs, touches, faults>>
  BY DEF Prepare, history
<1>3. \A g \in Heartbeats \ {h} : hb[g].pc \notin Holding
  BY <1>2, Holder DEF Holding
\* The lines after the step.
<1>4. /\ batch' \in [Lines -> [Ids -> {"none", "todo", "success", "failed"}]]
      /\ generated' = generated \cup {l}
      /\ \A k \in Lines \ {l} : batch'[k] = batch[k]
      /\ l \in generated => batch'[l] = batch[l]
      /\ l \notin generated => \A b \in Ids : batch'[l][b] \in {"none", "todo"}
      /\ batch'[l] # NoBatches
      /\ l = N /\ N \notin Batched => \A b \in Ids : batch'[l][b] # "none" => b = 1
  <2>1. CASE l \in generated
    <3>1. batch' = batch /\ generated' = generated  BY <1>0, <2>1 DEF Prepare
    <3>2. Rows(l) # {} /\ (l = N /\ N \notin Batched => Rows(l) \subseteq {1})
      BY <1>1, <2>1 DEF Inv, Generated
    <3> QED  BY <1>1, <2>1, <3>1, <3>2 DEF Rows, NoBatches
  <2>2. CASE l \notin generated
    <3>1. PICK made \in Batches(l) : batch' = [batch EXCEPT ![l] = made]
      BY <1>0, <2>2 DEF Prepare
    <3>2. PICK n \in (IF l \in Batched \ Refused THEN Ids ELSE {1}) :
              made = [b \in Ids |-> IF b <= n THEN "todo" ELSE "none"]
      BY DEF Batches
    <3>3. n \in Ids /\ (l \notin Batched => n = 1)  BY <1>1, <3>2
    <3>4. made[n] = "todo"  BY <3>2, <3>3 DEF Ids
    <3>5. made \in [Ids -> {"none", "todo", "success", "failed"}]  BY <3>2
    <3>6. l \notin Batched => \A b \in Ids : made[b] # "none" => b = 1
      BY <3>2, <3>3 DEF Ids
    <3>7. made # NoBatches  BY <3>3, <3>4 DEF NoBatches
    <3>8. generated' = generated \cup {l}  BY <1>0, <2>2 DEF Prepare
    <3> QED  BY <1>1, <2>2, <3>1, <3>2, <3>5, <3>6, <3>7, <3>8
  <2> QED  BY <2>1, <2>2
<1>5. PICK b0 \in Ids : batch'[l][b0] # "none"
  <2>1. batch'[l] \in [Ids -> {"none", "todo", "success", "failed"}]  BY <1>1, <1>4
  <2> QED  BY <1>4, <2>1 DEF NoBatches
\* The heartbeats after the step.
<1> DEFINE todo == {b \in Ids : batch'[l][b] = "todo"}
<1>6. /\ hb'[h] = [hb[h] EXCEPT !.pc = "batches", !.line = l, !.gen = gen[l], !.todo = todo]
      /\ hb' = [hb EXCEPT ![h] = hb'[h]]
  BY <1>0 DEF Prepare, Set, Inv, TypeOK, todo
<1> HIDE DEF todo
<1>7. /\ hb'[h] \in HeartbeatType
      /\ hb'[h].pc = "batches" /\ hb'[h].line = l /\ hb'[h].gen = gen[l] /\ hb'[h].todo = todo
  <2>1. todo \in SUBSET Ids  BY DEF todo
  <2>2. gen[l] \in Nat  BY <1>1
  <2> QED  BY <1>1, <1>6, <2>1, <2>2 DEF HeartbeatType, Holding
<1>8. /\ hb' \in [Heartbeats -> HeartbeatType]
      /\ \A g \in Heartbeats \ {h} : hb'[g] = hb[g]
  BY <1>6, <1>7 DEF Inv, TypeOK
<1>9. TypeOK'
  BY <1>1, <1>2, <1>4, <1>8 DEF Inv, TypeOK
<1>10. Locked'  BY <1>3, <1>8 DEF Locked
<1>11. Collected'
  <2>1. \A g \in Heartbeats \ {h} : hb'[g].pc \notin Busy  BY <1>3, <1>8 DEF Busy, Holding
  <2>2. todo = In(l, "todo")'  BY DEF todo, In
  <2> QED  BY <1>1, <1>2, <1>7, <2>1, <2>2 DEF Collected, Exists
<1>12. Generated'
  <2>1. \A k \in Lines \ {l} : Rows(k)' = Rows(k)  BY <1>4 DEF Rows
  <2>2. b0 \in Rows(l)'  BY <1>5 DEF Rows
  <2>3. l = N /\ N \notin Batched => Rows(N)' \subseteq {1}  BY <1>4 DEF Rows
  <2>4. N \in Lines  BY LinesType DEF Lines
  <2> QED  BY <1>2, <1>4, <2>1, <2>2, <2>3, <2>4 DEF Inv, Generated
<1>13. RunsCounted'
  <2> SUFFICES ASSUME NEW k \in Lines, NEW b \in Ids
               PROVE  /\ runs[k][b] <= 1 + faults + touches
                      /\ batch'[k][b] = "todo" => runs[k][b] <= faults + touches
    BY <1>2 DEF RunsCounted
  <2>1. /\ runs[k][b] <= 1 + faults + touches
        /\ batch[k][b] = "todo" =>
              runs[k][b] <= faults + touches \/ \E g \in Heartbeats : WorksOn(g, k, b)
    BY DEF Inv, RunsCounted
  <2>2. \A g \in Heartbeats : ~WorksOn(g, k, b)
    BY <1>2, <1>3 DEF WorksOn, Holding
  <2>3. k = l /\ l \notin generated => runs[k][b] = 0  BY <1>1 DEF Inv, Generated
  <2>4. k # l \/ l \in generated => batch'[k] = batch[k]  BY <1>4
  <2>5. CASE k = l /\ l \notin generated  BY <1>1, <2>1, <2>3, <2>5
  <2>6. CASE k # l \/ l \in generated  BY <2>1, <2>2, <2>4, <2>6
  <2> QED  BY <2>5, <2>6
<1>14. Ordered'
  <2> SUFFICES ASSUME touches = 0
               PROVE  /\ \A k \in Lines : k < l => Complete(k)'
                      /\ \A k \in Lines : k > l => k \notin generated'
                      /\ \A g \in Heartbeats : hb'[g].pc \in Busy =>
                            /\ hb'[g].line = l /\ l \in generated' /\ Exists(g)'
                            /\ hb'[g].todo = In(l, "todo")'
    BY <1>1, <1>2 DEF Ordered
  <2>1. \A k \in Lines : k < l => Complete(k) /\ k # l
    BY <1>1 DEF Inv, Ordered, Lines
  <2>2. \A k \in Lines : k < l => Complete(k)'
    BY <1>4, <2>1 DEF Complete, Rows, In
  <2>3. \A k \in Lines : k > l => k \notin generated'
    BY <1>1, <1>4 DEF Inv, Ordered, Lines
  <2>4. \A g \in Heartbeats \ {h} : hb'[g].pc \notin Busy  BY <1>3, <1>8 DEF Busy, Holding
  <2>5. hb'[h].line = l /\ l \in generated' /\ Exists(h)' /\ hb'[h].todo = In(l, "todo")'
    BY <1>1, <1>2, <1>4, <1>7 DEF Exists, In, todo
  <2> QED  BY <2>2, <2>3, <2>4, <2>5
<1> QED  BY <1>9, <1>10, <1>11, <1>12, <1>13, <1>14 DEF Inv

\* The worker of the first batch is started.
LEMMA StartBatchStep ==
    ASSUME Inv, NEW h \in Heartbeats, StartBatch(h)
    PROVE  Inv'
<1>1. PICK l \in Lines, b \in Ids : l = hb[h].line /\ b = First(hb[h].todo)
  BY FirstIn DEF Inv, TypeOK, HeartbeatType, StartBatch
<1>2. /\ hb[h].pc = "batches" /\ hb[h].todo # {} /\ Exists(h) /\ hb[h] \in HeartbeatType
      /\ UNCHANGED <<state, nextLine, override, batch, generated, gen, touches, faults>>
      /\ runs \in [Lines -> [Ids -> Nat]] /\ faults \in Nat /\ touches \in Nat
  BY DEF StartBatch, Inv, TypeOK, row, lines
<1>3. b \in hb[h].todo /\ batch[l][b] = "todo"
  BY <1>1, <1>2, FirstIn DEF Inv, Collected, Busy, In, HeartbeatType
<1>4. /\ runs' \in [Lines -> [Ids -> Nat]]
      /\ runs'[l][b] = runs[l][b] + 1
      /\ \A k \in Lines, c \in Ids : k # l \/ c # b => runs'[k][c] = runs[k][c]
  BY <1>1, <1>2 DEF StartBatch
<1>5. /\ hb' \in [Heartbeats -> HeartbeatType]
      /\ \A g \in Heartbeats \ {h} : hb'[g] = hb[g]
      /\ hb'[h].pc = "working" /\ hb'[h].line = l /\ hb'[h].todo = hb[h].todo
      /\ hb'[h].gen = hb[h].gen /\ ~hb'[h].stale
  BY <1>1, <1>2 DEF StartBatch, Set, Inv, TypeOK, HeartbeatType, Holding
<1>6. \A g \in Heartbeats \ {h} : hb[g].pc \notin Holding
  BY <1>2, Holder DEF Holding
<1>7. TypeOK'  BY <1>2, <1>4, <1>5 DEF Inv, TypeOK
<1>8. Locked'  BY <1>5, <1>6 DEF Locked
<1>9. Collected'
  <2>1. \A g \in Heartbeats \ {h} : hb'[g].pc \notin Busy  BY <1>5, <1>6 DEF Busy, Holding
  <2>2. /\ hb[h].gen <= gen[l] /\ hb[h].todo \subseteq In(l, "todo")
    BY <1>1, <1>2 DEF Inv, Collected, Busy
  <2> QED  BY <1>2, <1>5, <2>1, <2>2 DEF Collected, In, Exists
<1>10. Generated'
  <2>1. l \in generated  BY <1>1, <1>3 DEF Inv, Generated, Rows
  <2> QED  BY <1>2, <1>4, <2>1 DEF Inv, Generated, Rows
<1>11. RunsCounted'
  <2> SUFFICES ASSUME NEW k \in Lines, NEW c \in Ids
               PROVE  /\ runs'[k][c] <= 1 + faults + touches
                      /\ batch[k][c] = "todo" =>
                            \/ runs'[k][c] <= faults + touches
                            \/ \E g \in Heartbeats : WorksOn(g, k, c)'
    BY <1>2 DEF RunsCounted
  <2>1. /\ runs[k][c] <= 1 + faults + touches
        /\ batch[k][c] = "todo" =>
              runs[k][c] <= faults + touches \/ \E g \in Heartbeats : WorksOn(g, k, c)
    BY DEF Inv, RunsCounted
  <2>2. \A g \in Heartbeats : ~WorksOn(g, k, c)
    BY <1>2, <1>6 DEF WorksOn, Holding
  <2>3. CASE k = l /\ c = b
    <3>1. runs[k][c] <= faults + touches  BY <1>3, <2>1, <2>2, <2>3
    <3>2. WorksOn(h, l, b)'  BY <1>1, <1>2, <1>5 DEF WorksOn, Exists
    <3> QED  BY <1>2, <1>4, <2>3, <3>1, <3>2
  <2>4. CASE k # l \/ c # b  BY <1>4, <2>1, <2>2, <2>4
  <2> QED  BY <2>3, <2>4
<1>12. Ordered'
  <2> SUFFICES ASSUME touches = 0 PROVE Ordered'  BY <1>2 DEF Ordered
  <2>1. \A g \in Heartbeats \ {h} : hb'[g].pc \notin Busy  BY <1>5, <1>6 DEF Busy, Holding
  <2>2. /\ l = nextLine /\ nextLine \in generated /\ hb[h].todo = In(nextLine, "todo")
    BY <1>1, <1>2 DEF Inv, Ordered, Busy
  <2>3. \A g \in Heartbeats : hb'[g].pc \in Busy =>
              /\ hb'[g].line = nextLine /\ nextLine \in generated /\ Exists(g)'
              /\ hb'[g].todo = In(nextLine, "todo")
    BY <1>1, <1>2, <1>5, <2>1, <2>2 DEF Exists
  <2> QED  BY <1>2, <2>3 DEF Inv, Ordered, Complete, Rows, In
<1> QED  BY <1>7, <1>8, <1>9, <1>10, <1>11, <1>12 DEF Inv

\* The worker of the first batch returns or raises.
LEMMA DoneStep ==
    ASSUME Inv, NEW h \in Heartbeats, BatchSucceeds(h) \/ BatchFails(h)
    PROVE  Inv'
<1>1. PICK l \in Lines, b \in Ids : l = hb[h].line /\ b = First(hb[h].todo)
  BY FirstIn DEF Inv, TypeOK, HeartbeatType, BatchSucceeds, BatchFails, Collected, Busy
<1>2. /\ hb[h].pc = "working" /\ hb[h].todo # {} /\ Exists(h) /\ hb[h] \in HeartbeatType
      /\ UNCHANGED <<nextLine, override, generated, gen, runs, touches, faults>>
      /\ batch \in [Lines -> [Ids -> {"none", "todo", "success", "failed"}]]
      /\ gen \in [Lines -> Nat] /\ N \in Lines
  <2>1. /\ hb[h].pc = "working" /\ Exists(h)
        /\ UNCHANGED <<nextLine, override, generated, gen, runs, touches, faults>>
    BY DEF BatchSucceeds, BatchFails, Conflict, row, history
  <2>2. hb[h].todo # {}  BY <2>1 DEF Inv, Collected, Busy
  <2>3. N \in Lines  BY LinesType DEF Lines
  <2> QED  BY <2>1, <2>2, <2>3 DEF Inv, TypeOK
<1>3. b \in hb[h].todo /\ batch[l][b] = "todo"
  BY <1>1, <1>2, FirstIn DEF Inv, Collected, Busy, In, HeartbeatType
\* The batch after the step.
<1>4. PICK s \in {"success", "failed"} :
        /\ Done(h, s)
        /\ s = "failed" => state' = state /\ l # N
        /\ state' = IF s = "success" /\ l = N THEN "success" ELSE state
  BY <1>1, <1>2 DEF BatchSucceeds, BatchFails, row, history
<1>5. /\ batch' \in [Lines -> [Ids -> {"none", "todo", "success", "failed"}]]
      /\ batch'[l][b] = s
      /\ \A c \in Ids \ {b} : batch'[l][c] = batch[l][c]
      /\ \A k \in Lines \ {l} : batch'[k] = batch[k]
  BY <1>1, <1>2, <1>4 DEF Done
<1>6. /\ hb' \in [Heartbeats -> HeartbeatType]
      /\ \A g \in Heartbeats \ {h} : hb'[g] = hb[g]
      /\ hb'[h].pc = "batches" /\ hb'[h].line = l /\ hb'[h].todo = hb[h].todo \ {b}
      /\ hb'[h].gen = hb[h].gen
  BY <1>1, <1>2, <1>4 DEF Done, Set, Inv, TypeOK, HeartbeatType, Holding
<1>7. \A g \in Heartbeats \ {h} : hb[g].pc \notin Holding
  BY <1>2, Holder DEF Holding
<1>8. TypeOK'  BY <1>2, <1>4, <1>5, <1>6 DEF Inv, TypeOK
<1>9. Locked'  BY <1>6, <1>7 DEF Locked
<1>10. \A g \in Heartbeats \ {h} : hb'[g].pc \notin Busy  BY <1>6, <1>7 DEF Busy, Holding
<1>11. Collected'
  <2>1. hb[h].gen <= gen[l] /\ hb[h].todo \subseteq In(l, "todo")
    BY <1>1, <1>2 DEF Inv, Collected, Busy
  <2>2. hb'[h].todo \subseteq {c \in Ids : batch'[l][c] = "todo"}
    BY <1>5, <1>6, <2>1 DEF In
  <2> QED  BY <1>2, <1>6, <1>10, <2>1, <2>2 DEF Collected, In, Exists
<1>12. Generated'
  <2>1. \A k \in Lines : Rows(k)' = Rows(k)
    BY <1>3, <1>5 DEF Rows
  <2> QED  BY <1>2, <2>1 DEF Inv, Generated
<1>13. RunsCounted'
  <2> SUFFICES ASSUME NEW k \in Lines, NEW c \in Ids
               PROVE  /\ runs[k][c] <= 1 + faults + touches
                      /\ batch'[k][c] = "todo" => runs[k][c] <= faults + touches
    BY <1>2 DEF RunsCounted
  <2>1. /\ runs[k][c] <= 1 + faults + touches
        /\ batch[k][c] = "todo" =>
              runs[k][c] <= faults + touches \/ \E g \in Heartbeats : WorksOn(g, k, c)
    BY DEF Inv, RunsCounted
  <2>2. ASSUME batch'[k][c] = "todo" PROVE batch[k][c] = "todo" /\ (k # l \/ c # b)
    BY <1>4, <1>5, <2>2
  <2>3. \A g \in Heartbeats : WorksOn(g, k, c) => k = l /\ c = b
    BY <1>1, <1>7 DEF WorksOn, Holding
  <2> QED  BY <2>1, <2>2, <2>3
<1>14. Ordered'
  <2> SUFFICES ASSUME touches = 0
               PROVE  /\ \A k \in Lines : k < nextLine => Complete(k)'
                      /\ \A k \in Lines : k > nextLine => k \notin generated
                      /\ \A g \in Heartbeats : hb'[g].pc \in Busy =>
                            /\ hb'[g].line = nextLine /\ nextLine \in generated /\ Exists(g)'
                            /\ hb'[g].todo = In(nextLine, "todo")'
                      /\ N \notin Batched /\ state' = "success" =>
                            \A k \in Lines : Complete(k)'
    BY <1>2 DEF Ordered
  <2>1. /\ l = nextLine /\ nextLine \in generated /\ hb[h].todo = In(l, "todo")
        /\ \A k \in Lines : k < l => Complete(k)
        /\ \A k \in Lines : k > l => k \notin generated
        /\ N \notin Batched /\ state = "success" => \A k \in Lines : Complete(k)
    BY <1>1, <1>2 DEF Inv, Ordered, Busy
  <2>2. \A k \in Lines : k < l => Complete(k)'
    <3>1. \A k \in Lines : k < l => k # l  BY DEF Lines
    <3> QED  BY <1>5, <2>1, <3>1 DEF Complete, Rows, In
  <2>3. \A g \in Heartbeats : hb'[g].pc \in Busy =>
              /\ hb'[g].line = nextLine /\ nextLine \in generated /\ Exists(g)'
              /\ hb'[g].todo = In(nextLine, "todo")'
    <3>1. {c \in Ids : batch'[l][c] = "todo"} = In(l, "todo") \ {b}
      BY <1>4, <1>5 DEF In
    <3>2. In(nextLine, "todo")' = {c \in Ids : batch'[l][c] = "todo"}
      BY <1>2, <2>1 DEF In
    <3>3. Exists(h)'  BY <1>1, <1>2, <1>6 DEF Exists
    <3> QED  BY <1>2, <1>6, <1>10, <2>1, <3>1, <3>2, <3>3
  <2>4. ASSUME N \notin Batched, state' = "success" PROVE \A k \in Lines : Complete(k)'
    <3>1. state # "success"
      <4>1. ASSUME state = "success" PROVE FALSE
        <5>1. Complete(l)  BY <2>1, <2>4, <4>1
        <5> QED  BY <1>3, <5>1 DEF Complete, Rows, In
      <4> QED  BY <4>1
    <3>2. l = N /\ s = "success"  BY <1>4, <2>4, <3>1
    <3>3. Rows(N) \subseteq {1}  BY <2>4 DEF Inv, Generated
    <3>4. \A c \in Ids \ {b} : batch[N][c] = "none"
      BY <1>3, <3>2, <3>3 DEF Rows
    <3>5. Complete(N)'
      BY <1>2, <1>5, <3>2, <3>4 DEF Complete, Rows, In
    <3>6. \A k \in Lines : k # N => k < N  BY LinesType DEF Lines
    <3> QED  BY <2>2, <3>2, <3>5, <3>6
  <2> QED  BY <2>1, <2>2, <2>3, <2>4
<1> QED  BY <1>8, <1>9, <1>11, <1>12, <1>13, <1>14 DEF Inv

-----------------------------------------------------------------------------
(* Lines that lose their batches *)

LEMMA ResetLine ==
    ASSUME Inv, NEW l \in Lines, ResetProcessed(l)
    PROVE  /\ batch' \in [Lines -> [Ids -> {"none", "todo", "success", "failed"}]]
           /\ runs' \in [Lines -> [Ids -> Nat]] /\ gen' \in [Lines -> Nat]
           /\ generated' = generated \ {l}
           /\ \A b \in Ids : batch'[l][b] = "none" /\ runs'[l][b] = 0
           /\ \A k \in Lines \ {l} :
                 batch'[k] = batch[k] /\ runs'[k] = runs[k] /\ gen'[k] = gen[k]
           /\ gen'[l] = IF Rows(l) = {} THEN gen[l] ELSE gen[l] + 1
BY DEF Inv, TypeOK, ResetProcessed, NoBatches

\* A line without batches has none generated, and no start of a worker counted.
LEMMA ResetGenerated ==
    ASSUME Inv, NEW l \in Lines, ResetProcessed(l)
    PROVE  Generated'
<1>1. /\ generated' = generated \ {l}
      /\ \A b \in Ids : batch'[l][b] = "none" /\ runs'[l][b] = 0
      /\ \A k \in Lines \ {l} : batch'[k] = batch[k] /\ runs'[k] = runs[k]
  BY ResetLine
<1>2. \A k \in Lines \ {l} : Rows(k)' = Rows(k)  BY <1>1 DEF Rows
<1>3. Rows(l)' = {}  BY <1>1 DEF Rows
<1>4. N \in Lines  BY LinesType DEF Lines
<1>5. \A k \in Lines : k \in generated' <=> Rows(k)' # {}
  BY <1>1, <1>2, <1>3 DEF Inv, Generated
<1>6. \A k \in Lines \ generated', b \in Ids : runs'[k][b] = 0
  BY <1>1 DEF Inv, Generated
<1>7. N \notin Batched => Rows(N)' \subseteq {1}
  BY <1>2, <1>3, <1>4 DEF Inv, Generated
<1> QED  BY <1>5, <1>6, <1>7 DEF Generated

\* The heartbeat passes the current line and goes on or ends.
LEMMA MoveStep ==
    ASSUME Inv, NEW h \in Heartbeats, NEW rec \in HeartbeatType, Set(h, rec),
           hb[h].pc = "batches", rec.pc \notin Busy,
           nextLine < N, nextLine' = nextLine + 1, ResetProcessed(nextLine + 1),
           In(nextLine, "todo") = {}, In(nextLine, "failed") = {},
           UNCHANGED <<state, override, touches, faults>>
    PROVE  Inv'
<1>1. PICK l, m \in Lines : l = nextLine /\ m = l + 1
  BY LinesType DEF Inv, TypeOK, Lines
<1>2. /\ batch' \in [Lines -> [Ids -> {"none", "todo", "success", "failed"}]]
      /\ runs' \in [Lines -> [Ids -> Nat]] /\ gen' \in [Lines -> Nat]
      /\ generated' = generated \ {m}
      /\ \A b \in Ids : batch'[m][b] = "none" /\ runs'[m][b] = 0
      /\ \A k \in Lines \ {m} :
            batch'[k] = batch[k] /\ runs'[k] = runs[k] /\ gen'[k] = gen[k]
  BY <1>1, ResetLine
<1>3. \A g \in Heartbeats \ {h} : hb[g].pc \notin Holding
  BY Holder DEF Holding
<1>4. /\ hb' \in [Heartbeats -> HeartbeatType]
      /\ hb'[h] = rec
      /\ \A g \in Heartbeats \ {h} : hb'[g] = hb[g]
  BY DEF Set, Inv, TypeOK
<1>5. faults \in Nat /\ touches \in Nat  BY DEF Inv, TypeOK
<1>6. \A g \in Heartbeats : hb'[g].pc \notin Busy  BY <1>3, <1>4 DEF Busy, Holding
<1>7. TypeOK'  BY <1>1, <1>2, <1>4 DEF Inv, TypeOK
<1>8. Locked'  BY <1>3, <1>4 DEF Locked
<1>9. Collected'  BY <1>6 DEF Collected
<1>10. Generated'  BY <1>1, ResetGenerated
<1>11. RunsCounted'
  <2> SUFFICES ASSUME NEW k \in Lines, NEW c \in Ids
               PROVE  /\ runs'[k][c] <= 1 + faults + touches
                      /\ batch'[k][c] = "todo" => runs'[k][c] <= faults + touches
    BY DEF RunsCounted
  <2>1. /\ runs[k][c] <= 1 + faults + touches
        /\ batch[k][c] = "todo" =>
              runs[k][c] <= faults + touches \/ \E g \in Heartbeats : WorksOn(g, k, c)
    BY DEF Inv, RunsCounted
  <2>2. \A g \in Heartbeats : ~WorksOn(g, k, c)
    BY <1>3 DEF WorksOn, Holding
  <2>3. CASE k = m  BY <1>2, <1>5, <2>3
  <2>4. CASE k # m  BY <1>2, <2>1, <2>2, <2>4
  <2> QED  BY <2>3, <2>4
<1>12. Ordered'
  <2> SUFFICES ASSUME touches = 0
               PROVE  /\ \A k \in Lines : k < m => Complete(k)'
                      /\ \A k \in Lines : k > m => k \notin generated'
                      /\ N \notin Batched => state # "success"
    BY <1>1, <1>6 DEF Ordered
  <2>1. /\ l \in generated /\ m \notin generated
        /\ \A k \in Lines : k < l => Complete(k)
        /\ \A k \in Lines : k > l => k \notin generated
    BY <1>1 DEF Inv, Ordered, Busy, Lines
  <2>2. Complete(l)
    <3>1. \A c \in Ids : batch[l][c] \in {"none", "success"}
      <4>1. \A c \in Ids : batch[l][c] \in {"none", "todo", "success", "failed"}
        BY DEF Inv, TypeOK
      <4> QED  BY <1>1, <4>1 DEF In
    <3>2. Rows(l) # {}  BY <2>1 DEF Inv, Generated
    <3> QED  BY <3>1, <3>2 DEF Complete, Rows, In
  <2>3. \A k \in Lines : k < m => Complete(k) /\ k # m
    BY <1>1, <2>1, <2>2 DEF Lines
  <2>4. \A k \in Lines : k < m => Complete(k)'
    BY <1>2, <2>3 DEF Complete, Rows, In
  <2>5. \A k \in Lines : k > m => k \notin generated'
    BY <1>1, <1>2, <2>1 DEF Lines
  <2>6. N \notin Batched => state # "success"
    BY <2>1 DEF Inv, Ordered, Generated, Complete
  <2> QED  BY <2>4, <2>5, <2>6
<1> QED  BY <1>7, <1>8, <1>9, <1>10, <1>11, <1>12 DEF Inv

LEMMA GotoNextLineStep ==
    ASSUME Inv, NEW h \in Heartbeats, GotoNextLine(h)
    PROVE  Inv'
<1>1. /\ hb[h].pc = "batches" /\ hb[h].todo = {}
      /\ UNCHANGED <<touches, faults>> /\ faults \in Nat
  BY DEF GotoNextLine, Inv, TypeOK
<1>2. \A l \in Lines, b \in Ids : ~WorksOn(h, l, b)  BY <1>1, NotWorking
<1>3. /\ [hb[h] EXCEPT !.pc = "prepare"] \in HeartbeatType
      /\ [hb[h] EXCEPT !.pc = "prepare"].pc = "prepare"
  <2>1. hb[h] \in HeartbeatType  BY DEF Inv, TypeOK
  <2> QED  BY <2>1 DEF HeartbeatType, Holding
<1>4. CASE UNCHANGED <<row, lines, runs>> /\ After(h, FALSE)
  <2>1. Set(h, Off)  BY <1>4 DEF After
  <2>2. UNCHANGED <<row, lines, history>>  BY <1>1, <1>4 DEF history
  <2> QED  BY <1>2, <2>1, <2>2, OffType, QuietStep
<1>5. CASE state' = "failed" /\ UNCHANGED <<nextLine, override, lines, runs>> /\ After(h, FALSE)
  <2>1. Set(h, Off)  BY <1>5 DEF After
  <2>2. UNCHANGED <<nextLine, override, batch, generated, gen, runs, touches>>
    BY <1>1, <1>5 DEF lines
  <2>3. faults' \in Nat /\ faults' >= faults  BY <1>1
  <2> QED  BY <1>2, <1>5, <2>1, <2>2, <2>3, OffType, HeartbeatStep DEF Busy
<1>6. CASE /\ In(nextLine, "todo") = {} /\ In(nextLine, "failed") = {} /\ nextLine # N
           /\ nextLine' = nextLine + 1
           /\ ResetProcessed(nextLine + 1)
           /\ UNCHANGED <<state, override>>
           /\ After(h, nextLine \in Continue)
  <2>1. PICK rec \in HeartbeatType : Set(h, rec) /\ rec.pc \notin Busy
    BY <1>3, <1>6, OffType DEF After, Busy
  <2>2. nextLine < N  BY <1>6, LinesType DEF Inv, TypeOK, Lines
  <2> QED  BY <1>1, <1>6, <2>1, <2>2, MoveStep
<1> QED  BY <1>4, <1>5, <1>6 DEF GotoNextLine

-----------------------------------------------------------------------------
(* Users *)

\* Users write the row of the instance, and may start a heartbeat; whatever they
\* reset, what a heartbeat has collected of it is gone.
LEMMA TouchStep ==
    ASSUME Inv, touches' = touches + 1, faults' = faults,
           state' \in {"running", "failed"} \/ state' = state,
           nextLine' \in Lines, override' \in Lines \cup {0},
           \/ hb' = Stale
           \/ \E h \in Heartbeats : hb[h] = Off /\ hb' = [Stale EXCEPT ![h] = ByRequest],
           \/ UNCHANGED <<lines, runs>>
           \/ \E l \in Lines : ResetProcessed(l)
    PROVE  Inv'
<1>1. /\ touches \in Nat /\ faults \in Nat /\ hb \in [Heartbeats -> HeartbeatType]
      /\ batch \in [Lines -> [Ids -> {"none", "todo", "success", "failed"}]]
      /\ gen \in [Lines -> Nat] /\ runs \in [Lines -> [Ids -> Nat]]
  BY DEF Inv, TypeOK
\* The heartbeats after the step.
<1>2. /\ hb' \in [Heartbeats -> HeartbeatType]
      /\ \A h \in Heartbeats :
            \/ hb'[h].pc = "lock"
            \/ /\ hb'[h].pc = hb[h].pc /\ hb'[h].line = hb[h].line
               /\ hb'[h].gen = hb[h].gen /\ hb'[h].todo = hb[h].todo
  <2>1. /\ Stale \in [Heartbeats -> HeartbeatType]
        /\ \A h \in Heartbeats :
              /\ Stale[h].pc = hb[h].pc /\ Stale[h].line = hb[h].line
              /\ Stale[h].gen = hb[h].gen /\ Stale[h].todo = hb[h].todo
    <3> SUFFICES ASSUME NEW h \in Heartbeats
                 PROVE  /\ Stale[h] \in HeartbeatType
                        /\ Stale[h].pc = hb[h].pc /\ Stale[h].line = hb[h].line
                        /\ Stale[h].gen = hb[h].gen /\ Stale[h].todo = hb[h].todo
      BY DEF Stale
    <3>1. hb[h] \in HeartbeatType  BY <1>1
    <3>2. Stale[h] \in {hb[h], [hb[h] EXCEPT !.stale = TRUE]}  BY DEF Stale
    <3>3. CASE Stale[h] = hb[h]  BY <3>1, <3>3
    <3>4. CASE Stale[h] = [hb[h] EXCEPT !.stale = TRUE]
      BY <3>1, <3>4 DEF HeartbeatType
    <3> QED  BY <3>2, <3>3, <3>4
  <2>2. CASE hb' = Stale  BY <2>1, <2>2
  <2>3. CASE \E h \in Heartbeats : hb[h] = Off /\ hb' = [Stale EXCEPT ![h] = ByRequest]
    BY <2>1, <2>3, OffType
  <2> QED  BY <2>2, <2>3
\* The lines after the step.
<1>3. /\ batch' \in [Lines -> [Ids -> {"none", "todo", "success", "failed"}]]
      /\ gen' \in [Lines -> Nat] /\ runs' \in [Lines -> [Ids -> Nat]]
      /\ generated' \subseteq Lines
      /\ \A k \in Lines : gen[k] <= gen'[k]
      /\ \A k \in Lines : gen[k] = gen'[k] => batch'[k] = batch[k] \/ Rows(k) = {}
      /\ \A k \in Lines, b \in Ids : runs'[k][b] <= runs[k][b]
      /\ Generated'
  <2>1. CASE UNCHANGED <<lines, runs>>
    <3>1. UNCHANGED <<batch, generated, gen, runs>>  BY <2>1 DEF lines
    <3> QED  BY <1>1, <3>1 DEF Inv, TypeOK, Generated, Rows
  <2>2. ASSUME NEW l \in Lines, ResetProcessed(l)
        PROVE  <1>3!:
    <3>1. /\ batch' \in [Lines -> [Ids -> {"none", "todo", "success", "failed"}]]
          /\ runs' \in [Lines -> [Ids -> Nat]] /\ gen' \in [Lines -> Nat]
          /\ generated' = generated \ {l}
          /\ \A b \in Ids : runs'[l][b] = 0
          /\ \A k \in Lines \ {l} :
                batch'[k] = batch[k] /\ runs'[k] = runs[k] /\ gen'[k] = gen[k]
          /\ gen'[l] = IF Rows(l) = {} THEN gen[l] ELSE gen[l] + 1
      BY <2>2, ResetLine
    <3>2. Generated'  BY <2>2, ResetGenerated
    <3>3. \A k \in Lines, b \in Ids : runs'[k][b] <= runs[k][b]  BY <1>1, <3>1
    <3>4. \A k \in Lines :
             gen[k] <= gen'[k] /\ (gen[k] = gen'[k] => batch'[k] = batch[k] \/ Rows(k) = {})
      BY <1>1, <3>1
    <3>5. generated' \subseteq Lines  BY <3>1 DEF Inv, TypeOK
    <3> QED  BY <3>1, <3>2, <3>3, <3>4, <3>5
  <2> QED  BY <2>1, <2>2
<1>4. TypeOK'
  <2>1. state' \in {"pending", "running", "success", "failed"}  BY DEF Inv, TypeOK
  <2> QED  BY <1>1, <1>2, <1>3, <2>1 DEF TypeOK
<1>5. Locked'
  <2>1. \A h \in Heartbeats : hb'[h].pc \in Holding => hb[h].pc \in Holding
    BY <1>2 DEF Holding
  <2> QED  BY <2>1 DEF Inv, Locked, Holding
<1>6. Collected'
  <2>1. ASSUME NEW h \in Heartbeats, hb'[h].pc \in Busy
        PROVE  /\ hb'[h].gen <= gen'[hb'[h].line]
               /\ gen'[hb'[h].line] = hb'[h].gen =>
                     hb'[h].todo \subseteq {b \in Ids : batch'[hb'[h].line][b] = "todo"}
               /\ hb'[h].pc = "working" => hb'[h].todo # {}
    <3>1. /\ hb'[h].pc = hb[h].pc /\ hb'[h].line = hb[h].line
          /\ hb'[h].gen = hb[h].gen /\ hb'[h].todo = hb[h].todo
      BY <1>2, <2>1 DEF Busy
    <3>2. PICK k \in Lines : k = hb[h].line  BY <1>1 DEF HeartbeatType
    <3>3. /\ hb[h].gen <= gen[k]
          /\ gen[k] = hb[h].gen => hb[h].todo \subseteq In(k, "todo")
          /\ hb[h].pc = "working" => hb[h].todo # {}
      BY <2>1, <3>1, <3>2 DEF Inv, Collected, Exists
    <3>4. hb[h].gen \in Nat /\ gen[k] \in Nat /\ gen'[k] \in Nat /\ gen[k] <= gen'[k]
      BY <1>1, <1>3 DEF HeartbeatType
    <3>5. hb[h].gen <= gen'[k]  BY <3>3, <3>4
    <3>6. ASSUME gen'[k] = hb[h].gen
          PROVE  hb[h].todo \subseteq {b \in Ids : batch'[k][b] = "todo"}
      <4>1. gen[k] = gen'[k]  BY <3>3, <3>4, <3>6
      <4>2. hb[h].todo \subseteq In(k, "todo")  BY <3>3, <3>6, <4>1
      <4>3. CASE batch'[k] = batch[k]  BY <4>2, <4>3 DEF In
      <4>4. CASE Rows(k) = {}  BY <4>2, <4>4 DEF In, Rows
      <4> QED  BY <1>3, <4>1, <4>3, <4>4
    <3> QED  BY <3>1, <3>2, <3>3, <3>5, <3>6
  <2> QED  BY <2>1 DEF Collected, Exists, In
<1>7. RunsCounted'
  <2> SUFFICES ASSUME NEW k \in Lines, NEW b \in Ids
               PROVE  runs'[k][b] <= faults + (touches + 1)
    BY <1>1, <1>3 DEF RunsCounted
  <2>1. runs[k][b] <= 1 + faults + touches  BY DEF Inv, RunsCounted
  <2>2. runs'[k][b] <= runs[k][b] /\ runs'[k][b] \in Nat /\ runs[k][b] \in Nat
    BY <1>1, <1>3
  <2> QED  BY <1>1, <2>1, <2>2
<1>8. Ordered'  BY <1>1 DEF Ordered
<1> QED  BY <1>3, <1>4, <1>5, <1>6, <1>7, <1>8 DEF Inv

LEMMA MakeCurrentStep ==
    ASSUME Inv, NEW l \in Lines, MakeCurrent(l)
    PROVE  /\ state' = "running" /\ nextLine' \in Lines /\ override' \in Lines \cup {0}
           /\ ResetProcessed(l)
BY LinesType DEF MakeCurrent, Lines

LEMMA PrevLineType == ASSUME Inv PROVE PrevLine \in Lines
BY LinesType DEF Inv, TypeOK, PrevLine, Lines

LEMMA UserStep == ASSUME Inv, UserNext PROVE Inv'
<1>1. /\ nextLine \in Lines /\ override \in Lines \cup {0}
      /\ N \in Lines
  BY LinesType DEF Inv, TypeOK, Lines
<1>2. ASSUME NEW l \in Lines, ButtonMakeCurrent(l) PROVE Inv'
  BY <1>2, MakeCurrentStep, TouchStep DEF ButtonMakeCurrent, Touch
<1>3. ASSUME NEW h \in Heartbeats, HeartbeatUi(h) PROVE Inv'
  BY <1>1, <1>3, MakeCurrentStep, TouchStep DEF HeartbeatUi, Touch
<1>4. ASSUME NEW h \in Heartbeats, Replay(h) PROVE Inv'
  BY <1>4, PrevLineType, MakeCurrentStep, TouchStep DEF Replay, Touch
<1>5. CASE Abort  BY <1>1, <1>5, TouchStep DEF Abort, Touch
<1>6. CASE Retry  BY <1>1, <1>6, TouchStep DEF Retry, Touch
<1>7. CASE GotoEnd  BY <1>1, <1>7, TouchStep DEF GotoEnd, Touch
<1> QED  BY <1>2, <1>3, <1>4, <1>5, <1>6, <1>7 DEF UserNext

-----------------------------------------------------------------------------
(* The theorems *)

LEMMA InitInv == Init => Inv
<1> SUFFICES ASSUME Init PROVE Inv  OBVIOUS
<1>1. 1 \in Lines /\ N \in Lines  BY LinesType DEF Lines
<1>2. /\ hb \in [Heartbeats -> HeartbeatType]
      /\ \A h \in Heartbeats : hb[h].pc \in {"idle", "lock"}
  <2>1. PICK S : hb = [h \in Heartbeats |-> IF h \in S THEN ByRequest ELSE Off]
    BY DEF Init
  <2> QED  BY <2>1, OffType
<1>3. /\ batch = [l \in Lines |-> [b \in Ids |-> "none"]] /\ generated = {}
      /\ runs = [l \in Lines |-> [b \in Ids |-> 0]] /\ faults = 0 /\ touches = 0
      /\ state = "pending" /\ nextLine = 1
  BY DEF Init, NoBatches
<1>4. TypeOK  BY <1>1, <1>2, <1>3 DEF Init, TypeOK
<1>5. Locked /\ Collected  BY <1>2 DEF Locked, Collected, Holding, Busy
<1>6. \A l \in Lines : Rows(l) = {}  BY <1>3 DEF Rows
<1>7. Generated  BY <1>1, <1>3, <1>6 DEF Generated
<1>8. RunsCounted  BY <1>3 DEF RunsCounted
<1>9. Ordered  BY <1>2, <1>3 DEF Ordered, Lines, Busy
<1> QED  BY <1>4, <1>5, <1>7, <1>8, <1>9 DEF Inv

LEMMA NextInv == Inv /\ [Next]_vars => Inv'
<1> SUFFICES ASSUME Inv, [Next]_vars PROVE Inv'  OBVIOUS
<1>1. ASSUME NEW h \in Heartbeats, Work(h) PROVE Inv'
  BY <1>1, WaitingSteps, PrepareStep, StartBatchStep, DoneStep, GotoNextLineStep DEF Work
<1>2. CASE HeartbeatNext
  BY <1>1, <1>2, WaitingSteps DEF HeartbeatNext
<1>3. CASE UserNext  BY <1>3, UserStep
<1>4. CASE UNCHANGED vars
  <2>1. /\ UNCHANGED <<state, nextLine, override, batch, generated, gen>>
        /\ UNCHANGED <<hb, runs, touches, faults>>
    BY <1>4 DEF vars, row, lines, history
  <2>2. TypeOK' /\ Locked' /\ Collected'
    BY <2>1 DEF Inv, TypeOK, Locked, Collected, Exists, In
  <2>3. Generated'  BY <2>1 DEF Inv, Generated, Rows
  <2>4. RunsCounted'  BY <2>1 DEF Inv, RunsCounted, WorksOn, Exists
  <2>5. Ordered'  BY <2>1 DEF Inv, Ordered, Complete, Rows, In, Exists
  <2> QED  BY <2>2, <2>3, <2>4, <2>5 DEF Inv
<1> QED  BY <1>2, <1>3, <1>4 DEF Next

LEMMA InvHolds == Spec => []Inv
BY InitInv, NextInv, PTL DEF Spec

\* Every variable keeps its type, whatever the heartbeats and the users do.
THEOREM TypeCorrect == Spec => []TypeOK
<1>1. Inv => TypeOK  BY DEF Inv
<1> QED  BY <1>1, InvHolds, PTL

\* At most one heartbeat is past the advisory lock: no two prepare a line, run a
\* worker or go to the next line at the same time.
THEOREM LockExclusive == Spec => []Locked
<1>1. Inv => Locked  BY DEF Inv
<1> QED  BY <1>1, InvHolds, PTL

\* The worker of a batch is started once, plus once per fault and per operation
\* of a user: heartbeats that wait, overlap or retry do not repeat work.
THEOREM RunsBounded == Spec => []RunOnce
<1>1. Inv => RunOnce  BY DEF Inv, RunsCounted, RunOnce
<1> QED  BY <1>1, InvHolds, PTL

\* As long as no user interferes, a line has batches only when all the lines
\* before it are complete, whatever faults the heartbeats meet.
THEOREM LinesOrdered == Spec => []LinesInOrder
<1>1. Inv => LinesInOrder
  <2> SUFFICES ASSUME Inv, touches = 0, NEW l \in Lines, Rows(l) # {}, NEW k \in 1..(l - 1)
               PROVE  Complete(k)
    BY DEF LinesInOrder
  <2>1. l \in generated  BY DEF Inv, Generated
  <2>2. ~(l > nextLine)  BY <2>1 DEF Inv, Ordered
  <2>3. k \in Lines /\ k < nextLine
    BY <2>2, LinesType DEF Inv, TypeOK, Lines
  <2> QED  BY <2>3 DEF Inv, Ordered
<1> QED  BY <1>1, InvHolds, PTL

\* As long as no user interferes, an instance that is a success has only complete
\* lines, unless zbs.stop has a batchsize: then it runs once per batch, and the
\* first run marks the instance.
THEOREM SuccessComplete == N \notin Batched => (Spec => []SuccessIsComplete)
<1> SUFFICES ASSUME N \notin Batched PROVE Spec => []SuccessIsComplete  OBVIOUS
<1>1. Inv => SuccessIsComplete  BY DEF Inv, Ordered, SuccessIsComplete
<1> QED  BY <1>1, InvHolds, PTL
=============================================================================
