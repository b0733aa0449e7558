---------------------------- MODULE JobGraphProofs ----------------------------
(* Proofs about JobGraph, for any graph of jobs, any number of workers of      *)
(* either kind, crashes, retries and buttons.                                  *)
EXTENDS JobGraph, TLAPS, FiniteSetTheorems, WellFoundedInduction

-----------------------------------------------------------------------------
(* The invariant *)

ParentsDone(j) == \A p \in Depends[j] : row[p] = "done"

\* Jobs that were released, and that no user has closed.
ReleasedReady == \A j \in Jobs : row[j] \in {"pending", "started", "failed"} => ParentsDone(j)

\* What worker w has written and not committed: children that it releases, and the
\* job that a cron worker has acquired.
OwnWrites(w) ==
    \A j \in Jobs : tx[w].own[j] # "same" =>
        /\ tx[w].own[j] \in {"pending", "started"}
        /\ row[j] \in {"wait_dependencies", "pending"}
        /\ ParentsDone(j)

\* Row locks.
LocksExclude ==
    \A v, w \in Workers, j \in Jobs :
        v # w => tx[v].own[j] = "same" \/ tx[w].own[j] = "same"

\* What the UPDATE has still to lock is to be released, or was written since.
ToRelease(w) ==
    \A c \in tx[w].todo :
        /\ tx[w].pc = "update"
        /\ ParentsDone(c)
        /\ tx[w].old[c] = "same" => row[c] = "wait_dependencies"

\* A request has committed "started"; a cron worker has locked the row.
Performs(w) ==
    tx[w].pc = "performing" =>
        /\ tx[w].job \in Jobs
        /\ runner = "http" => row[tx[w].job] = "started"
        /\ runner = "cron" => tx[w].own[tx[w].job] = "started"

WorkerInv(w) == OwnWrites(w) /\ ToRelease(w) /\ Performs(w)

Inv ==
    /\ TypeOK
    /\ ReleasedReady
    /\ LocksExclude
    /\ \A w \in Workers : WorkerInv(w)
    /\ OneWorkerPerJob

\* What a step may do to the rows.
RowStep(j) ==
    \/ row'[j] = row[j]
    \/ /\ row[j] \in {"wait_dependencies", "pending", "started"} /\ ParentsDone(j)
       /\ row'[j] \in {"pending", "started", "done", "failed"}
    \/ row'[j] = "done" /\ row[j] # "done" /\ j \in touches'

RowsStep ==
    /\ \A j \in Jobs : RowStep(j)
    /\ \A j \in Jobs : row[j] = "done" => row'[j] = "done"
    /\ touches \subseteq touches'

-----------------------------------------------------------------------------
(* Types *)

LEMMA IdleType == Idle \in TxType
BY DEF Idle, TxType, Same

LEMMA CommitType ==
    ASSUME TypeOK, NEW w \in Workers, NEW own \in [Jobs -> States \cup {"same"}],
           NEW t \in TxType, Commit(w, own, t)
    PROVE  row' \in [Jobs -> States] /\ tx' \in [Workers -> TxType]
<1>1. row' \in [Jobs -> States]  BY DEF Commit, TypeOK
<1>2. ASSUME NEW v \in Workers PROVE tx'[v] \in TxType
  <2> DEFINE old == [j \in Jobs |-> IF own[j] # "same" /\ tx[v].old[j] = "same"
                                      THEN row[j] ELSE tx[v].old[j]]
  <2>1. tx[v] \in TxType /\ row \in [Jobs -> States]  BY DEF TypeOK
  <2>2. old \in [Jobs -> States \cup {"same"}]  BY <2>1 DEF TxType
  <2>3. tx'[v] = t \/ tx'[v] = tx[v] \/ tx'[v] = [tx[v] EXCEPT !.old = old]
    BY DEF Commit
  <2> HIDE DEF old
  <2> QED  BY <2>1, <2>2, <2>3 DEF TxType
<1>3. tx' = [v \in Workers |-> tx'[v]]  BY DEF Commit
<1> QED  BY <1>1, <1>2, <1>3

\* The transactions of the others when worker w commits.
LEMMA OthersKept ==
    ASSUME TypeOK, NEW w \in Workers, NEW own, NEW t, Commit(w, own, t)
    PROVE  /\ tx'[w] = t
           /\ \A v \in Workers \ {w} :
                 /\ tx'[v].pc = tx[v].pc /\ tx'[v].job = tx[v].job
                 /\ tx'[v].own = tx[v].own /\ tx'[v].todo = tx[v].todo
                 /\ tx[v].pc \notin {"idle", "committed"} =>
                      \A j \in Jobs : tx'[v].old[j] = "same" =>
                          tx[v].old[j] = "same" /\ own[j] = "same"
<1>1. tx'[w] = t  BY DEF Commit
<1>2. ASSUME NEW v \in Workers \ {w}
      PROVE  /\ tx'[v].pc = tx[v].pc /\ tx'[v].job = tx[v].job
             /\ tx'[v].own = tx[v].own /\ tx'[v].todo = tx[v].todo
             /\ tx[v].pc \notin {"idle", "committed"} =>
                  \A j \in Jobs : tx'[v].old[j] = "same" =>
                      tx[v].old[j] = "same" /\ own[j] = "same"
  <2> DEFINE old == [j \in Jobs |-> IF own[j] # "same" /\ tx[v].old[j] = "same"
                                      THEN row[j] ELSE tx[v].old[j]]
  <2>1. tx[v] \in TxType /\ \A j \in Jobs : row[j] # "same"  BY DEF TypeOK, States
  <2>2. tx'[v] = IF tx[v].pc \in {"idle", "committed"} THEN tx[v]
                 ELSE [tx[v] EXCEPT !.old = old]
    BY DEF Commit
  <2>3. \A j \in Jobs : old[j] = "same" => tx[v].old[j] = "same" /\ own[j] = "same"
    BY <2>1
  <2> HIDE DEF old
  <2> QED  BY <2>1, <2>2, <2>3 DEF TxType
<1> QED  BY <1>1, <1>2

-----------------------------------------------------------------------------
(* Commits *)

\* The writes that may be committed, and what the worker goes on with.
Committable(w, own, t) ==
    /\ own \in [Jobs -> States \cup {"same"}]
    /\ \A j \in Jobs : own[j] # "same" =>
          /\ own[j] \in {"pending", "started", "done", "failed"}
          /\ row[j] \in {"wait_dependencies", "pending", "started"}
          /\ ParentsDone(j)
          /\ \A v \in Workers \ {w} :
                /\ tx[v].own[j] = "same"
                /\ runner = "http" /\ tx[v].pc = "performing" => tx[v].job # j
    /\ t \in TxType /\ t.own = Same /\ t.todo = {}
    /\ t.pc = "performing" =>
          /\ runner = "http" /\ t.job \in Jobs /\ own[t.job] = "started"

LEMMA CommitStep ==
    ASSUME Inv, NEW w \in Workers, NEW own, NEW t, Committable(w, own, t),
           Commit(w, own, t), faults' \in Nat, UNCHANGED <<runner, touches>>
    PROVE  Inv' /\ RowsStep
<1>1. TypeOK  BY DEF Inv
<1>2. row' \in [Jobs -> States] /\ tx' \in [Workers -> TxType]
  BY <1>1, CommitType DEF Committable
<1>3. TypeOK'  BY <1>1, <1>2 DEF TypeOK
<1>4. \A j \in Jobs : row'[j] = IF own[j] = "same" THEN row[j] ELSE own[j]
  BY DEF Commit
<1>5. \A j \in Jobs : row[j] = "done" => row'[j] = "done"
  BY <1>4 DEF Committable
<1>6. ASSUME NEW j \in Jobs, ParentsDone(j) PROVE ParentsDone(j)'
  BY <1>5, <1>6, DependsType DEF ParentsDone
<1>7. RowsStep
  BY <1>4, <1>5 DEF RowsStep, RowStep, Committable
<1>8. ReleasedReady'
  BY <1>4, <1>6 DEF ReleasedReady, Inv, Committable
<1>9. /\ tx'[w] = t
      /\ \A v \in Workers \ {w} :
            /\ tx'[v].pc = tx[v].pc /\ tx'[v].job = tx[v].job
            /\ tx'[v].own = tx[v].own /\ tx'[v].todo = tx[v].todo
            /\ tx[v].pc \notin {"idle", "committed"} =>
                 \A j \in Jobs : tx'[v].old[j] = "same" =>
                     tx[v].old[j] = "same" /\ own[j] = "same"
  BY <1>1, OthersKept
<1>10. \A j \in Jobs : t.own[j] = "same"  BY DEF Committable, Same
<1>11. LocksExclude'
  <2> SUFFICES ASSUME NEW u \in Workers, NEW v \in Workers, NEW j \in Jobs, u # v
               PROVE  tx'[u].own[j] = "same" \/ tx'[v].own[j] = "same"
    BY DEF LocksExclude
  <2>1. CASE u = w \/ v = w  BY <1>9, <1>10, <2>1
  <2>2. CASE u # w /\ v # w  BY <1>9, <2>2 DEF Inv, LocksExclude
  <2> QED  BY <2>1, <2>2
<1>12. ASSUME NEW v \in Workers \ {w} PROVE WorkerInv(v)'
  <2>1. WorkerInv(v)  BY DEF Inv
  <2>2. OwnWrites(v)'
    <3> SUFFICES ASSUME NEW j \in Jobs, tx'[v].own[j] # "same"
                 PROVE  /\ tx'[v].own[j] \in {"pending", "started"}
                        /\ row'[j] \in {"wait_dependencies", "pending"}
                        /\ ParentsDone(j)'
      BY DEF OwnWrites
    <3>1. tx[v].own[j] # "same" /\ tx'[v].own[j] = tx[v].own[j]  BY <1>9
    <3>2. own[j] = "same"  BY <3>1 DEF Committable
    <3> QED  BY <1>4, <1>6, <2>1, <3>1, <3>2 DEF WorkerInv, OwnWrites
  <2>3. ToRelease(v)'
    <3> SUFFICES ASSUME NEW c \in tx[v].todo
                 PROVE  /\ tx'[v].pc = "update" /\ ParentsDone(c)'
                        /\ tx'[v].old[c] = "same" => row'[c] = "wait_dependencies"
      BY <1>9 DEF ToRelease
    <3>1. c \in Jobs  BY <1>1 DEF TypeOK, TxType
    <3>2. tx[v].pc = "update" /\ ParentsDone(c)
          /\ (tx[v].old[c] = "same" => row[c] = "wait_dependencies")
      BY <2>1 DEF WorkerInv, ToRelease
    <3> QED  BY <1>4, <1>6, <1>9, <3>1, <3>2
  <2>4. Performs(v)'
    <3> SUFFICES ASSUME tx[v].pc = "performing"
                 PROVE  /\ tx[v].job \in Jobs
                        /\ runner = "http" => row'[tx[v].job] = "started"
                        /\ runner = "cron" => tx[v].own[tx[v].job] = "started"
      BY <1>9 DEF Performs
    <3>1. tx[v].job \in Jobs /\ (runner = "http" => row[tx[v].job] = "started")
          /\ (runner = "cron" => tx[v].own[tx[v].job] = "started")
      BY <2>1 DEF WorkerInv, Performs
    <3>2. runner = "http" => own[tx[v].job] = "same"  BY <3>1 DEF Committable
    <3> QED  BY <1>4, <3>1, <3>2
  <2> QED  BY <2>2, <2>3, <2>4 DEF WorkerInv
<1>13. WorkerInv(w)'
  <2>1. OwnWrites(w)'  BY <1>9, <1>10 DEF OwnWrites
  <2>2. ToRelease(w)'  BY <1>9 DEF ToRelease, Committable
  <2>3. Performs(w)'  BY <1>4, <1>9 DEF Performs, Committable
  <2> QED  BY <2>1, <2>2, <2>3 DEF WorkerInv
<1>14. OneWorkerPerJob'
  <2> SUFFICES ASSUME NEW u \in Workers, NEW v \in Workers, u # v,
                      tx'[u].pc = "performing", tx'[v].pc = "performing"
               PROVE  tx'[u].job # tx'[v].job
    BY DEF OneWorkerPerJob
  <2>1. CASE u # w /\ v # w  BY <1>9, <2>1 DEF Inv, OneWorkerPerJob
  <2>2. ASSUME NEW x \in Workers \ {w}, tx'[x].pc = "performing", tx'[w].pc = "performing"
        PROVE  tx'[x].job # tx'[w].job
    <3>1. t.job \in Jobs /\ own[t.job] # "same" /\ runner = "http"
      BY <1>9, <2>2 DEF Committable
    <3> QED  BY <1>9, <2>2, <3>1 DEF Committable
  <2> QED  BY <2>1, <2>2
<1>15. \A v \in Workers : WorkerInv(v)'  BY <1>12, <1>13
<1> QED  BY <1>3, <1>7, <1>8, <1>11, <1>14, <1>15 DEF Inv

-----------------------------------------------------------------------------
(* Steps inside transactions *)

\* What the transaction of worker w may become.
Allowed(w, new) ==
    /\ new \in TxType
    /\ \A j \in Jobs : new.own[j] # "same" =>
          /\ new.own[j] \in {"pending", "started"}
          /\ row[j] \in {"wait_dependencies", "pending"}
          /\ ParentsDone(j)
          /\ \A v \in Workers \ {w} : tx[v].own[j] = "same"
    /\ \A c \in new.todo :
          /\ new.pc = "update"
          /\ ParentsDone(c)
          /\ new.old[c] = "same" => row[c] = "wait_dependencies"
    /\ new.pc = "performing" =>
          /\ new.job \in Jobs /\ runner = "cron" /\ new.own[new.job] = "started"

LEMMA TxStep ==
    ASSUME Inv, NEW w \in Workers, NEW new, Allowed(w, new), tx' = [tx EXCEPT ![w] = new],
           faults' \in Nat, UNCHANGED <<row, runner, touches>>
    PROVE  Inv' /\ RowsStep
<1>1. tx'[w] = new /\ \A v \in Workers \ {w} : tx'[v] = tx[v]  BY DEF Inv, TypeOK
<1>2. TypeOK'  BY DEF Inv, TypeOK, Allowed
<1>3. ReleasedReady'  BY DEF Inv, ReleasedReady, ParentsDone
<1>4. LocksExclude'
  <2> SUFFICES ASSUME NEW u \in Workers, NEW v \in Workers, NEW j \in Jobs, u # v
               PROVE  tx'[u].own[j] = "same" \/ tx'[v].own[j] = "same"
    BY DEF LocksExclude
  <2> QED  BY <1>1 DEF Inv, LocksExclude, Allowed
<1>5. ASSUME NEW v \in Workers PROVE WorkerInv(v)'
  <2>1. CASE v # w
    <3>1. WorkerInv(v) /\ tx'[v] = tx[v]  BY <1>1, <2>1 DEF Inv
    <3> QED  BY <3>1 DEF WorkerInv, OwnWrites, ToRelease, Performs, ParentsDone
  <2>2. CASE v = w
    <3>1. OwnWrites(w)'  BY <1>1 DEF OwnWrites, Allowed, ParentsDone
    <3>2. ToRelease(w)'  BY <1>1 DEF ToRelease, Allowed, ParentsDone
    <3>3. Performs(w)'
      BY <1>1, RunnersType DEF Performs, Allowed, Inv, TypeOK
    <3> QED  BY <2>2, <3>1, <3>2, <3>3 DEF WorkerInv
  <2> QED  BY <2>1, <2>2
<1>6. OneWorkerPerJob'
  <2> SUFFICES ASSUME NEW u \in Workers, NEW v \in Workers, u # v,
                      tx'[u].pc = "performing", tx'[v].pc = "performing"
               PROVE  tx'[u].job # tx'[v].job
    BY DEF OneWorkerPerJob
  <2>1. CASE u # w /\ v # w  BY <1>1, <2>1 DEF Inv, OneWorkerPerJob
  <2>2. ASSUME NEW x \in Workers \ {w}, tx[x].pc = "performing", new.pc = "performing"
        PROVE  tx[x].job # new.job
    <3>1. /\ runner = "cron" /\ new.job \in Jobs /\ new.own[new.job] = "started"
          /\ tx[x].own[new.job] = "same"
      BY <2>2 DEF Allowed
    <3>2. tx[x].own[tx[x].job] = "started"
      BY <2>2, <3>1 DEF Inv, WorkerInv, Performs
    <3> QED  BY <3>1, <3>2
  <2> QED  BY <1>1, <2>1, <2>2
<1>7. RowsStep  BY DEF RowsStep, RowStep
<1> QED  BY <1>2, <1>3, <1>4, <1>5, <1>6, <1>7 DEF Inv

\* A transaction that is rolled back.
LEMMA Rollback ==
    ASSUME Inv, NEW w \in Workers, tx' = [tx EXCEPT ![w] = Idle],
           faults' \in Nat, UNCHANGED <<row, runner, touches>>
    PROVE  Inv' /\ RowsStep
<1>1. Allowed(w, Idle)
  <2>1. Idle.pc = "idle" /\ Idle.todo = {} /\ \A j \in Jobs : Idle.own[j] = "same"
    BY DEF Idle, Same
  <2> QED  BY <2>1, IdleType DEF Allowed
<1> QED  BY <1>1, TxStep

LEMMA ReleaseStep ==
    ASSUME Inv, NEW w \in Workers, Release(w) PROVE Inv' /\ RowsStep
<1>1. tx[w] \in TxType /\ WorkerInv(w) /\ faults \in Nat  BY DEF Inv, TypeOK
<1>2. \A j \in Jobs : tx[w].own[j] # "same" => \A v \in Workers \ {w} : tx[v].own[j] = "same"
  BY DEF Inv, LocksExclude
<1>3. CASE EnqueueWaiting(w)
  <2> DEFINE todo == {c \in Children(tx[w].job) :
                         row[c] = "wait_dependencies" /\ \A p \in Depends[c] : row[p] = "done"}
             new == [tx[w] EXCEPT !.pc = "update", !.todo = todo]
  <2>1. todo \subseteq Jobs /\ \A c \in todo : row[c] = "wait_dependencies" /\ ParentsDone(c)
    BY DEF Children, ParentsDone
  <2>2. tx' = [tx EXCEPT ![w] = new]  BY <1>3 DEF EnqueueWaiting, Inv, TypeOK
  <2> HIDE DEF todo
  <2>3. new \in TxType /\ new.pc = "update" /\ new.todo = todo /\ new.own = tx[w].own
    BY <1>1, <2>1 DEF TxType
  <2>4. Allowed(w, new)
    BY <1>1, <1>2, <2>1, <2>3 DEF Allowed, WorkerInv, OwnWrites
  <2> QED  BY <1>1, <1>3, <2>2, <2>4, TxStep DEF EnqueueWaiting
<1>4. ASSUME NEW c \in Jobs, UpdateRow(w, c) PROVE Inv' /\ RowsStep
  <2> DEFINE new == [tx[w] EXCEPT !.own[c] = "pending", !.todo = @ \ {c}]
  <2>1. tx' = [tx EXCEPT ![w] = new]  BY <1>4 DEF UpdateRow, Inv, TypeOK
  <2>2. /\ new \in TxType /\ new.pc = "update" /\ new.todo = tx[w].todo \ {c}
        /\ new.old = tx[w].old /\ new.own = [tx[w].own EXCEPT ![c] = "pending"]
    BY <1>1, <1>4 DEF TxType, UpdateRow, States
  <2>3. /\ row[c] = "wait_dependencies" /\ ParentsDone(c)
        /\ \A v \in Workers \ {w} : tx[v].own[c] = "same"
    BY <1>1, <1>4 DEF UpdateRow, Stale, Locked, WorkerInv, ToRelease
  <2>4. \A j \in Jobs : new.own[j] = IF j = c THEN "pending" ELSE tx[w].own[j]
    BY <1>1, <2>2 DEF TxType
  <2> HIDE DEF new
  <2>5. Allowed(w, new)
    BY <1>1, <1>2, <2>2, <2>3, <2>4 DEF Allowed, WorkerInv, OwnWrites, ToRelease
  <2> QED  BY <1>1, <1>4, <2>1, <2>5, TxStep DEF UpdateRow
<1>5. CASE UpdateFails(w)
  BY <1>1, <1>5, Rollback DEF UpdateFails
<1>6. CASE UpdateEnds(w) /\ runner # "http"
  <2> DEFINE new == [tx[w] EXCEPT !.pc = "next", !.job = NoJob]
  <2>1. tx' = [tx EXCEPT ![w] = new]  BY <1>6 DEF UpdateEnds, Inv, TypeOK
  <2>2. new \in TxType /\ new.pc = "next" /\ new.todo = {} /\ new.own = tx[w].own
    BY <1>1, <1>6 DEF TxType, UpdateEnds
  <2> HIDE DEF new
  <2>3. Allowed(w, new)
    BY <1>1, <1>2, <2>2 DEF Allowed, WorkerInv, OwnWrites
  <2> QED  BY <1>1, <1>6, <2>1, <2>3, TxStep DEF UpdateEnds
<1>7. CASE UpdateEnds(w) /\ runner = "http"
  <2>1. Commit(w, tx[w].own, Idle) /\ UNCHANGED <<runner, faults, touches>>
    BY <1>7 DEF UpdateEnds
  <2>2. tx[w].own \in [Jobs -> States \cup {"same"}]  BY <1>1 DEF TxType
  <2>3. Idle \in TxType /\ Idle.own = Same /\ Idle.todo = {} /\ Idle.pc = "idle"
    BY IdleType DEF Idle
  <2>4. ASSUME NEW j \in Jobs, tx[w].own[j] # "same", NEW v \in Workers \ {w},
               tx[v].pc = "performing"
        PROVE  tx[v].job # j
    BY <1>1, <1>7, <2>4 DEF Inv, WorkerInv, OwnWrites, Performs
  <2>5. Committable(w, tx[w].own, Idle)
    BY <1>1, <1>2, <2>2, <2>3, <2>4 DEF Committable, WorkerInv, OwnWrites
  <2> QED  BY <1>1, <2>1, <2>5, CommitStep
<1> QED  BY <1>3, <1>4, <1>5, <1>6, <1>7 DEF Release

-----------------------------------------------------------------------------
(* Steps of workers and users *)

\* A commit that writes one row.
LEMMA WritesOne ==
    ASSUME NEW j \in Jobs, NEW s \in States
    PROVE  /\ Writes(j, s) \in [Jobs -> States \cup {"same"}]
           /\ \A k \in Jobs : Writes(j, s)[k] = IF k = j THEN s ELSE "same"
BY DEF Writes, Same

LEMMA SetStartedStep ==
    ASSUME Inv, NEW w \in Workers, NEW j \in Jobs, SetStarted(w, j) PROVE Inv' /\ RowsStep
<1> DEFINE t == [Idle EXCEPT !.pc = "performing", !.job = j]
<1>1. t \in TxType /\ t.own = Same /\ t.todo = {} /\ t.pc = "performing" /\ t.job = j
  BY IdleType DEF Idle, TxType
<1>2. /\ Commit(w, Writes(j, "started"), t) /\ UNCHANGED <<runner, faults, touches>>
      /\ runner = "http" /\ row[j] = "pending"
  BY DEF SetStarted
<1> HIDE DEF t
<1>3. ParentsDone(j)  BY <1>2 DEF Inv, ReleasedReady
<1>4. ASSUME NEW v \in Workers \ {w}
      PROVE  /\ tx[v].own[j] = "same"
             /\ tx[v].pc = "performing" => tx[v].job # j
  <2>1. Unlocked(j)  BY DEF SetStarted
  <2>2. Performs(v)  BY DEF Inv, WorkerInv
  <2> QED  BY <1>2, <2>1, <2>2 DEF Unlocked, Performs
<1>5. Committable(w, Writes(j, "started"), t)
  <2>1. "started" \in States  BY DEF States
  <2> QED  BY <1>1, <1>2, <1>3, <1>4, <2>1, WritesOne DEF Committable
<1>6. faults' \in Nat  BY <1>2 DEF Inv, TypeOK
<1> QED  BY <1>2, <1>5, <1>6, CommitStep

\* A request stores the outcome of its job.
LEMMA OutcomeStep ==
    ASSUME Inv, NEW w \in Workers, NEW s \in {"done", "failed", "pending"},
           runner = "http", tx[w].pc = "performing", ~Locked(w, tx[w].job),
           NEW t \in TxType, t.own = Same, t.todo = {}, t.pc # "performing",
           Commit(w, Writes(tx[w].job, s), t), faults' \in Nat, UNCHANGED <<runner, touches>>
    PROVE  Inv' /\ RowsStep
<1>1. PICK j \in Jobs : tx[w].job = j /\ row[j] = "started"
  BY DEF Inv, WorkerInv, Performs
<1>2. ParentsDone(j)  BY <1>1 DEF Inv, ReleasedReady
<1>3. ASSUME NEW v \in Workers \ {w}
      PROVE  /\ tx[v].own[j] = "same"
             /\ tx[v].pc = "performing" => tx[v].job # j
  BY <1>1 DEF Locked, Inv, OneWorkerPerJob
<1>4. Committable(w, Writes(j, s), t)
  <2>1. s \in States  BY DEF States
  <2> QED  BY <1>1, <1>2, <1>3, <2>1, WritesOne DEF Committable
<1> QED  BY <1>1, <1>4, CommitStep

\* A cron worker stores it, and with it the children it has released.
LEMMA ProcessStep ==
    ASSUME Inv, NEW w \in Workers, NEW s \in {"done", "failed", "pending"}, Process(w, s)
    PROVE  Inv' /\ RowsStep
<1> DEFINE t == [Idle EXCEPT !.pc = "committed", !.job = tx[w].job]
           own == [tx[w].own EXCEPT ![tx[w].job] = s]
<1>1. tx[w] \in TxType /\ WorkerInv(w) /\ faults \in Nat /\ tx[w].job \in Jobs
  BY DEF Inv, TypeOK, Process, WorkerInv, Performs
<1>2. t \in TxType /\ t.own = Same /\ t.todo = {} /\ t.pc = "committed"
  BY <1>1, IdleType DEF Idle, TxType
<1>3. /\ own \in [Jobs -> States \cup {"same"}]
      /\ \A j \in Jobs : own[j] = IF j = tx[w].job THEN s ELSE tx[w].own[j]
  BY <1>1 DEF TxType, States
<1>4. Commit(w, own, t) /\ runner = "cron" /\ tx[w].pc = "performing"
      /\ UNCHANGED <<runner, touches>>
  BY DEF Process
<1>5. faults' \in Nat  BY <1>1 DEF Process, Fault
<1> HIDE DEF t, own
<1>6. tx[w].own[tx[w].job] = "started"  BY <1>1, <1>4 DEF WorkerInv, Performs
<1>7. ASSUME NEW j \in Jobs, own[j] # "same"
      PROVE  /\ own[j] \in {"pending", "started", "done", "failed"}
             /\ row[j] \in {"wait_dependencies", "pending"}
             /\ ParentsDone(j)
             /\ \A v \in Workers \ {w} : tx[v].own[j] = "same"
  <2>1. tx[w].own[j] # "same"  BY <1>3, <1>6, <1>7
  <2> QED  BY <1>1, <1>3, <2>1 DEF WorkerInv, OwnWrites, Inv, LocksExclude
<1>8. Committable(w, own, t)  BY <1>2, <1>3, <1>4, <1>7 DEF Committable
<1> QED  BY <1>4, <1>5, <1>8, CommitStep

LEMMA AcquireStep ==
    ASSUME Inv, NEW w \in Workers, Acquire(w) PROVE Inv' /\ RowsStep
<1>1. tx[w] \in TxType /\ WorkerInv(w) /\ faults \in Nat  BY DEF Inv, TypeOK
<1>2. \A j \in Jobs : tx[w].own[j] # "same" => \A v \in Workers \ {w} : tx[v].own[j] = "same"
  BY DEF Inv, LocksExclude
<1>3. CASE JobRunnerEnds(w)
  <2>1. /\ Commit(w, tx[w].own, Idle) /\ UNCHANGED <<runner, faults, touches>>
        /\ runner = "cron"
    BY <1>3 DEF JobRunnerEnds
  <2>2. tx[w].own \in [Jobs -> States \cup {"same"}]  BY <1>1 DEF TxType
  <2>3. Idle \in TxType /\ Idle.own = Same /\ Idle.todo = {} /\ Idle.pc = "idle"
    BY IdleType DEF Idle
  <2>4. Committable(w, tx[w].own, Idle)
    BY <1>1, <1>2, <2>1, <2>2, <2>3 DEF Committable, WorkerInv, OwnWrites
  <2> QED  BY <1>1, <2>1, <2>4, CommitStep
<1>4. ASSUME NEW j \in Jobs, AcquireOneJob(w, j) PROVE Inv' /\ RowsStep
  <2> DEFINE new == [tx[w] EXCEPT !.pc = "performing", !.job = j, !.own[j] = "started"]
  <2>1. tx' = [tx EXCEPT ![w] = new]  BY <1>4 DEF AcquireOneJob, Inv, TypeOK
  <2>2. /\ new \in TxType /\ new.pc = "performing" /\ new.job = j /\ new.todo = tx[w].todo
        /\ new.own = [tx[w].own EXCEPT ![j] = "started"]
    BY <1>1 DEF TxType, States
  <2>3. \A k \in Jobs : new.own[k] = IF k = j THEN "started" ELSE tx[w].own[k]
    BY <1>1, <2>2 DEF TxType
  <2>4. tx[w].todo = {}
    BY <1>1, <1>4 DEF AcquireOneJob, WorkerInv, ToRelease
  <2>5. row[j] \in {"wait_dependencies", "pending"} /\ ParentsDone(j)
    <3>1. View(w, j) = "pending" /\ tx[w].old[j] = "same"
      BY <1>4 DEF AcquireOneJob, Acquirable, Stale
    <3>2. CASE tx[w].own[j] # "same"  BY <1>1, <3>2 DEF WorkerInv, OwnWrites
    <3>3. CASE tx[w].own[j] = "same"
      <4>1. row[j] = "pending"  BY <3>1, <3>3 DEF View
      <4> QED  BY <4>1 DEF Inv, ReleasedReady
    <3> QED  BY <3>2, <3>3
  <2>6. \A v \in Workers \ {w} : tx[v].own[j] = "same"
    BY <1>4 DEF AcquireOneJob, Acquirable, Locked
  <2>7. runner = "cron"  BY <1>4 DEF AcquireOneJob
  <2> HIDE DEF new
  <2>8. Allowed(w, new)
    BY <1>1, <1>2, <2>2, <2>3, <2>4, <2>5, <2>6, <2>7 DEF Allowed, WorkerInv, OwnWrites
  <2> QED  BY <1>1, <1>4, <2>1, <2>8, TxStep DEF AcquireOneJob
<1>5. ASSUME NEW j \in Jobs, AcquireFails(w, j) PROVE Inv' /\ RowsStep
  BY <1>1, <1>5, Rollback DEF AcquireFails
<1> QED  BY <1>3, <1>4, <1>5 DEF Acquire

\* A user closes a job that no transaction has locked.
LEMMA ButtonStep ==
    ASSUME Inv, NEW j \in Jobs, ButtonDone(j) PROVE Inv' /\ RowsStep
<1>1. /\ row[j] \in {"wait_dependencies", "pending", "failed"}
      /\ row' = [row EXCEPT ![j] = "done"]
      /\ touches' = touches \cup {j} /\ UNCHANGED <<runner, faults>>
      /\ \A v \in Workers : tx[v].own[j] = "same"
  BY DEF ButtonDone, Unlocked
<1>2. \A k \in Jobs : row'[k] = IF k = j THEN "done" ELSE row[k]
  BY <1>1 DEF Inv, TypeOK
<1>3. ASSUME NEW k \in Jobs, ParentsDone(k) PROVE ParentsDone(k)'
  BY <1>2, <1>3, DependsType DEF ParentsDone
<1>4. ASSUME NEW v \in Workers
      PROVE  /\ tx'[v] \in TxType
             /\ tx'[v].pc = tx[v].pc /\ tx'[v].job = tx[v].job
             /\ tx'[v].own = tx[v].own /\ tx'[v].todo = tx[v].todo
             /\ tx[v].pc = "update" => \A k \in Jobs :
                   tx'[v].old[k] = "same" => tx[v].old[k] = "same" /\ k # j
  <2> DEFINE new == [tx[v] EXCEPT !.old[j] = row[j]]
  <2>1. tx[v] \in TxType /\ row[j] \in States /\ row[j] # "same"
    BY DEF Inv, TypeOK, States
  <2>2. tx'[v] = IF tx[v].pc \notin {"idle", "committed"} /\ tx[v].old[j] = "same"
                   THEN new ELSE tx[v]
    BY DEF ButtonDone
  <2>3. /\ new \in TxType
        /\ new.pc = tx[v].pc /\ new.job = tx[v].job
        /\ new.own = tx[v].own /\ new.todo = tx[v].todo
        /\ new.old = [tx[v].old EXCEPT ![j] = row[j]]
    BY <2>1 DEF TxType
  <2>4. \A k \in Jobs : new.old[k] = IF k = j THEN row[j] ELSE tx[v].old[k]
    BY <2>1, <2>3 DEF TxType
  <2> HIDE DEF new
  <2> QED  BY <2>1, <2>2, <2>3, <2>4
<1>5. TypeOK'
  <2>1. tx' = [v \in Workers |-> tx'[v]]  BY DEF ButtonDone
  <2>2. row' \in [Jobs -> States]  BY <1>1 DEF Inv, TypeOK, States
  <2> QED  BY <1>1, <1>4, <2>1, <2>2 DEF Inv, TypeOK
<1>6. ReleasedReady'  BY <1>2, <1>3 DEF Inv, ReleasedReady
<1>7. LocksExclude'  BY <1>4 DEF Inv, LocksExclude
<1>8. OneWorkerPerJob'  BY <1>4 DEF Inv, OneWorkerPerJob
<1>9. ASSUME NEW v \in Workers PROVE WorkerInv(v)'
  <2>1. WorkerInv(v) /\ tx[v] \in TxType  BY DEF Inv, TypeOK
  <2>2. OwnWrites(v)'
    BY <1>1, <1>2, <1>3, <1>4, <2>1 DEF WorkerInv, OwnWrites
  <2>3. ToRelease(v)'
    <3> SUFFICES ASSUME NEW c \in tx[v].todo
                 PROVE  /\ tx'[v].pc = "update" /\ ParentsDone(c)'
                        /\ tx'[v].old[c] = "same" => row'[c] = "wait_dependencies"
      BY <1>4 DEF ToRelease
    <3>1. c \in Jobs  BY <2>1 DEF TxType
    <3>2. tx[v].pc = "update" /\ ParentsDone(c)
          /\ (tx[v].old[c] = "same" => row[c] = "wait_dependencies")
      BY <2>1 DEF WorkerInv, ToRelease
    <3> QED  BY <1>2, <1>3, <1>4, <3>1, <3>2
  <2>4. Performs(v)'
    BY <1>1, <1>2, <1>4, <2>1 DEF WorkerInv, Performs
  <2> QED  BY <2>2, <2>3, <2>4 DEF WorkerInv
<1>10. RowsStep  BY <1>1, <1>2 DEF RowsStep, RowStep
<1> QED  BY <1>5, <1>6, <1>7, <1>8, <1>9, <1>10 DEF Inv

LEMMA InvInit == Init => Inv
<1> SUFFICES ASSUME Init PROVE Inv  OBVIOUS
<1>1. TypeOK
  <2>1. tx \in [Workers -> TxType]  BY IdleType DEF Init
  <2> QED  BY <2>1, RunnersType DEF Init, TypeOK, States
<1>2. ReleasedReady  BY DEF Init, ReleasedReady, ParentsDone
<1>3. \A w \in Workers : tx[w].pc = "idle" /\ tx[w].todo = {} /\ tx[w].own = Same
  BY DEF Init, Idle
<1>4. LocksExclude  BY <1>3 DEF LocksExclude, Same
<1>5. \A w \in Workers : WorkerInv(w)
  BY <1>3 DEF WorkerInv, OwnWrites, ToRelease, Performs, Same
<1>6. OneWorkerPerJob  BY <1>3 DEF OneWorkerPerJob
<1> QED  BY <1>1, <1>2, <1>4, <1>5, <1>6 DEF Inv

LEMMA InvStep == Inv /\ [Next]_vars => Inv' /\ RowsStep
<1> SUFFICES ASSUME Inv, [Next]_vars PROVE Inv' /\ RowsStep  OBVIOUS
<1>1. CASE UNCHANGED vars
  BY <1>1 DEF vars, Inv, TypeOK, ReleasedReady, LocksExclude, WorkerInv, OwnWrites,
              ToRelease, Performs, ParentsDone, OneWorkerPerJob, RowsStep, RowStep
<1>2. ASSUME NEW w \in Workers, SetDone(w) PROVE Inv' /\ RowsStep
  <2> DEFINE t == [Idle EXCEPT !.pc = "committed", !.job = tx[w].job]
  <2>1. tx[w] \in TxType /\ faults \in Nat  BY DEF Inv, TypeOK
  <2>2. t \in TxType /\ t.own = Same /\ t.todo = {} /\ t.pc = "committed"
    BY <2>1, IdleType DEF Idle, TxType
  <2>3. /\ runner = "http" /\ tx[w].pc = "performing" /\ ~Locked(w, tx[w].job)
        /\ Commit(w, Writes(tx[w].job, "done"), t) /\ UNCHANGED <<runner, faults, touches>>
    BY <1>2 DEF SetDone
  <2> HIDE DEF t
  <2> QED  BY <2>1, <2>2, <2>3, OutcomeStep
<1>3. ASSUME NEW w \in Workers, NEW s \in {"failed", "pending"}, RaiseError(w, s)
      PROVE  Inv' /\ RowsStep
  <2>1. /\ runner = "http" /\ tx[w].pc = "performing" /\ ~Locked(w, tx[w].job)
        /\ Commit(w, Writes(tx[w].job, s), Idle) /\ UNCHANGED <<runner, touches>>
    BY <1>3 DEF RaiseError
  <2>2. faults' \in Nat  BY <1>3 DEF RaiseError, Fault, Inv, TypeOK
  <2>3. Idle.own = Same /\ Idle.todo = {} /\ Idle.pc = "idle"  BY DEF Idle
  <2> QED  BY <2>1, <2>2, <2>3, IdleType, OutcomeStep
<1>4. ASSUME NEW w \in Workers, Crash(w) PROVE Inv' /\ RowsStep
  <2>1. faults' \in Nat  BY <1>4 DEF Crash, Fault, Inv, TypeOK
  <2> QED  BY <1>4, <2>1, Rollback DEF Crash
<1> QED
  BY <1>1, <1>2, <1>3, <1>4, SetStartedStep, ProcessStep, ReleaseStep, AcquireStep, ButtonStep
  DEF Next, Execute

-----------------------------------------------------------------------------
(* Theorems *)

\* The variables stay in their types: locks, snapshots and uncommitted writes are
\* about rows, and an UPDATE has only children to lock.
THEOREM TypeCorrect == Spec => []TypeOK
<1>1. Inv => TypeOK  BY DEF Inv
<1> QED  BY <1>1, InvInit, InvStep, PTL DEF Spec

\* No two workers execute a job at the same time, for any number of workers of
\* either kind (the SELECT in runjob, SKIP LOCKED in _acquire_one_job).
THEOREM OneWorker == Spec => []OneWorkerPerJob
<1>1. Inv => OneWorkerPerJob  BY DEF Inv
<1> QED  BY <1>1, InvInit, InvStep, PTL DEF Spec

\* A job is executed after all its parents are done, for every graph of jobs
\* (enqueue_waiting).
THEOREM ParentsAlwaysFirst == Spec => []ParentsFirst
<1>1. Inv => ParentsFirst
  <2> SUFFICES ASSUME Inv, NEW w \in Workers, tx[w].pc = "performing"
               PROVE  ParentsDone(tx[w].job)
    BY DEF ParentsFirst, ParentsDone
  <2>1. WorkerInv(w) /\ tx[w].job \in Jobs  BY DEF Inv, WorkerInv, Performs
  <2>2. CASE runner = "http"
    BY <2>1, <2>2 DEF WorkerInv, Performs, Inv, ReleasedReady
  <2>3. CASE runner = "cron"
    BY <2>1, <2>3 DEF WorkerInv, Performs, OwnWrites
  <2> QED  BY <2>2, <2>3 DEF Inv, TypeOK
<1> QED  BY <1>1, InvInit, InvStep, PTL DEF Spec

\* Each step of the rows is a step of the contract.
LEMMA RowsContract ==
    ASSUME Inv, RowsStep, Inv' PROVE Contract!Next
<1> DEFINE job == [k \in Jobs |-> ContractState(row[k])]
           after == [k \in Jobs |-> ContractState(row'[k])]
<1>1. row \in [Jobs -> States] /\ row' \in [Jobs -> States]  BY DEF Inv, TypeOK
<1>2. ASSUME NEW j \in Jobs
      PROVE  \/ Contract!Keep(j) \/ Contract!Release(j) \/ Contract!Complete(j)
             \/ Contract!Fail(j) \/ Contract!Block(j) \/ Contract!Forget(j)
             \/ Contract!Interfere(j)
  <2>1. RowStep(j) /\ row[j] \in States  BY <1>1 DEF RowsStep
  <2>2. ParentsDone(j) => Contract!Preceded(j)
    BY DependsType DEF ParentsDone, Contract!Preceded
  <2>3. CASE row'[j] = row[j]  BY <2>3 DEF Contract!Keep
  <2>4. CASE /\ row[j] \in {"wait_dependencies", "pending", "started"} /\ ParentsDone(j)
             /\ row'[j] \in {"pending", "started", "done", "failed"}
    BY <2>2, <2>4 DEF Contract!Open, Contract!Release, Contract!Fail, Contract!Complete,
                      ContractState
  <2>5. CASE row'[j] = "done" /\ row[j] # "done" /\ j \in touches'
    BY <2>1, <2>5 DEF Contract!Interfere, ContractState, States
  <2> QED  BY <2>1, <2>3, <2>4, <2>5 DEF RowStep
<1>3. {j \in Jobs : row[j] = "done"} \subseteq {j \in Jobs : row'[j] = "done"}
  BY DEF RowsStep
<1>4. \A j \in {k \in Jobs : row'[k] = "done"} : after[j] = "done"
  BY DEF ContractState
<1>5. touches \subseteq touches'  BY DEF RowsStep
<1> QED  BY <1>2, <1>3, <1>4, <1>5 DEF Contract!Next

\* Both kinds of workers keep the contract of the queue, for every graph of jobs:
\* a job that no user has closed is released once its parents are done, is done or
\* fails once, and is not set back, whatever their transactions read.
THEOREM GraphKeepsContract == Spec => ContractKept
<1>1. Init => Contract!Init
  BY DEF Init, Contract!Init, ContractState
<1>2. Inv /\ [Next]_vars => Inv' /\ [Contract!Next]_(Contract!vars)
  <2> SUFFICES ASSUME Inv, [Next]_vars PROVE Inv' /\ Contract!Next  OBVIOUS
  <2> QED  BY InvStep, RowsContract
<1> QED  BY <1>1, <1>2, InvInit, PTL DEF Spec, ContractKept, Contract!Spec
-----------------------------------------------------------------------------
(* Joins are not lost *)

\* Between its transactions a worker holds no lock and has no snapshot; a request
\* that performs a job writes nothing else, and nobody writes its row.
Resting(t) ==
    /\ t.pc \in {"idle", "committed"} => t.own = Same /\ t.old = Same
    /\ runner = "http" => t.pc # "next"
    /\ runner = "http" /\ t.pc = "performing" => t.own = Same /\ t.old[t.job] = "same"

AllResting == \A w \in Workers : Resting(tx[w])

\* What a commit of w does to the snapshots of the others.
LEMMA OthersOld ==
    ASSUME TypeOK, NEW w \in Workers, NEW own, NEW t, Commit(w, own, t),
           NEW v \in Workers \ {w}
    PROVE  /\ tx[v].pc \in {"idle", "committed"} => tx'[v] = tx[v]
           /\ \A j \in Jobs : own[j] = "same" => tx'[v].old[j] = tx[v].old[j]
<1> DEFINE old == [j \in Jobs |-> IF own[j] # "same" /\ tx[v].old[j] = "same"
                                    THEN row[j] ELSE tx[v].old[j]]
<1>1. tx[v] \in TxType  BY DEF TypeOK
<1>2. tx'[v] = IF tx[v].pc \in {"idle", "committed"} THEN tx[v]
               ELSE [tx[v] EXCEPT !.old = old]
  BY DEF Commit
<1>3. \A j \in Jobs : own[j] = "same" => old[j] = tx[v].old[j]  OBVIOUS
<1> HIDE DEF old
<1> QED  BY <1>1, <1>2, <1>3 DEF TxType

LEMMA RestingCommit ==
    ASSUME TypeOK, \A w \in Workers : Performs(w), AllResting,
           NEW w \in Workers, NEW own, NEW t, Commit(w, own, t),
           Resting(t), runner' = runner,
           \A v \in Workers \ {w} :
               runner = "http" /\ tx[v].pc = "performing" => own[tx[v].job] = "same"
    PROVE  AllResting'
<1> SUFFICES ASSUME NEW v \in Workers PROVE Resting(tx[v])'  BY DEF AllResting
<1>1. CASE v = w
  <2>1. tx'[v] = t  BY <1>1, OthersKept
  <2> QED  BY <2>1 DEF Resting
<1>2. CASE v # w
  <2>1. /\ tx'[v].pc = tx[v].pc /\ tx'[v].job = tx[v].job /\ tx'[v].own = tx[v].own
    BY <1>2, OthersKept
  <2>2. /\ tx[v].pc \in {"idle", "committed"} => tx'[v] = tx[v]
        /\ \A j \in Jobs : own[j] = "same" => tx'[v].old[j] = tx[v].old[j]
    BY <1>2, OthersOld
  <2>3. Resting(tx[v]) /\ Performs(v)  BY DEF AllResting
  <2>4. runner = "http" /\ tx[v].pc = "performing" => tx'[v].old[tx[v].job] = tx[v].old[tx[v].job]
    BY <1>2, <2>2, <2>3 DEF Performs
  <2> QED  BY <2>1, <2>2, <2>3, <2>4 DEF Resting
<1> QED  BY <1>1, <1>2

LEMMA RestingTx ==
    ASSUME TypeOK, AllResting, NEW w \in Workers, NEW new, tx' = [tx EXCEPT ![w] = new],
           Resting(new), runner' = runner
    PROVE  AllResting'
<1> SUFFICES ASSUME NEW v \in Workers PROVE Resting(tx[v])'  BY DEF AllResting
<1>1. tx'[v] = IF v = w THEN new ELSE tx[v]  BY DEF TypeOK
<1> QED  BY <1>1 DEF AllResting, Resting

LEMMA RestingIdle == Resting(Idle)
BY DEF Resting, Idle, Same

LEMMA RestingStep ==
    ASSUME Inv, AllResting, [Next]_vars PROVE AllResting'
<1>1. TypeOK /\ \A w \in Workers : tx[w] \in TxType /\ WorkerInv(w) /\ Performs(w) /\ Resting(tx[w])
  BY DEF Inv, TypeOK, WorkerInv, AllResting
<1>2. CASE UNCHANGED vars  BY <1>2 DEF vars, AllResting, Resting
<1>3. ASSUME NEW w \in Workers,
             \/ SetDone(w) \/ \E s \in {"failed", "pending"} : RaiseError(w, s)
             \/ \E s \in {"done", "failed", "pending"} : Process(w, s)
      PROVE  AllResting'
  <2> DEFINE j == tx[w].job
             t == [Idle EXCEPT !.pc = "committed", !.job = j]
  <2>1. tx[w].pc = "performing" /\ j \in Jobs /\ runner' = runner
    BY <1>1, <1>3 DEF SetDone, RaiseError, Process, Performs
  <2>2. Resting(t)
    <3>1. t.pc = "committed" /\ t.own = Same /\ t.old = Same  BY DEF Idle
    <3> HIDE DEF t
    <3> QED  BY <3>1 DEF Resting
  <2>3. ASSUME NEW v \in Workers \ {w}, runner = "http", tx[v].pc = "performing"
        PROVE  \A s : Writes(j, s)[tx[v].job] = "same"
    <3>1. tx[v].job # j /\ tx[v].job \in Jobs
      BY <1>1, <2>1, <2>3 DEF Inv, OneWorkerPerJob, Performs
    <3> QED  BY <3>1 DEF Writes, Same
  <2>4. CASE SetDone(w)
    <3>1. Commit(w, Writes(j, "done"), t)  BY <2>4 DEF SetDone
    <3> HIDE DEF t, j
    <3> QED  BY <1>1, <2>1, <2>2, <2>3, <3>1, RestingCommit
  <2>5. ASSUME NEW s \in {"failed", "pending"}, RaiseError(w, s) PROVE AllResting'
    <3>1. Commit(w, Writes(j, s), Idle)  BY <2>5 DEF RaiseError
    <3> HIDE DEF t, j
    <3> QED  BY <1>1, <2>1, <2>3, <3>1, RestingIdle, RestingCommit
  <2>6. ASSUME NEW s \in {"done", "failed", "pending"}, Process(w, s) PROVE AllResting'
    <3>1. Commit(w, [tx[w].own EXCEPT ![j] = s], t) /\ runner = "cron"  BY <2>6 DEF Process
    <3> HIDE DEF t, j
    <3> QED  BY <1>1, <2>1, <2>2, <3>1, RestingCommit
  <2> QED  BY <1>3, <2>4, <2>5, <2>6
<1>4. ASSUME NEW w \in Workers, NEW j \in Jobs, SetStarted(w, j) PROVE AllResting'
  <2> DEFINE t == [Idle EXCEPT !.pc = "performing", !.job = j]
  <2>1. /\ Commit(w, Writes(j, "started"), t) /\ runner' = runner /\ row[j] = "pending"
    BY <1>4 DEF SetStarted
  <2>2. t.pc = "performing" /\ t.own = Same /\ t.old = Same /\ t.job = j  BY DEF Idle
  <2> HIDE DEF t
  <2>3. Resting(t)  BY <2>2 DEF Resting, Same
  <2>4. \A v \in Workers \ {w} : runner = "http" /\ tx[v].pc = "performing" =>
             Writes(j, "started")[tx[v].job] = "same"
    BY <1>1, <2>1 DEF Performs, Writes, Same
  <2> QED  BY <1>1, <2>1, <2>3, <2>4, RestingCommit
<1>5. ASSUME NEW w \in Workers, EnqueueWaiting(w) PROVE AllResting'
  <2>1. PICK S : tx' = [tx EXCEPT ![w].pc = "update", ![w].todo = S]
    BY <1>5 DEF EnqueueWaiting
  <2> DEFINE new == [tx[w] EXCEPT !.pc = "update", !.todo = S]
  <2>2. tx' = [tx EXCEPT ![w] = new]  BY <1>1, <2>1 DEF TypeOK
  <2>3. new.pc = "update"  BY <1>1 DEF TxType
  <2> HIDE DEF new
  <2>4. runner' = runner  BY <1>5 DEF EnqueueWaiting
  <2> QED  BY <1>1, <2>2, <2>3, <2>4, RestingTx DEF Resting
<1>6. ASSUME NEW w \in Workers, NEW c \in Jobs, UpdateRow(w, c) PROVE AllResting'
  <2> DEFINE new == [tx[w] EXCEPT !.own[c] = "pending", !.todo = @ \ {c}]
  <2>1. tx' = [tx EXCEPT ![w] = new] /\ runner' = runner
    BY <1>1, <1>6 DEF UpdateRow, TypeOK
  <2>2. new.pc = "update"  BY <1>1, <1>6 DEF TxType, UpdateRow
  <2> HIDE DEF new
  <2> QED  BY <1>1, <2>1, <2>2, RestingTx DEF Resting
<1>7. ASSUME NEW w \in Workers, UpdateEnds(w) PROVE AllResting'
  <2>1. tx[w].pc = "update" /\ runner' = runner  BY <1>7 DEF UpdateEnds
  <2>2. CASE runner = "http"
    <3>1. Commit(w, tx[w].own, Idle)  BY <1>7, <2>2 DEF UpdateEnds
    <3>2. \A v \in Workers \ {w} : tx[v].pc = "performing" => tx[w].own[tx[v].job] = "same"
      BY <1>1, <2>2 DEF Performs, WorkerInv, OwnWrites
    <3> QED  BY <1>1, <2>1, <3>1, <3>2, RestingIdle, RestingCommit
  <2>3. CASE runner # "http"
    <3> DEFINE new == [tx[w] EXCEPT !.pc = "next", !.job = NoJob]
    <3>1. tx' = [tx EXCEPT ![w] = new]  BY <1>1, <1>7, <2>3 DEF UpdateEnds, TypeOK
    <3>2. new.pc = "next"  BY <1>1 DEF TxType
    <3> HIDE DEF new
    <3> QED  BY <1>1, <2>1, <2>3, <3>1, <3>2, RestingTx DEF Resting
  <2> QED  BY <2>2, <2>3
<1>8. ASSUME NEW w \in Workers,
             UpdateFails(w) \/ Crash(w) \/ \E j \in Jobs : AcquireFails(w, j)
      PROVE  AllResting'
  <2>1. tx' = [tx EXCEPT ![w] = Idle] /\ runner' = runner
    BY <1>8 DEF UpdateFails, Crash, AcquireFails
  <2> QED  BY <1>1, <2>1, RestingIdle, RestingTx DEF Inv
<1>9. ASSUME NEW w \in Workers, JobRunnerEnds(w) PROVE AllResting'
  <2>1. Commit(w, tx[w].own, Idle) /\ runner = "cron" /\ runner' = runner
    BY <1>9 DEF JobRunnerEnds
  <2> QED  BY <1>1, <2>1, RestingIdle, RestingCommit
<1>10. ASSUME NEW w \in Workers, NEW j \in Jobs, AcquireOneJob(w, j) PROVE AllResting'
  <2> DEFINE new == [tx[w] EXCEPT !.pc = "performing", !.job = j, !.own[j] = "started"]
  <2>1. tx' = [tx EXCEPT ![w] = new] /\ runner' = runner /\ runner = "cron"
    BY <1>1, <1>10 DEF AcquireOneJob, TypeOK
  <2>2. new.pc = "performing"  BY <1>1 DEF TxType
  <2> HIDE DEF new
  <2> QED  BY <1>1, <2>1, <2>2, RestingTx DEF Resting
<1>11. ASSUME NEW j \in Jobs, ButtonDone(j) PROVE AllResting'
  <2> SUFFICES ASSUME NEW v \in Workers PROVE Resting(tx[v])'  BY DEF AllResting
  <2>1. tx'[v] = IF tx[v].pc \notin {"idle", "committed"} /\ tx[v].old[j] = "same"
                   THEN [tx[v] EXCEPT !.old[j] = row[j]] ELSE tx[v]
    BY <1>11 DEF ButtonDone
  <2>2. /\ tx'[v].pc = tx[v].pc /\ tx'[v].job = tx[v].job /\ tx'[v].own = tx[v].own
        /\ tx[v].pc \in {"idle", "committed"} => tx'[v] = tx[v]
        /\ \A k \in Jobs \ {j} : tx'[v].old[k] = tx[v].old[k]
    BY <1>1, <2>1 DEF TxType
  <2>3. runner = "http" /\ tx[v].pc = "performing" => tx[v].job \in Jobs \ {j}
    BY <1>1, <1>11 DEF Performs, ButtonDone
  <2>4. Resting(tx[v]) /\ runner' = runner  BY <1>1, <1>11 DEF ButtonDone
  <2> QED  BY <2>2, <2>3, <2>4 DEF Resting
<1> QED
  BY <1>2, <1>3, <1>4, <1>5, <1>6, <1>7, <1>8, <1>9, <1>10, <1>11
  DEF Next, Execute, Release, Acquire

LEMMA RestingInit == Init => AllResting
BY RestingIdle DEF Init, AllResting
\* A worker that is through with a parent of c will release c, or is doing it.
Releasing(w, c) ==
    /\ tx[w].job \in Depends[c]
    /\ \/ tx[w].pc = "committed"
       \/ tx[w].pc = "update" /\ (c \in tx[w].todo \/ tx[w].own[c] # "same")

\* No join is lost: when all parents of a waiting job are done, the transaction that
\* releases it is under way, unless a process died, a job was retried or a user set
\* one to done.
JoinNotLost ==
    \A c \in Jobs : runner = "http" /\ JoinComplete(c) =>
        (\E w \in Workers : Releasing(w, c)) \/ faults > 0 \/ touches # {}

\* Jobs that share a parent have the same parents, as in chains of groups.
SiblingsAgree == \A c, d \in Jobs : Depends[c] \cap Depends[d] # {} => Depends[c] = Depends[d]

Siblings(c, d) == Depends[c] \cap Depends[d] # {}

Calm == runner = "http" /\ faults = 0 /\ touches = {}

\* Siblings are released together.
WaitTogether ==
    \A c, d \in Jobs : Siblings(c, d) =>
        (row[c] = "wait_dependencies" <=> row[d] = "wait_dependencies")

\* The rows that the UPDATE of w writes: with a child all its siblings.
Writing(w) == {c \in Jobs : c \in tx[w].todo \/ tx[w].own[c] # "same"}

UpdateWhole(w) ==
    tx[w].pc = "update" => \A c \in Writing(w) :
        tx[w].job \in Depends[c] /\ \A d \in Jobs : Siblings(c, d) => d \in Writing(w)

\* What was written since its snapshot was released by another one.
StaleReleased(w) ==
    \A c \in tx[w].todo : tx[w].old[c] # "same" => row[c] # "wait_dependencies"

CalmInv ==
    /\ WaitTogether
    /\ \A w \in Workers : UpdateWhole(w) /\ StaleReleased(w)
    /\ \A c \in Jobs : JoinComplete(c) => \E w \in Workers : Releasing(w, c)

\* A commit after which w is idle or goes on to release children, and which writes
\* siblings together.
LEMMA CalmCommit ==
    ASSUME Inv, CalmInv, NEW w \in Workers, NEW own, NEW t, Commit(w, own, t),
           t.pc # "update", t.todo = {}, t.own = Same,
           \A j \in Jobs : own[j] # "wait_dependencies",
           \A c, d \in Jobs : Siblings(c, d) /\ row[c] = "wait_dependencies" =>
               (own[c] = "same" <=> own[d] = "same"),
           \A j \in Jobs : own[j] = "done" => t.pc = "committed" /\ t.job = j,
           \A c \in Jobs : Releasing(w, c) => own[c] # "same"
    PROVE  CalmInv'
<1>1. TypeOK  BY DEF Inv
<1>2. \A j \in Jobs : row'[j] = IF own[j] = "same" THEN row[j] ELSE own[j]
  BY DEF Commit
<1>3. \A c \in Jobs : row'[c] = "wait_dependencies" <=>
          own[c] = "same" /\ row[c] = "wait_dependencies"
  BY <1>2
<1>4. tx'[w] = t  BY <1>1, OthersKept
<1>5. ASSUME NEW v \in Workers \ {w}
      PROVE  /\ tx'[v].pc = tx[v].pc /\ tx'[v].job = tx[v].job
             /\ tx'[v].own = tx[v].own /\ tx'[v].todo = tx[v].todo
             /\ \A j \in Jobs : own[j] = "same" => tx'[v].old[j] = tx[v].old[j]
  BY <1>1, <1>5, OthersKept, OthersOld
<1>6. WaitTogether'
  <2> SUFFICES ASSUME NEW c \in Jobs, NEW d \in Jobs, Siblings(c, d)
               PROVE  row'[c] = "wait_dependencies" <=> row'[d] = "wait_dependencies"
    BY DEF WaitTogether, Siblings
  <2>1. row[c] = "wait_dependencies" <=> row[d] = "wait_dependencies"
    BY DEF CalmInv, WaitTogether
  <2> QED  BY <1>3, <2>1
<1>7. ASSUME NEW v \in Workers PROVE UpdateWhole(v)' /\ StaleReleased(v)'
  <2>1. CASE v = w  BY <1>4, <2>1 DEF UpdateWhole, StaleReleased
  <2>2. CASE v # w
    <3>1. /\ tx'[v].pc = tx[v].pc /\ tx'[v].job = tx[v].job
          /\ tx'[v].own = tx[v].own /\ tx'[v].todo = tx[v].todo
          /\ \A j \in Jobs : own[j] = "same" => tx'[v].old[j] = tx[v].old[j]
      BY <1>5, <2>2
    <3>2. UpdateWhole(v) /\ StaleReleased(v)  BY DEF CalmInv
    <3>3. UpdateWhole(v)'  BY <3>1, <3>2 DEF UpdateWhole, Writing, Siblings
    <3>4. StaleReleased(v)'
      <4> SUFFICES ASSUME NEW c \in tx[v].todo, tx'[v].old[c] # "same"
                   PROVE  row'[c] # "wait_dependencies"
        BY <3>1 DEF StaleReleased
      <4>1. c \in Jobs  BY <1>1 DEF TypeOK, TxType
      <4> QED  BY <1>3, <3>1, <3>2, <4>1 DEF StaleReleased
    <3> QED  BY <3>3, <3>4
  <2> QED  BY <2>1, <2>2
<1>8. ASSUME NEW c \in Jobs, JoinComplete(c)' PROVE \E v \in Workers : Releasing(v, c)'
  <2>1. own[c] = "same" /\ row[c] = "wait_dependencies" /\ \A p \in Depends[c] : row'[p] = "done"
    BY <1>3, <1>8 DEF JoinComplete
  <2>2. CASE JoinComplete(c)
    <3>1. PICK v \in Workers : Releasing(v, c)  BY <2>2 DEF CalmInv
    <3>2. v # w  BY <2>1, <3>1
    <3>3. Releasing(v, c)'  BY <1>5, <3>1, <3>2 DEF Releasing
    <3> QED  BY <3>3
  <2>3. CASE ~JoinComplete(c)
    <3>1. PICK p \in Depends[c] : row[p] # "done"  BY <2>1, <2>3 DEF JoinComplete
    <3>2. p \in Jobs /\ own[p] = "done"  BY <1>2, <2>1, <3>1, DependsType
    <3>3. Releasing(w, c)'  BY <1>4, <3>1, <3>2 DEF Releasing
    <3> QED  BY <3>3
  <2> QED  BY <2>2, <2>3
<1> QED  BY <1>6, <1>7, <1>8 DEF CalmInv

\* A step inside the transaction of w.
LEMMA CalmTx ==
    ASSUME Inv, CalmInv, NEW w \in Workers, NEW new, tx' = [tx EXCEPT ![w] = new], row' = row,
           UpdateWhole(w)', StaleReleased(w)',
           \A c \in Jobs : JoinComplete(c) /\ Releasing(w, c) =>
               Releasing(w, c)' \/ \E v \in Workers \ {w} : Releasing(v, c)
    PROVE  CalmInv'
<1>1. \A v \in Workers \ {w} : tx'[v] = tx[v]  BY DEF Inv, TypeOK
<1>2. WaitTogether'  BY DEF CalmInv, WaitTogether, Siblings
<1>3. ASSUME NEW v \in Workers \ {w} PROVE UpdateWhole(v)' /\ StaleReleased(v)'
  <2>1. tx'[v] = tx[v] /\ UpdateWhole(v) /\ StaleReleased(v)  BY <1>1 DEF CalmInv
  <2> QED  BY <2>1 DEF UpdateWhole, StaleReleased, Writing, Siblings
<1>4. \A v \in Workers \ {w}, c \in Jobs : Releasing(v, c) => Releasing(v, c)'
  BY <1>1 DEF Releasing
<1>5. ASSUME NEW c \in Jobs, JoinComplete(c)' PROVE \E v \in Workers : Releasing(v, c)'
  <2>1. JoinComplete(c)  BY <1>5 DEF JoinComplete
  <2>2. PICK v \in Workers : Releasing(v, c)  BY <2>1 DEF CalmInv
  <2> QED  BY <1>4, <2>1, <2>2
<1> QED  BY <1>2, <1>3, <1>5 DEF CalmInv
\* A step that leaves no user, no death and no retry behind came after none.
LEMMA CalmBefore ==
    ASSUME Inv, [Next]_vars, Calm' PROVE Calm
<1>1. faults \in Nat /\ touches \subseteq touches' /\ RowsStep
  BY InvStep DEF Inv, TypeOK, RowsStep
<1>2. runner' = runner /\ (faults' = faults \/ faults' = faults + 1)
  BY DEF Next, vars, Execute, Release, Acquire, SetDone, Process, EnqueueWaiting, UpdateEnds,
         UpdateFails, UpdateRow, JobRunnerEnds, AcquireOneJob, AcquireFails, Crash, SetStarted,
         RaiseError, ButtonDone, Fault
<1> QED  BY <1>1, <1>2 DEF Calm

\* A request stores the outcome of its job, or that it has started it.
LEMMA CalmWrite ==
    ASSUME Inv, CalmInv, NEW w \in Workers, NEW j \in Jobs, NEW s, NEW t,
           Commit(w, Writes(j, s), t), row[j] # "wait_dependencies",
           s \in {"started", "done", "failed"}, s = "done" => t.pc = "committed" /\ t.job = j,
           t.pc # "update", t.todo = {}, t.own = Same,
           tx[w].pc \in {"idle", "performing"}
    PROVE  CalmInv'
<1> DEFINE own == Writes(j, s)
<1>1. \A k \in Jobs : own[k] = IF k = j THEN s ELSE "same"  BY DEF Writes, Same
<1> HIDE DEF own
<1>2. \A c, d \in Jobs : Siblings(c, d) /\ row[c] = "wait_dependencies" => c # j /\ d # j
  BY DEF CalmInv, WaitTogether
<1>3. \A c, d \in Jobs : Siblings(c, d) /\ row[c] = "wait_dependencies" =>
          (own[c] = "same" <=> own[d] = "same")
  BY <1>1, <1>2
<1>4. \A k \in Jobs : own[k] # "wait_dependencies"  BY <1>1
<1>5. \A k \in Jobs : own[k] = "done" => t.pc = "committed" /\ t.job = k  BY <1>1
<1>6. \A c \in Jobs : ~Releasing(w, c)  BY DEF Releasing
<1>7. Commit(w, own, t)  BY DEF own
<1> QED  BY <1>3, <1>4, <1>5, <1>6, <1>7, CalmCommit

LEMMA CalmRelease ==
    ASSUME SiblingsAgree, Inv, AllResting, CalmInv, Calm, Calm', NEW w \in Workers, Release(w)
    PROVE  CalmInv'
<1>1. /\ tx[w] \in TxType /\ WorkerInv(w) /\ Resting(tx[w])
      /\ UpdateWhole(w) /\ StaleReleased(w) /\ WaitTogether
  BY DEF Inv, TypeOK, AllResting, CalmInv
<1>2. CASE EnqueueWaiting(w)
  <2> DEFINE S == {c \in Children(tx[w].job) :
                      row[c] = "wait_dependencies" /\ \A p \in Depends[c] : row[p] = "done"}
             new == [tx[w] EXCEPT !.pc = "update", !.todo = S]
  <2>1. tx' = [tx EXCEPT ![w] = new] /\ row' = row /\ tx[w].pc = "committed"
    BY <1>2 DEF EnqueueWaiting, Inv, TypeOK
  <2>2. tx[w].own = Same /\ tx[w].old = Same  BY <1>1, <2>1 DEF Resting
  <2>3. /\ new.pc = "update" /\ new.job = tx[w].job /\ new.todo = S
        /\ new.own = Same /\ new.old = Same
    BY <1>1, <2>2 DEF TxType
  <2>4. tx'[w] = new  BY <2>1 DEF Inv, TypeOK
  <2>5. \A c : c \in S <=> /\ c \in Jobs /\ tx[w].job \in Depends[c] /\ JoinComplete(c)
    BY DEF Children, JoinComplete
  <2> HIDE DEF new, S
  <2>6. Writing(w)' = S  BY <2>3, <2>4, <2>5 DEF Writing, Same
  <2>7. UpdateWhole(w)'
    <3> SUFFICES ASSUME NEW c \in S
                 PROVE  /\ tx[w].job \in Depends[c]
                        /\ \A d \in Jobs : Siblings(c, d) => d \in S
      BY <2>3, <2>4, <2>6 DEF UpdateWhole, Siblings
    <3>1. c \in Jobs /\ tx[w].job \in Depends[c] /\ JoinComplete(c)  BY <2>5
    <3>2. ASSUME NEW d \in Jobs, Siblings(c, d) PROVE d \in S
      <4>1. Depends[d] = Depends[c]  BY <3>1, <3>2 DEF SiblingsAgree, Siblings
      <4>2. row[d] = "wait_dependencies"
        BY <1>1, <3>1, <3>2 DEF WaitTogether, JoinComplete
      <4> QED  BY <2>5, <3>1, <4>1, <4>2 DEF JoinComplete
    <3> QED  BY <3>1, <3>2
  <2>8. StaleReleased(w)'
    BY <2>3, <2>4, <2>5 DEF StaleReleased, Same
  <2>9. \A c \in Jobs : JoinComplete(c) /\ Releasing(w, c) => Releasing(w, c)'
    BY <2>3, <2>4, <2>5 DEF Releasing
  <2> QED  BY <2>1, <2>7, <2>8, <2>9, CalmTx
<1>3. ASSUME NEW c \in Jobs, UpdateRow(w, c) PROVE CalmInv'
  <2> DEFINE new == [tx[w] EXCEPT !.own[c] = "pending", !.todo = @ \ {c}]
  <2>1. /\ tx' = [tx EXCEPT ![w] = new] /\ row' = row
        /\ tx[w].pc = "update" /\ c \in tx[w].todo
    BY <1>3 DEF UpdateRow, Inv, TypeOK
  <2>2. /\ new.pc = "update" /\ new.job = tx[w].job /\ new.todo = tx[w].todo \ {c}
        /\ new.old = tx[w].old
        /\ \A d \in Jobs : new.own[d] = IF d = c THEN "pending" ELSE tx[w].own[d]
    BY <1>1, <2>1 DEF TxType
  <2>3. tx'[w] = new  BY <2>1 DEF Inv, TypeOK
  <2> HIDE DEF new
  <2>4. Writing(w)' = Writing(w)  BY <2>1, <2>2, <2>3 DEF Writing
  <2>5. UpdateWhole(w)'  BY <1>1, <2>1, <2>2, <2>3, <2>4 DEF UpdateWhole, Siblings
  <2>6. StaleReleased(w)'  BY <1>1, <2>1, <2>2, <2>3 DEF StaleReleased
  <2>7. \A d \in Jobs : Releasing(w, d) => Releasing(w, d)'
    BY <2>1, <2>2, <2>3 DEF Releasing
  <2> QED  BY <2>1, <2>5, <2>6, <2>7, CalmTx
<1>4. CASE UpdateEnds(w)
  <2>1. Commit(w, tx[w].own, Idle) /\ tx[w].pc = "update" /\ tx[w].todo = {}
    BY <1>4 DEF UpdateEnds, Calm
  <2> DEFINE own == tx[w].own
  <2>2. \A j \in Jobs : own[j] # "same" => own[j] \in {"pending", "started"}
    BY <1>1 DEF WorkerInv, OwnWrites
  <2>3. \A c \in Jobs : c \in Writing(w) <=> own[c] # "same"  BY <2>1 DEF Writing
  <2>4. ASSUME NEW c \in Jobs, NEW d \in Jobs, Siblings(c, d)
        PROVE  own[c] = "same" <=> own[d] = "same"
    <3>1. Siblings(d, c)  BY <2>4 DEF Siblings
    <3> QED  BY <1>1, <2>1, <2>3, <2>4, <3>1 DEF UpdateWhole
  <2>5. \A c \in Jobs : Releasing(w, c) => own[c] # "same"  BY <2>1 DEF Releasing
  <2>6. Idle.pc = "idle" /\ Idle.todo = {} /\ Idle.own = Same  BY DEF Idle
  <2>7. \A j \in Jobs : own[j] # "wait_dependencies" /\ own[j] # "done"  BY <2>2
  <2>8. Commit(w, own, Idle)  BY <2>1
  <2> HIDE DEF own
  <2> QED  BY <2>4, <2>5, <2>6, <2>7, <2>8, CalmCommit
<1>5. CASE UpdateFails(w)
  <2>1. tx' = [tx EXCEPT ![w] = Idle] /\ row' = row /\ tx[w].pc = "update"
    BY <1>5 DEF UpdateFails
  <2>2. tx'[w] = Idle  BY <2>1 DEF Inv, TypeOK
  <2>3. UpdateWhole(w)' /\ StaleReleased(w)'
    BY <2>2 DEF UpdateWhole, StaleReleased, Idle
  <2>4. ASSUME NEW c \in Jobs, JoinComplete(c), Releasing(w, c)
        PROVE  \E v \in Workers \ {w} : Releasing(v, c)
    <3>1. tx[w].job \in Depends[c] /\ c \in Writing(w)
      BY <2>1, <2>4 DEF Releasing, Writing
    \* What the UPDATE writes are siblings of c.
    <3>2. ASSUME NEW d \in tx[w].todo PROVE d \in Jobs /\ Siblings(c, d) /\ Siblings(d, c)
      <4>1. d \in Jobs  BY <1>1 DEF TxType
      <4>2. d \in Writing(w)  BY <4>1 DEF Writing
      <4>3. tx[w].job \in Depends[d]  BY <1>1, <2>1, <4>2 DEF UpdateWhole
      <4> QED  BY <3>1, <4>1, <4>3 DEF Siblings
    <3>3. ASSUME NEW d \in tx[w].todo, Stale(w, d) PROVE FALSE
      <4>1. row[d] # "wait_dependencies"  BY <1>1, <3>3 DEF StaleReleased, Stale
      <4>2. row[c] = "wait_dependencies"  BY <2>4 DEF JoinComplete
      <4> QED  BY <1>1, <3>2, <4>1, <4>2 DEF WaitTogether
    <3>4. Deadlocked(w)  BY <1>5, <3>3 DEF UpdateFails
    <3>5. WaitsFor(w) # {}
      <4> SUFFICES ASSUME WaitsFor(w) = {} PROVE FALSE  OBVIOUS
      <4>1. w \in {}  BY <3>4 DEF Deadlocked
      <4> QED  BY <4>1
    <3>6. PICK v \in Workers \ {w} : \E d \in tx[w].todo : tx[v].own[d] # "same"
      BY <3>5 DEF WaitsFor
    <3>7. PICK d \in tx[w].todo : tx[v].own[d] # "same"  BY <3>6
    <3>8. d \in Jobs /\ Siblings(c, d) /\ Siblings(d, c)  BY <3>2
    <3>9. tx[v].pc = "update"
      <4>1. Resting(tx[v]) /\ tx[v] \in TxType  BY DEF AllResting, Inv, TypeOK
      <4>2. tx[v].own # Same  BY <3>7, <3>8 DEF Same
      <4> QED  BY <4>1, <4>2 DEF Resting, Calm, TxType
    <3>10. UpdateWhole(v) /\ d \in Writing(v)  BY <3>7, <3>8 DEF CalmInv, Writing
    <3>11. tx[v].job \in Depends[d] /\ c \in Writing(v)
      BY <3>8, <3>9, <3>10 DEF UpdateWhole
    <3>12. tx[v].job \in Depends[c]  BY <3>8, <3>11 DEF SiblingsAgree, Siblings
    <3>13. Releasing(v, c)  BY <3>9, <3>11, <3>12 DEF Releasing, Writing
    <3> QED  BY <3>13
  <2> QED  BY <2>1, <2>3, <2>4, CalmTx
<1> QED  BY <1>2, <1>3, <1>4, <1>5 DEF Release

LEMMA CalmStep ==
    ASSUME SiblingsAgree, Inv, AllResting, Calm => CalmInv, [Next]_vars
    PROVE  Calm' => CalmInv'
<1> SUFFICES ASSUME Calm' PROVE CalmInv'  OBVIOUS
<1>1. Calm /\ CalmInv  BY CalmBefore
<1>2. CASE UNCHANGED vars
  BY <1>1, <1>2 DEF vars, CalmInv, WaitTogether, Siblings, UpdateWhole, Writing, StaleReleased,
                    JoinComplete, Releasing
<1>3. ASSUME NEW w \in Workers, SetDone(w) PROVE CalmInv'
  <2> DEFINE t == [Idle EXCEPT !.pc = "committed", !.job = tx[w].job]
  <2>1. Commit(w, Writes(tx[w].job, "done"), t) /\ tx[w].pc = "performing"
    BY <1>3 DEF SetDone
  <2>2. t.pc = "committed" /\ t.job = tx[w].job /\ t.todo = {} /\ t.own = Same  BY DEF Idle
  <2>3. tx[w].job \in Jobs /\ row[tx[w].job] = "started"
    BY <1>1, <2>1 DEF Inv, WorkerInv, Performs, Calm
  <2> HIDE DEF t
  <2> QED  BY <1>1, <2>1, <2>2, <2>3, CalmWrite
<1>4. ASSUME NEW w \in Workers, NEW s \in {"failed", "pending"}, RaiseError(w, s) PROVE CalmInv'
  <2>1. Commit(w, Writes(tx[w].job, s), Idle) /\ tx[w].pc = "performing"
    BY <1>4 DEF RaiseError
  <2>2. s = "failed"
    <3>1. faults \in Nat /\ faults' = 0  BY DEF Inv, TypeOK, Calm
    <3> QED  BY <1>4, <3>1 DEF RaiseError, Fault
  <2>3. Idle.pc = "idle" /\ Idle.todo = {} /\ Idle.own = Same  BY DEF Idle
  <2>4. tx[w].job \in Jobs /\ row[tx[w].job] = "started"
    BY <1>1, <2>1 DEF Inv, WorkerInv, Performs, Calm
  <2> QED  BY <1>1, <2>1, <2>2, <2>3, <2>4, CalmWrite
<1>5. ASSUME NEW w \in Workers, NEW j \in Jobs, SetStarted(w, j) PROVE CalmInv'
  <2> DEFINE t == [Idle EXCEPT !.pc = "performing", !.job = j]
  <2>1. Commit(w, Writes(j, "started"), t) /\ tx[w].pc = "idle" /\ row[j] = "pending"
    BY <1>5 DEF SetStarted
  <2>2. t.pc = "performing" /\ t.todo = {} /\ t.own = Same  BY DEF Idle
  <2> HIDE DEF t
  <2> QED  BY <1>1, <2>1, <2>2, CalmWrite
<1>6. ASSUME NEW w \in Workers, Release(w) PROVE CalmInv'
  BY <1>1, <1>6, CalmRelease
<1>7. ASSUME NEW w \in Workers, Crash(w) PROVE FALSE
  <2>1. faults \in Nat /\ faults' = 0  BY DEF Inv, TypeOK, Calm
  <2> QED  BY <1>7, <2>1 DEF Crash, Fault
<1>8. ASSUME NEW w \in Workers, Acquire(w) \/ \E s : Process(w, s) PROVE FALSE
  BY <1>1, <1>8 DEF Acquire, JobRunnerEnds, AcquireOneJob, AcquireFails, Process, Calm
<1>9. ASSUME NEW j \in Jobs, ButtonDone(j) PROVE FALSE
  BY <1>9 DEF ButtonDone, Calm
<1> QED
  BY <1>2, <1>3, <1>4, <1>5, <1>6, <1>7, <1>8, <1>9 DEF Next, Execute

LEMMA CalmInit == ASSUME Init PROVE CalmInv
<1>1. \A w \in Workers : tx[w].pc = "idle" /\ tx[w].todo = {}  BY DEF Init, Idle
<1>2. \A c \in Jobs : row[c] = "wait_dependencies" <=> Depends[c] # {}  BY DEF Init
<1>3. \A j \in Jobs : row[j] # "done"  BY DEF Init
<1>4. \A c \in Jobs : ~JoinComplete(c)
  BY <1>2, <1>3, DependsType DEF JoinComplete
<1>5. WaitTogether  BY <1>2 DEF WaitTogether, Siblings
<1> QED  BY <1>1, <1>4, <1>5 DEF CalmInv, UpdateWhole, StaleReleased

\* No join is lost for all graphs whose siblings have the same parents, however the
\* UPDATEs overlap, fail on each other's rows or lock each other out: when one of them
\* fails, another one has released the same children or still does.  It is the
\* safety part of JoinReleased; without the hypothesis both are false (_enqueue_dependent_jobs).
THEOREM JoinsKept ==
    ASSUME SiblingsAgree PROVE Spec => []JoinNotLost
<1>1. Init => Inv /\ AllResting /\ (Calm => CalmInv)
  BY InvInit, RestingInit, CalmInit
<1>2. Inv /\ AllResting /\ (Calm => CalmInv) /\ [Next]_vars
      => Inv' /\ AllResting' /\ (Calm' => CalmInv')
  BY InvStep, RestingStep, CalmStep
<1>3. Inv /\ (Calm => CalmInv) => JoinNotLost
  BY DEF JoinNotLost, Calm, CalmInv, Inv, TypeOK
<1> QED  BY <1>1, <1>2, <1>3, PTL DEF Spec
-----------------------------------------------------------------------------
(* Transactions do not wait for each other forever *)

\* A worker whose next statement is not blocked by a lock: a request can store the
\* outcome of its job, an UPDATE is through, can lock a row or is ended by the deadlock
\* detection.  Between transactions, and with SKIP LOCKED, nothing blocks.
CanGoOn(w) ==
    /\ tx[w].pc = "performing" /\ runner = "http" =>
           ~Locked(w, tx[w].job) /\ ~Stale(w, tx[w].job)
    /\ tx[w].pc = "update" =>
           tx[w].todo = {} \/ (\E c \in tx[w].todo : ~Locked(w, c)) \/ Deadlocked(w)

\* While some worker is at work, or a pending job is locked, a worker can go on.
NeverStuck ==
    /\ \A w \in Workers : tx[w].pc # "idle" => \E v \in Workers : tx[v].pc # "idle" /\ CanGoOn(v)
    /\ \A j \in Jobs : row[j] = "pending" /\ ~Unlocked(j) =>
           \E v \in Workers : tx[v].pc # "idle" /\ CanGoOn(v)

LEMMA Smallest ==
    ASSUME NEW S \in SUBSET Nat, S # {}
    PROVE  \E a \in S : \A c \in S : a <= c
<1>1. PICK R : IsWellFoundedOn(R, Nat) /\ \A b, c \in Nat : b < c => <<b, c>> \in R
  <2>1. IsWellFoundedOn(OpToRel(<, Nat), Nat)  BY NatLessThanWellFounded
  <2>2. \A b, c \in Nat : b < c => <<b, c>> \in OpToRel(<, Nat)  BY DEF OpToRel
  <2> QED  BY <2>1, <2>2, Zenon
<1>2. PICK a \in S : \A c \in S : <<c, a>> \notin R
  <2>1. IsWellFoundedOn(R, Nat) /\ S \subseteq Nat /\ S # {}  BY <1>1
  <2>2. \E a \in S : \A c \in S : ~(<<c, a>> \in R)  BY <2>1, WFMin, Zenon
  <2> QED  BY <2>2
<1>3. \A c \in S : ~(c < a)  BY <1>1, <1>2
<1> QED  BY <1>3

\* If each of some workers waits for others of them, one waits for itself: of the sets
\* that are closed under waiting, take a smallest one.
LEMMA CycleExists ==
    ASSUME NEW T \in SUBSET Workers, T # {},
           \A w \in T : WaitsFor(w) # {} /\ WaitsFor(w) \subseteq T
    PROVE  \E w \in T : Deadlocked(w)
<1> DEFINE Closed == {S \in SUBSET T : S # {} /\ \A v \in S : WaitsFor(v) \subseteq S}
           Sizes == {Cardinality(S) : S \in Closed}
<1>1. \A S \in SUBSET Workers : IsFiniteSet(S) /\ Cardinality(S) \in Nat
  BY WorkersFinite, FS_Subset, FS_CardinalityType
<1>2. PICK S \in Closed : \A R \in Closed : Cardinality(S) <= Cardinality(R)
  <2>1. T \in Closed  OBVIOUS
  <2>2. Sizes \in SUBSET Nat /\ Sizes # {}  BY <1>1, <2>1
  <2>3. PICK a \in Sizes : \A c \in Sizes : a <= c  BY <2>2, Smallest
  <2> QED  BY <2>3
<1>3. PICK w \in S : TRUE  BY <1>2
<1>4. w \in T /\ S \subseteq Workers /\ S # {} /\ \A v \in S : WaitsFor(v) \subseteq S
  BY <1>2, <1>3
<1>5. ASSUME NEW R \in SUBSET Workers, WaitsFor(w) \subseteq R,
             \A v \in R : WaitsFor(v) \subseteq R
      PROVE  w \in R
  <2> DEFINE Q == R \cap S
  <2>1. Q \in Closed  BY <1>3, <1>4, <1>5
  <2>2. Q \subseteq S /\ IsFiniteSet(S) /\ Cardinality(S) <= Cardinality(Q)
    BY <1>1, <1>2, <1>4, <2>1
  <2>3. Cardinality(Q) \in Nat /\ Cardinality(S) \in Nat  BY <1>1, <1>4
  <2> HIDE DEF Q
  <2>4. Q = S  BY <2>2, <2>3, FS_Subset
  <2> QED  BY <1>3, <2>4 DEF Q
<1>6. Deadlocked(w)  BY <1>5 DEF Deadlocked
<1> QED  BY <1>4, <1>6

\* Locks do not stop the workers, for any graph, any number of workers of either kind:
\* requests that perform a job are not blocked, and where UPDATEs wait for each
\* other the deadlock detection ends one of them.  It is the safety part of PendingEnds.
THEOREM LocksDoNotStop == Spec => []NeverStuck
<1>1. Init => Inv /\ AllResting  BY InvInit, RestingInit
<1>2. Inv /\ AllResting /\ [Next]_vars => Inv' /\ AllResting'  BY InvStep, RestingStep
<1>3. ASSUME Inv, AllResting, NEW w \in Workers, tx[w].pc # "idle"
      PROVE  \E v \in Workers : tx[v].pc # "idle" /\ CanGoOn(v)
  <2> SUFFICES ASSUME \A v \in Workers : tx[v].pc # "idle" => ~CanGoOn(v) PROVE FALSE
    OBVIOUS
  <2> DEFINE T == {v \in Workers : tx[v].pc # "idle"}
  <2>1. ASSUME NEW v \in T
        PROVE  /\ WaitsFor(v) # {} /\ WaitsFor(v) \subseteq T
               /\ ~Deadlocked(v)
    <3>1. /\ v \in Workers /\ tx[v].pc # "idle" /\ ~CanGoOn(v) /\ tx[v] \in TxType
          /\ WorkerInv(v) /\ Resting(tx[v])
      BY <1>3, <2>1 DEF Inv, TypeOK, AllResting
    <3>2. ~(tx[v].pc = "performing" /\ runner = "http")
      <4> SUFFICES ASSUME tx[v].pc = "performing", runner = "http" PROVE FALSE  OBVIOUS
      <4>1. tx[v].job \in Jobs /\ row[tx[v].job] = "started"
        BY <3>1 DEF WorkerInv, Performs
      <4>2. ~Locked(v, tx[v].job)
        BY <1>3, <4>1 DEF Locked, Inv, WorkerInv, OwnWrites
      <4>3. ~Stale(v, tx[v].job)  BY <3>1 DEF Resting, Stale
      <4> QED  BY <3>1, <4>2, <4>3 DEF CanGoOn
    <3>3. /\ tx[v].pc = "update" /\ tx[v].todo # {} /\ \A c \in tx[v].todo : Locked(v, c)
          /\ ~Deadlocked(v)
      BY <3>1, <3>2 DEF CanGoOn
    <3>4. WaitsFor(v) # {}  BY <3>3 DEF Locked, WaitsFor
    <3>5. ASSUME NEW u \in WaitsFor(v) PROVE u \in T
      <4>1. u \in Workers /\ \E c \in tx[v].todo : tx[u].own[c] # "same"
        BY <3>5 DEF WaitsFor
      <4>2. tx[v].todo \subseteq Jobs  BY <3>1 DEF TxType
      <4>3. tx[u].own # Same  BY <4>1, <4>2 DEF Same
      <4> QED  BY <1>3, <4>1, <4>3 DEF AllResting, Resting
    <3> QED  BY <3>3, <3>4, <3>5
  <2>2. T \in SUBSET Workers /\ T # {}  BY <1>3
  <2> HIDE DEF T
  <2>3. \E v \in T : Deadlocked(v)  BY <2>1, <2>2, CycleExists
  <2> QED  BY <2>1, <2>3
<1>4. Inv /\ AllResting => NeverStuck
  <2> SUFFICES ASSUME Inv, AllResting, NEW j \in Jobs, ~Unlocked(j)
               PROVE  \E v \in Workers : tx[v].pc # "idle" /\ CanGoOn(v)
    BY <1>3 DEF NeverStuck
  <2>1. PICK u \in Workers : tx[u].own[j] # "same"  BY DEF Unlocked
  <2>2. tx[u].pc # "idle"  BY <2>1 DEF AllResting, Resting, Same
  <2> QED  BY <1>3, <2>2
<1> QED  BY <1>1, <1>2, <1>4, PTL DEF Spec
=============================================================================
