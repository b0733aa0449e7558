--------------------------- MODULE ChannelsProofs ---------------------------
(* Proofs about Channels, for any tree, configuration and set of jobs. *)
EXTENDS Channels, TLAPS, FiniteSetTheorems, WellFoundedInduction

-----------------------------------------------------------------------------
(* The tree *)

LEMMA PathFacts ==
    ASSUME NEW c \in Channels
    PROVE  /\ Path[c] \subseteq Channels
           /\ c \in Path[c]
           /\ Parent[c] \in Channels /\ Parent[c] \in Path[c]
           /\ c # Root => Parent[c] # c /\ c \notin Path[Parent[c]]
<1>1. Path[c] \subseteq Channels /\ Parent[c] \in Channels  BY TreeType
<1>2. CASE c = Root  BY <1>1, <1>2, TreeType
<1>3. CASE c # Root
  <2>1. c \notin Path[Parent[c]] /\ Path[c] = {c} \cup Path[Parent[c]]  BY <1>3, TreeType
  <2>2. Parent[c] # Root => Parent[c] \in Path[Parent[c]]  BY <1>1, TreeType
  <2>3. Parent[c] = Root => Parent[c] \in Path[Parent[c]]  BY TreeType
  <2> QED  BY <1>1, <2>1, <2>2, <2>3
<1> QED  BY <1>2, <1>3

\* The channels of a path form a chain in which the parent is the next one up.
LEMMA PathChain ==
    ASSUME NEW h \in Channels, NEW c \in Path[h], NEW d \in Path[h]
    PROVE  /\ c \in Channels
           /\ Parent[c] \in Path[h]
           /\ c \in Path[d] \/ d \in Path[c]
           /\ c \in Path[d] /\ d \in Path[c] => c = d
           /\ d \in Path[c] /\ c # d => d \in Path[Parent[c]]
           /\ c = h => (d \in Path[c] /\ (c \in Path[d] => c = d))
           /\ c = Root => c \in Path[d]
<1>1. c \in Channels /\ d \in Channels  BY TreeType
<1>2. /\ Path[c] \subseteq Path[h]
      /\ c \in Path[d] \/ d \in Path[c]
      /\ c \in Path[d] /\ d \in Path[c] => c = d
  BY PathsChains
<1>3. Parent[c] \in Path[h]  BY <1>1, <1>2, PathFacts
<1>4. ASSUME d \in Path[c], c # d PROVE d \in Path[Parent[c]]
  <2>1. c # Root  BY <1>4, TreeType
  <2> QED  BY <1>1, <1>4, <2>1, TreeType
<1>5. c = Root => c \in Path[d]  BY <1>2, TreeType
<1> QED  BY <1>1, <1>2, <1>3, <1>4, <1>5

-----------------------------------------------------------------------------
(* The place of one job *)

SameFor(m, n, j) ==
    \A c \in Channels : /\ j \in n[c].queue <=> j \in m[c].queue
                        /\ j \in n[c].eta <=> j \in m[c].eta
                        /\ j \in n[c].running <=> j \in m[c].running
                        /\ j \in n[c].failed <=> j \in m[c].failed

Apart(rec, j) ==
    /\ j \in rec.queue => j \notin rec.eta /\ j \notin rec.running /\ j \notin rec.failed
    /\ j \in rec.eta => j \notin rec.running /\ j \notin rec.failed
    /\ j \in rec.running => j \notin rec.failed

OnlyHome(m, j) ==
    \A c \in Channels :
        /\ c \notin Path[Home[j]] => ~Holds(m[c], j)
        /\ c # Home[j] => j \notin m[c].eta /\ j \notin m[c].failed

\* What a channel has of a job, the channels below it run.
RunsBelow(m, j) ==
    \A c, d \in Path[Home[j]] :
        c \in Path[d] /\ c # d /\ (j \in m[c].queue \/ j \in m[c].running) => j \in m[d].running

\* What a channel runs, its parent has.
KnownAbove(m, j) ==
    \A c \in Path[Home[j]] \ {Root} :
        j \in m[c].running => j \in m[Parent[c]].queue \/ j \in m[Parent[c]].running

Placed(m, j) ==
    /\ \A c \in Channels : Apart(m[c], j)
    /\ OnlyHome(m, j)
    /\ RunsBelow(m, j)
    /\ KnownAbove(m, j)

Absent(m, j) == \A c \in Channels : ~Holds(m[c], j)

RunAll(m, j) == \A c \in Path[Home[j]] : j \in m[c].running

LEMMA HomePath ==
    ASSUME NEW j \in Jobs
    PROVE  /\ Home[j] \in Channels /\ Home[j] \in Path[Home[j]]
           /\ \A c \in Path[Home[j]] : c \in Channels /\ Parent[c] \in Path[Home[j]]
BY JobsType, PathFacts, PathChain

LEMMA SamePlaced ==
    ASSUME NEW m, NEW n, NEW j \in Jobs, SameFor(m, n, j), Placed(m, j)
    PROVE  Placed(n, j)
<1>1. \A c \in Channels : Apart(n[c], j)  BY DEF SameFor, Placed, Apart
<1>2. OnlyHome(n, j)  BY DEF SameFor, Placed, OnlyHome, Holds
<1>3. RunsBelow(n, j)  BY HomePath DEF SameFor, Placed, RunsBelow
<1>4. KnownAbove(n, j)  BY HomePath DEF SameFor, Placed, KnownAbove
<1> QED  BY <1>1, <1>2, <1>3, <1>4 DEF Placed

LEMMA AbsentPlaced ==
    ASSUME NEW m, NEW j \in Jobs, Absent(m, j)
    PROVE  Placed(m, j)
BY HomePath DEF Absent, Placed, Apart, OnlyHome, RunsBelow, KnownAbove, Holds

\* A job that only its own channel holds, not as a running one.
LEMMA HomePlaced ==
    ASSUME NEW m, NEW j \in Jobs, \A c \in Channels : j \notin m[c].running,
           \A c \in Channels \ {Home[j]} : ~Holds(m[c], j), Apart(m[Home[j]], j)
    PROVE  Placed(m, j)
<1>1. \A c \in Channels : Apart(m[c], j)  BY DEF Apart, Holds
<1>2. OnlyHome(m, j)  BY HomePath DEF OnlyHome, Holds
<1>3. RunsBelow(m, j)
  <2> SUFFICES ASSUME NEW c \in Path[Home[j]], NEW d \in Path[Home[j]],
                      c \in Path[d], c # d, j \in m[c].queue
               PROVE  FALSE
    BY HomePath DEF RunsBelow
  <2>1. c = Home[j]  BY HomePath DEF Holds
  <2> QED  BY <2>1, HomePath, PathChain
<1>4. KnownAbove(m, j)  BY HomePath DEF KnownAbove
<1> QED  BY <1>1, <1>2, <1>3, <1>4 DEF Placed

LEMMA RunAllPlaced ==
    ASSUME NEW m, NEW j \in Jobs, RunAll(m, j),
           \A c \in Channels : j \notin m[c].queue /\ j \notin m[c].eta /\ j \notin m[c].failed,
           \A c \in Channels \ Path[Home[j]] : j \notin m[c].running
    PROVE  Placed(m, j)
BY HomePath DEF RunAll, Placed, Apart, OnlyHome, RunsBelow, KnownAbove, Holds

-----------------------------------------------------------------------------
(* What a notification does with a job *)

\* Channels with a step that concerns one job only.
Moves(m, n, j) ==
    /\ n \in [Channels -> ChannelType]
    /\ \A k \in Jobs \ {j} : SameFor(m, n, k)

LEMMA MovesTwice ==
    ASSUME NEW m, NEW n, NEW o, NEW j, Moves(m, n, j), Moves(n, o, j)
    PROVE  Moves(m, o, j)
BY DEF Moves, SameFor

LEMMA WithoutFacts ==
    ASSUME NEW rec \in ChannelType, NEW j
    PROVE  /\ Without(rec, j) \in ChannelType
           /\ ~Holds(Without(rec, j), j)
           /\ Without(rec, j).queue = rec.queue \ {j}
           /\ Without(rec, j).eta = rec.eta \ {j}
           /\ Without(rec, j).running = rec.running \ {j}
           /\ Without(rec, j).failed = rec.failed \ {j}
BY DEF ChannelType, Without, Holds

LEMMA RemovedFacts ==
    ASSUME NEW m \in [Channels -> ChannelType], NEW j \in Jobs
    PROVE  /\ Moves(m, Removed(m, j), j)
           /\ OnlyHome(m, j) => Absent(Removed(m, j), j)
           /\ \A c \in Channels : Removed(m, j)[c].running \subseteq m[c].running
<1> DEFINE n == Removed(m, j)
<1>1. ASSUME NEW c \in Channels
      PROVE  /\ m[c] \in ChannelType
             /\ c \in Path[Home[j]] => n[c] = Without(m[c], j)
             /\ c \notin Path[Home[j]] => n[c] = m[c]
  BY DEF Removed
<1>2. ASSUME NEW c \in Channels PROVE n[c] \in ChannelType  BY <1>1, WithoutFacts
<1>3. n \in [Channels -> ChannelType]  BY <1>2 DEF Removed
<1>4. ASSUME NEW k \in Jobs \ {j} PROVE SameFor(m, n, k)
  <2> SUFFICES ASSUME NEW c \in Channels
               PROVE  /\ k \in n[c].queue <=> k \in m[c].queue
                      /\ k \in n[c].eta <=> k \in m[c].eta
                      /\ k \in n[c].running <=> k \in m[c].running
                      /\ k \in n[c].failed <=> k \in m[c].failed
    BY DEF SameFor
  <2>1. CASE c \in Path[Home[j]]  BY <1>1, <2>1, WithoutFacts
  <2>2. CASE c \notin Path[Home[j]]  BY <1>1, <2>2
  <2> QED  BY <2>1, <2>2
<1>5. ASSUME OnlyHome(m, j), NEW c \in Channels PROVE ~Holds(n[c], j)
  BY <1>1, <1>5, WithoutFacts DEF OnlyHome
<1>6. ASSUME NEW c \in Channels PROVE n[c].running \subseteq m[c].running
  BY <1>1, WithoutFacts
<1> QED  BY <1>3, <1>4, <1>5, <1>6 DEF Moves, Absent

LEMMA AddedFacts ==
    ASSUME NEW rec \in ChannelType, NEW j \in Jobs, NEW e
    PROVE  /\ Added(rec, j, e) \in ChannelType
           /\ Added(rec, j, e).running = rec.running
           /\ \A k \in Jobs \ {j} : /\ k \in Added(rec, j, e).queue <=> k \in rec.queue
                                    /\ k \in Added(rec, j, e).eta <=> k \in rec.eta
                                    /\ k \in Added(rec, j, e).failed <=> k \in rec.failed
           /\ ~Holds(rec, j) => Apart(Added(rec, j, e), j)
BY DEF ChannelType, Added, Holds, Apart

LEMMA set_pendingFacts ==
    ASSUME NEW m \in [Channels -> ChannelType], NEW j \in Jobs, NEW e, Placed(m, j)
    PROVE  /\ Moves(m, set_pending(m, j, e), j)
           /\ Placed(set_pending(m, j, e), j)
           /\ \A c \in Channels : set_pending(m, j, e)[c].running \subseteq m[c].running
<1>1. CASE j \in m[Home[j]].queue \cup m[Home[j]].eta
  BY <1>1 DEF set_pending, Moves, SameFor
<1>2. CASE j \notin m[Home[j]].queue \cup m[Home[j]].eta
  <2> DEFINE r == Removed(m, j)
             n == set_pending(m, j, e)
  <2>1. /\ Moves(m, r, j) /\ r \in [Channels -> ChannelType]
        /\ \A c \in Channels : ~Holds(r[c], j)
        /\ \A c \in Channels : r[c].running \subseteq m[c].running
    BY RemovedFacts DEF Placed, Absent, Moves
  <2>2. n = [r EXCEPT ![Home[j]] = Added(@, j, e)]  BY <1>2 DEF set_pending
  <2> HIDE DEF r, n
  <2>3. /\ n \in [Channels -> ChannelType]
        /\ n[Home[j]] = Added(r[Home[j]], j, e)
        /\ \A c \in Channels \ {Home[j]} : n[c] = r[c]
    BY <2>1, <2>2, HomePath, AddedFacts
  <2>4. \A k \in Jobs \ {j} : SameFor(r, n, k)
    BY <2>1, <2>3, HomePath, AddedFacts DEF SameFor
  <2>5. Moves(m, n, j)  BY <2>1, <2>3, <2>4, MovesTwice DEF Moves
  <2>6. \A c \in Channels : n[c].running = r[c].running
    BY <2>1, <2>3, HomePath, AddedFacts
  <2>7. Apart(n[Home[j]], j)  BY <2>1, <2>3, HomePath, AddedFacts
  <2>8. Placed(n, j)
    <3>1. \A c \in Channels : j \notin n[c].running  BY <2>1, <2>6 DEF Holds
    <3>2. \A c \in Channels \ {Home[j]} : ~Holds(n[c], j)  BY <2>1, <2>3
    <3> QED  BY <3>1, <3>2, <2>7, HomePlaced
  <2> QED  BY <2>1, <2>5, <2>6, <2>8 DEF n
<1> QED  BY <1>1, <1>2

LEMMA set_failedFacts ==
    ASSUME NEW m \in [Channels -> ChannelType], NEW j \in Jobs, Placed(m, j)
    PROVE  /\ Moves(m, set_failed(m, j), j)
           /\ Placed(set_failed(m, j), j)
           /\ \A c \in Channels : set_failed(m, j)[c].running \subseteq m[c].running
<1>1. CASE j \in m[Home[j]].failed
  BY <1>1 DEF set_failed, Moves, SameFor
<1>2. CASE j \notin m[Home[j]].failed
  <2> DEFINE r == Removed(m, j)
             n == set_failed(m, j)
  <2>1. /\ Moves(m, r, j) /\ r \in [Channels -> ChannelType]
        /\ \A c \in Channels : ~Holds(r[c], j)
        /\ \A c \in Channels : r[c].running \subseteq m[c].running
    BY RemovedFacts DEF Placed, Absent, Moves
  <2>2. n = [r EXCEPT ![Home[j]].failed = @ \cup {j}]  BY <1>2 DEF set_failed
  <2> HIDE DEF r, n
  <2>3. /\ n \in [Channels -> ChannelType]
        /\ \A c \in Channels : /\ n[c].queue = r[c].queue /\ n[c].eta = r[c].eta
                               /\ n[c].running = r[c].running
        /\ n[Home[j]].failed = r[Home[j]].failed \cup {j}
        /\ \A c \in Channels \ {Home[j]} : n[c] = r[c]
    BY <2>1, <2>2, HomePath DEF ChannelType
  <2>4. \A k \in Jobs \ {j} : SameFor(r, n, k)  BY <2>3 DEF SameFor
  <2>5. Moves(m, n, j)  BY <2>1, <2>3, <2>4, MovesTwice DEF Moves
  <2>6. Placed(n, j)
    <3>1. \A c \in Channels : j \notin n[c].running  BY <2>1, <2>3 DEF Holds
    <3>2. \A c \in Channels \ {Home[j]} : ~Holds(n[c], j)  BY <2>1, <2>3
    <3>3. Apart(n[Home[j]], j)  BY <2>1, <2>3, HomePath DEF Apart, Holds
    <3> QED  BY <3>1, <3>2, <3>3, HomePlaced
  <2> QED  BY <2>1, <2>3, <2>5, <2>6 DEF n
<1> QED  BY <1>1, <1>2

LEMMA set_runningFacts ==
    ASSUME NEW m \in [Channels -> ChannelType], NEW j \in Jobs, Placed(m, j),
           Absent(m, j) \/ RunAll(m, j)
    PROVE  /\ Moves(m, set_running(m, j), j)
           /\ Placed(set_running(m, j), j)
           /\ RunAll(set_running(m, j), j)
           /\ \A c \in Channels : set_running(m, j)[c].running \subseteq m[c].running \cup {j}
           /\ \A c \in Channels \ Path[Home[j]] : set_running(m, j)[c].running = m[c].running
<1>1. CASE RunAll(m, j)
  <2>1. \A c \in Channels : set_running(m, j)[c] = m[c]
    BY <1>1, PathFacts DEF RunAll, set_running
  <2>2. set_running(m, j) = m  BY <2>1 DEF set_running
  <2> QED  BY <1>1, <2>2 DEF Moves, SameFor
<1>2. CASE Absent(m, j)
  <2> DEFINE n == set_running(m, j)
  <2>1. ASSUME NEW c \in Channels
        PROVE  n[c] = IF c \in Path[Home[j]]
                        THEN [Without(m[c], j) EXCEPT !.running = @ \cup {j}] ELSE m[c]
    BY <1>2, HomePath DEF set_running, Absent, Holds
  <2>2. ASSUME NEW c \in Channels
        PROVE  /\ n[c] \in ChannelType
               /\ n[c].running = IF c \in Path[Home[j]] THEN m[c].running \cup {j}
                                                        ELSE m[c].running
               /\ n[c].queue = m[c].queue /\ n[c].eta = m[c].eta /\ n[c].failed = m[c].failed
    <3>1. m[c] \in ChannelType /\ ~Holds(m[c], j)  BY <1>2 DEF Absent
    <3>2. CASE c \in Path[Home[j]]
      <4> DEFINE w == Without(m[c], j)
      <4>1. /\ w \in ChannelType /\ w.queue = m[c].queue /\ w.eta = m[c].eta
            /\ w.running = m[c].running /\ w.failed = m[c].failed
        <5>1. /\ j \notin m[c].queue /\ j \notin m[c].eta
              /\ j \notin m[c].running /\ j \notin m[c].failed
          BY <3>1 DEF Holds
        <5>2. /\ w \in ChannelType
              /\ w.queue = m[c].queue \ {j} /\ w.eta = m[c].eta \ {j}
              /\ w.running = m[c].running \ {j} /\ w.failed = m[c].failed \ {j}
          BY <3>1, WithoutFacts
        <5> HIDE DEF w
        <5> QED  BY <5>1, <5>2
      <4>2. n[c] = [w EXCEPT !.running = @ \cup {j}]  BY <2>1, <3>2
      <4> HIDE DEF w, n
      <4> QED  BY <3>2, <4>1, <4>2 DEF ChannelType
    <3>3. CASE c \notin Path[Home[j]]  BY <2>1, <3>1, <3>3
    <3> QED  BY <3>2, <3>3
  <2>3. n \in [Channels -> ChannelType]  BY <2>2 DEF set_running
  <2> HIDE DEF n
  <2>4. \A k \in Jobs \ {j} : SameFor(m, n, k)  BY <2>2 DEF SameFor
  <2>5. RunAll(n, j)  BY <2>2, HomePath DEF RunAll
  <2>6. Placed(n, j)
    <3>1. \A c \in Channels : j \notin n[c].queue /\ j \notin n[c].eta /\ j \notin n[c].failed
      BY <1>2, <2>2 DEF Absent, Holds
    <3>2. \A c \in Channels \ Path[Home[j]] : j \notin n[c].running
      BY <1>2, <2>2 DEF Absent, Holds
    <3> QED  BY <2>5, <3>1, <3>2, RunAllPlaced
  <2> QED  BY <2>2, <2>3, <2>4, <2>5, <2>6 DEF n, Moves
<1> QED  BY <1>1, <1>2

ActiveRun == \A j \in Jobs : row[j] \in Active => RunAll(chan, j)

\* A notification moves one job, to one place, and frees slots but takes none: an
\* active job has its slots already.
LEMMA notifyFacts ==
    ASSUME chan \in [Channels -> ChannelType], NEW j \in Jobs, NEW e, row[j] \in Rows,
           Placed(chan, j), row[j] \in Active => RunAll(chan, j)
    PROVE  LET n == notify(j, row[j], e) IN
           /\ Moves(chan, n, j)
           /\ Placed(n, j)
           /\ \A c \in Channels : n[c].running \subseteq chan[c].running
           /\ row[j] \in Active => RunAll(n, j)
<1> DEFINE m == IF e # copy[j] THEN Removed(chan, j) ELSE chan
           n == notify(j, row[j], e)
<1>1. /\ Moves(chan, m, j) /\ m \in [Channels -> ChannelType]
      /\ Placed(m, j)
      /\ m = chan \/ Absent(m, j)
      /\ \A c \in Channels : m[c].running \subseteq chan[c].running
  <2>1. CASE e # copy[j]
    BY <2>1, RemovedFacts, AbsentPlaced DEF Moves, Placed
  <2>2. CASE e = copy[j]  BY <2>2 DEF Moves, SameFor
  <2> QED  BY <2>1, <2>2
<1>2. /\ row[j] \in {"done", "cancelled", "none"} => n = Removed(m, j)
      /\ row[j] = "pending" => n = set_pending(m, j, e)
      /\ row[j] \in Active => n = set_running(m, j)
      /\ row[j] = "failed" => n = set_failed(m, j)
      /\ row[j] = "wait_dependencies" => n = m
  BY DEF notify, Active
<1> HIDE DEF m, n
<1>3. CASE row[j] \in {"done", "cancelled", "none"}
  <2>1. row[j] \notin Active  BY <1>3 DEF Active
  <2> QED
    BY <1>1, <1>2, <1>3, <2>1, RemovedFacts, AbsentPlaced, MovesTwice DEF Placed, n
<1>4. CASE row[j] = "pending"
  BY <1>1, <1>2, <1>4, set_pendingFacts, MovesTwice DEF Active, n
<1>5. CASE row[j] = "failed"
  BY <1>1, <1>2, <1>5, set_failedFacts, MovesTwice DEF Active, n
<1>6. CASE row[j] = "wait_dependencies"
  BY <1>1, <1>2, <1>6 DEF Active, n
<1>7. CASE row[j] \in Active
  <2>1. Absent(m, j) \/ RunAll(m, j)  BY <1>1, <1>7
  <2>2. n = set_running(m, j)  BY <1>2, <1>7
  <2>3. /\ Moves(m, n, j) /\ Placed(n, j) /\ RunAll(n, j)
        /\ \A c \in Channels : n[c].running \subseteq m[c].running \cup {j}
        /\ \A c \in Channels \ Path[Home[j]] : n[c].running = m[c].running
    BY <1>1, <2>1, <2>2, set_runningFacts
  <2>4. \A c \in Channels : n[c].running \subseteq chan[c].running
    BY <1>1, <1>7, <2>3 DEF RunAll
  <2> QED  BY <1>1, <2>3, <2>4, MovesTwice DEF n
<1> QED  BY <1>3, <1>4, <1>5, <1>6, <1>7 DEF Rows, Active

-----------------------------------------------------------------------------
(* What a visit does with the jobs *)

\* The jobs of S in the queue of c lose their eta.
Ripens(m, n, c, S) ==
    /\ S \subseteq m[c].eta
    /\ n[c].queue = m[c].queue \cup S /\ n[c].eta = m[c].eta \ S
    /\ n[c].running = m[c].running /\ n[c].failed = m[c].failed
    /\ \A d \in Channels \ {c} :
          /\ n[d].queue = m[d].queue /\ n[d].eta = m[d].eta
          /\ n[d].running = m[d].running /\ n[d].failed = m[d].failed

LEMMA RipensPlaced ==
    ASSUME NEW m, NEW n, NEW c \in Channels, NEW S, Ripens(m, n, c, S),
           NEW j \in Jobs, Placed(m, j)
    PROVE  Placed(n, j)
<1>1. \A d \in Channels : n[d].running = m[d].running /\ n[d].failed = m[d].failed
  BY DEF Ripens
<1>2. \A d \in Channels : /\ j \in m[d].queue => j \in n[d].queue
                          /\ j \in n[d].eta => j \in m[d].eta
                          /\ j \in n[d].queue => j \in m[d].queue \/ j \in m[d].eta
                          /\ j \in n[d].queue => j \notin n[d].eta
  <2>1. \A d \in Channels : Apart(m[d], j)  BY DEF Placed
  <2> QED  BY <2>1 DEF Ripens, Apart
<1>3. \A d \in Channels : Apart(n[d], j)
  BY <1>1, <1>2 DEF Apart, Placed
<1>4. OnlyHome(n, j)  BY <1>1, <1>2 DEF OnlyHome, Holds, Placed
<1>5. RunsBelow(n, j)
  <2> SUFFICES ASSUME NEW d \in Path[Home[j]], NEW f \in Path[Home[j]],
                      d \in Path[f], d # f, j \in n[d].queue \/ j \in n[d].running
               PROVE  j \in n[f].running
    BY DEF RunsBelow
  <2>1. d \in Channels /\ f \in Channels  BY HomePath
  <2>2. CASE j \in m[d].queue \/ j \in m[d].running
    BY <1>1, <2>1, <2>2 DEF Placed, RunsBelow
  <2>3. CASE j \in m[d].eta
    <3>1. d = Home[j]  BY <2>1, <2>3 DEF Placed, OnlyHome
    <3> QED  BY <3>1, HomePath, PathChain
  <2> QED  BY <1>1, <1>2, <2>1, <2>2, <2>3
<1>6. KnownAbove(n, j)
  BY <1>1, <1>2, HomePath DEF KnownAbove, Placed
<1> QED  BY <1>3, <1>4, <1>5, <1>6 DEF Placed

\* Job j leaves the queue of c, which runs it, for the queue of the parent.
Climbs(m, n, c, j) ==
    /\ j \in m[c].queue
    /\ n[c].queue = m[c].queue \ {j} /\ n[c].running = m[c].running \cup {j}
    /\ c # Root => n[Parent[c]].queue = m[Parent[c]].queue \cup {j}
    /\ \A d \in Channels \ {c, Parent[c]} : n[d].queue = m[d].queue
    /\ \A d \in Channels \ {c} : n[d].running = m[d].running
    /\ \A d \in Channels : n[d].eta = m[d].eta /\ n[d].failed = m[d].failed

LEMMA ClimbsOthers ==
    ASSUME NEW m, NEW n, NEW c \in Channels, NEW j \in Jobs, Climbs(m, n, c, j),
           NEW k \in Jobs \ {j}
    PROVE  SameFor(m, n, k)
<1>1. \A d \in Channels : k \in n[d].queue <=> k \in m[d].queue
  <2>1. CASE c = Root  BY <2>1, TreeType DEF Climbs
  <2>2. CASE c # Root  BY <2>2 DEF Climbs
  <2> QED  BY <2>1, <2>2
<1> QED  BY <1>1 DEF Climbs, SameFor

LEMMA ClimbsPlaced ==
    ASSUME NEW m, NEW n, NEW c \in Channels, NEW j \in Jobs, Climbs(m, n, c, j), Placed(m, j)
    PROVE  /\ Placed(n, j)
           /\ c = Root => RunAll(n, j)
<1>1. c \in Path[Home[j]]  BY DEF Climbs, Placed, OnlyHome, Holds
<1>2. \A d \in Channels : j \in m[d].running => j \in n[d].running  BY DEF Climbs
<1>3. j \in n[c].running /\ j \notin n[c].queue  BY DEF Climbs
<1>4. \A d \in Channels : j \in n[d].running => d = c \/ j \in m[d].running
  BY DEF Climbs
<1>5. \A d \in Channels : j \in n[d].queue => (c # Root /\ d = Parent[c]) \/ j \in m[d].queue
  BY <1>3, TreeType DEF Climbs
<1>6. \A d \in Channels : j \in m[d].queue => d = c \/ j \in n[d].queue
  <2>1. CASE c = Root  BY <2>1, TreeType DEF Climbs
  <2>2. CASE c # Root  BY <2>2 DEF Climbs
  <2> QED  BY <2>1, <2>2
<1>7. \A f \in Path[Home[j]] : c \in Path[f] => j \in n[f].running
  BY <1>1, <1>2, <1>3, HomePath DEF Placed, RunsBelow, Climbs
<1>8. \A d \in Channels : Apart(n[d], j)
  <2>1. CASE c = Root
    BY <1>3, <1>4, <1>5, <2>1 DEF Climbs, Placed, Apart
  <2>2. CASE c # Root
    <3> DEFINE p == Parent[c]
    <3>1. /\ p \in Channels /\ p \in Path[Home[j]] /\ p # c
          /\ c \in Path[Home[j]] /\ p \in Path[c] /\ c \notin Path[p]
      <4>1. p \in Channels /\ p \in Path[c] /\ p # c /\ c \notin Path[p]
        BY <2>2, PathFacts
      <4> QED  BY <1>1, <4>1, HomePath
    <3>2. j \notin m[p].running
      BY <3>1 DEF Climbs, Placed, RunsBelow, Apart
    <3>3. p # Home[j]  BY <3>1, HomePath, PathChain
    <3>4. j \notin m[p].eta /\ j \notin m[p].failed  BY <3>1, <3>3 DEF Placed, OnlyHome
    <3>5. Apart(n[p], j)  BY <3>1, <3>2, <3>4 DEF Climbs, Apart
    <3>6. \A d \in Channels \ {p} : Apart(n[d], j)
      BY <1>3, <1>4, <1>5 DEF Climbs, Placed, Apart
    <3> QED  BY <3>5, <3>6
  <2> QED  BY <2>1, <2>2
<1>9. OnlyHome(n, j)
  <2>1. c # Root => Parent[c] \in Path[Home[j]]  BY <1>1, HomePath
  <2> QED  BY <1>1, <1>4, <1>5, <2>1 DEF Climbs, Placed, OnlyHome, Holds
<1>10. RunsBelow(n, j)
  <2> SUFFICES ASSUME NEW d \in Path[Home[j]], NEW f \in Path[Home[j]],
                      d \in Path[f], d # f, j \in n[d].queue \/ j \in n[d].running
               PROVE  j \in n[f].running
    BY DEF RunsBelow
  <2>1. d \in Channels /\ f \in Channels  BY HomePath
  <2>2. CASE j \in m[d].queue \/ j \in m[d].running
    BY <1>2, <2>1, <2>2 DEF Placed, RunsBelow
  <2>3. CASE d = c  BY <1>7, <2>3
  <2>4. CASE c # Root /\ d = Parent[c]
    <3>1. c \in Path[f] \/ f \in Path[c]  BY <1>1, HomePath, PathChain
    <3>2. ASSUME f \in Path[c], f # c PROVE FALSE
      <4>1. f \in Path[d]  BY <1>1, <2>4, <3>2, HomePath, PathChain
      <4> QED  BY <4>1, HomePath, PathChain
    <3>3. f = c => c \in Path[f]  BY PathFacts
    <3> QED  BY <1>7, <3>1, <3>2, <3>3
  <2> QED  BY <1>4, <1>5, <2>1, <2>2, <2>3, <2>4
<1>11. KnownAbove(n, j)
  <2> SUFFICES ASSUME NEW d \in Path[Home[j]], d # Root, j \in n[d].running
               PROVE  j \in n[Parent[d]].queue \/ j \in n[Parent[d]].running
    BY DEF KnownAbove
  <2>1. d \in Channels /\ Parent[d] \in Channels  BY HomePath, PathFacts
  <2>2. CASE d = c  BY <2>2 DEF Climbs
  <2>3. CASE j \in m[d].running
    BY <1>2, <1>3, <1>6, <2>1, <2>3 DEF Placed, KnownAbove
  <2> QED  BY <1>4, <2>1, <2>2, <2>3
<1>12. c = Root => RunAll(n, j)
  BY <1>1, <1>7, HomePath, PathChain DEF RunAll
<1> QED  BY <1>8, <1>9, <1>10, <1>11, <1>12 DEF Placed

-----------------------------------------------------------------------------
(* Types *)

LEMMA VisitFacts ==
    ASSUME TypeOK, Working
    PROVE  /\ visit + 1 \in 0..(Len(Order) + 1)
           /\ Visited \in Channels
           /\ Len(Order) \in Nat
BY OrderType DEF TypeOK, Working, Visited

\* The channels after a job was taken.
LEMMA TakeChan ==
    ASSUME TypeOK, NEW c \in Channels, NEW j \in Jobs, Take(c, j)
    PROVE  LET m == [chan EXCEPT ![c].queue = @ \cup Due(c, now), ![c].eta = Later(c, now)] IN
           /\ chan' \in [Channels -> ChannelType]
           /\ Ripens(chan, m, c, Due(c, now))
           /\ Climbs(m, chan', c, j)
           /\ chan'[c].running = chan[c].running \cup {j}
           /\ \A d \in Channels \ {c} : chan'[d].running = chan[d].running
           /\ \A d \in Channels : chan'[d].failed = chan[d].failed
           /\ chan'[c].eta = Later(c, now)
           /\ \A d \in Channels \ {c} : chan'[d].eta = chan[d].eta
           /\ chan'[c].pause = IF Throttle[c] > 0 THEN now + Throttle[c] ELSE chan[c].pause
           /\ \A d \in Channels \ {c} : chan'[d].pause = chan[d].pause
<1> DEFINE m == [chan EXCEPT ![c].queue = @ \cup Due(c, now), ![c].eta = Later(c, now)]
           pause == IF Throttle[c] > 0 THEN now + Throttle[c] ELSE chan[c].pause
<1>1. /\ chan \in [Channels -> ChannelType] /\ now \in Nat /\ Throttle[c] \in Nat
  BY ConfigType DEF TypeOK
<1>2. Due(c, now) \subseteq chan[c].eta /\ Later(c, now) = chan[c].eta \ Due(c, now)
  BY DEF Due, Later
<1>3. /\ m \in [Channels -> ChannelType]
      /\ m[c].queue = chan[c].queue \cup Due(c, now) /\ m[c].eta = Later(c, now)
      /\ m[c].running = chan[c].running /\ m[c].failed = chan[c].failed
      /\ m[c].pause = chan[c].pause
      /\ \A d \in Channels \ {c} : m[d] = chan[d]
  BY <1>1, <1>2 DEF ChannelType
<1>4. Ripens(chan, m, c, Due(c, now))  BY <1>2, <1>3 DEF Ripens
<1>5. j \in chan[c].queue \cup Due(c, now)  BY DEF Take, Poppable
<1>6. pause \in Nat  BY <1>1 DEF ChannelType
<1>7. chan' = [d \in Channels |->
          IF d = c THEN [chan[c] EXCEPT !.queue = (@ \cup Due(c, now)) \ {j},
                            !.eta = Later(c, now), !.running = @ \cup {j}, !.pause = pause]
          ELSE IF d = Parent[c] THEN [chan[d] EXCEPT !.queue = @ \cup {j}]
          ELSE chan[d]]
  BY <1>1 DEF Take
<1>8. /\ chan'[c] \in ChannelType
      /\ chan'[c].queue = (chan[c].queue \cup Due(c, now)) \ {j}
      /\ chan'[c].eta = Later(c, now)
      /\ chan'[c].running = chan[c].running \cup {j}
      /\ chan'[c].failed = chan[c].failed
      /\ chan'[c].pause = pause
  <2> HIDE DEF pause
  <2>1. chan[c] \in ChannelType  BY <1>1
  <2> QED  BY <1>2, <1>6, <1>7, <2>1 DEF ChannelType
<1>9. ASSUME NEW d \in Channels \ {c}
      PROVE  /\ chan'[d] \in ChannelType
             /\ chan'[d].queue = IF d = Parent[c] THEN chan[d].queue \cup {j} ELSE chan[d].queue
             /\ chan'[d].eta = chan[d].eta /\ chan'[d].running = chan[d].running
             /\ chan'[d].failed = chan[d].failed /\ chan'[d].pause = chan[d].pause
  BY <1>1, <1>7 DEF ChannelType
<1>10. chan' \in [Channels -> ChannelType]  BY <1>7, <1>8, <1>9
<1>11. Climbs(m, chan', c, j)
  <2> HIDE DEF m
  <2>1. c # Root => Parent[c] \in Channels \ {c}  BY PathFacts
  <2>2. /\ j \in m[c].queue
        /\ chan'[c].queue = m[c].queue \ {j} /\ chan'[c].running = m[c].running \cup {j}
        /\ chan'[c].eta = m[c].eta /\ chan'[c].failed = m[c].failed
    BY <1>3, <1>5, <1>8
  <2>3. c # Root => chan'[Parent[c]].queue = m[Parent[c]].queue \cup {j}
    BY <1>3, <1>9, <2>1
  <2>4. ASSUME NEW d \in Channels \ {c}
        PROVE  /\ d # Parent[c] => chan'[d].queue = m[d].queue
               /\ chan'[d].running = m[d].running
               /\ chan'[d].eta = m[d].eta /\ chan'[d].failed = m[d].failed
    <3>1. m[d] = chan[d]  BY <1>3
    <3>2. /\ chan'[d].queue = IF d = Parent[c] THEN chan[d].queue \cup {j} ELSE chan[d].queue
          /\ chan'[d].eta = chan[d].eta /\ chan'[d].running = chan[d].running
          /\ chan'[d].failed = chan[d].failed
      BY <1>9
    <3> QED  BY <3>1, <3>2
  <2> QED  BY <2>2, <2>3, <2>4 DEF Climbs
<1> QED  BY <1>4, <1>8, <1>9, <1>10, <1>11

\* What other visits need of it.
LEMMA TakeFields ==
    ASSUME TypeOK, NEW c \in Channels, NEW j \in Jobs, Take(c, j)
    PROVE  /\ chan'[c].running = chan[c].running \cup {j}
           /\ \A d \in Channels \ {c} : /\ chan'[d].running = chan[d].running
                                         /\ chan'[d].eta = chan[d].eta
                                         /\ chan'[d].pause = chan[d].pause
           /\ \A d \in Channels : chan'[d].failed = chan[d].failed
<1>1. /\ chan'[c].running = chan[c].running \cup {j}
      /\ \A d \in Channels \ {c} : chan'[d].running = chan[d].running
      /\ \A d \in Channels : chan'[d].failed = chan[d].failed
      /\ \A d \in Channels \ {c} : chan'[d].eta = chan[d].eta
      /\ \A d \in Channels \ {c} : chan'[d].pause = chan[d].pause
  BY TakeChan
<1> QED  BY <1>1

\* The channels after a visit has ended.
LEMMA LeaveChan ==
    ASSUME TypeOK, NEW c \in Channels, Leave(c)
    PROVE  /\ chan' \in [Channels -> ChannelType]
           /\ \E S \in SUBSET chan[c].eta : Ripens(chan, chan', c, S)
           /\ has_capacity(c) => chan'[c].eta = Later(c, now)
           /\ \A d \in Channels \ {c} : chan'[d] = chan[d]
           /\ chan'[c].pause = 0
<1>1. chan \in [Channels -> ChannelType] /\ chan[c] \in ChannelType  BY DEF TypeOK
<1>2. CASE has_capacity(c)
  <2>1. Due(c, now) \subseteq chan[c].eta /\ Later(c, now) = chan[c].eta \ Due(c, now)
    BY DEF Due, Later
  <2>2. chan' = [chan EXCEPT ![c].queue = @ \cup Due(c, now),
                             ![c].eta = Later(c, now), ![c].pause = 0]
    BY <1>2 DEF Leave
  <2>3. /\ chan' \in [Channels -> ChannelType]
        /\ Ripens(chan, chan', c, Due(c, now))
        /\ chan'[c].eta = Later(c, now)
        /\ chan'[c].pause = 0
        /\ \A d \in Channels \ {c} : chan'[d] = chan[d]
    BY <1>1, <2>1, <2>2 DEF ChannelType, Ripens
  <2> QED  BY <2>1, <2>3
<1>3. CASE ~has_capacity(c)
  <2>1. chan' = [chan EXCEPT ![c].pause = 0]  BY <1>3 DEF Leave
  <2>2. /\ chan' \in [Channels -> ChannelType]
        /\ Ripens(chan, chan', c, {})
        /\ chan'[c].pause = 0
        /\ \A d \in Channels \ {c} : chan'[d] = chan[d]
    BY <1>1, <2>1 DEF ChannelType, Ripens
  <2> QED  BY <1>3, <2>2
<1> QED  BY <1>2, <1>3

LEMMA RestartChan ==
    ASSUME TypeOK, Restart
    PROVE  /\ chan' \in [Channels -> ChannelType]
           /\ \A j \in Jobs : Placed(chan', j)
           /\ \A c \in Channels : chan'[c].running = {j \in Jobs : c \in Path[Home[j]] /\ row[j] \in Active}
           /\ row' = row
<1> DEFINE at(c, s) == {j \in Jobs : Home[j] = c /\ row[j] \in s}
<1>1. chan' = [c \in Channels |->
                  [queue   |-> {j \in at(c, {"pending"}) : eta[j] = 0},
                   eta     |-> {j \in at(c, {"pending"}) : eta[j] # 0},
                   running |-> {j \in Jobs : c \in Path[Home[j]] /\ row[j] \in Active},
                   failed  |-> at(c, {"failed"}),
                   pause   |-> chan[c].pause]]
  BY DEF Restart
<1>2. \A c \in Channels : chan[c].pause \in Nat  BY DEF TypeOK, ChannelType
<1>3. chan' \in [Channels -> ChannelType]  BY <1>1, <1>2 DEF ChannelType
<1>4. ASSUME NEW j \in Jobs PROVE Placed(chan', j)
  <2>1. \A c \in Channels : Apart(chan'[c], j)  BY <1>1 DEF Apart, Active
  <2>2. OnlyHome(chan', j)  BY <1>1, HomePath DEF OnlyHome, Holds
  <2>3. RunsBelow(chan', j)
    <3> SUFFICES ASSUME NEW c \in Path[Home[j]], NEW d \in Path[Home[j]],
                        c \in Path[d], c # d, j \in chan'[c].queue \/ j \in chan'[c].running
                 PROVE  j \in chan'[d].running
      BY DEF RunsBelow
    <3>1. c \in Channels /\ d \in Channels  BY HomePath
    <3>2. c # Home[j]  BY HomePath, PathChain
    <3>3. row[j] \in Active  BY <1>1, <3>1, <3>2
    <3> QED  BY <1>1, <3>1, <3>3
  <2>4. KnownAbove(chan', j)
    <3> SUFFICES ASSUME NEW c \in Path[Home[j]], j \in chan'[c].running
                 PROVE  j \in chan'[Parent[c]].running
      BY DEF KnownAbove
    <3>1. c \in Channels /\ Parent[c] \in Channels /\ Parent[c] \in Path[Home[j]]
      BY HomePath, PathFacts
    <3> QED  BY <1>1, <3>1
  <2> QED  BY <2>1, <2>2, <2>3, <2>4 DEF Placed
<1> QED  BY <1>1, <1>3, <1>4 DEF Restart, table

LEMMA InitChan ==
    ASSUME Init
    PROVE  TypeOK /\ (\A j \in Jobs : Placed(chan, j)) /\ ActiveRun
<1>1. /\ row = [j \in Jobs |-> "pending"]
      /\ eta \in [Jobs -> Etas] /\ copy = eta
      /\ chan = [c \in Channels |->
                   [queue   |-> {j \in Jobs : Home[j] = c /\ eta[j] = 0},
                    eta     |-> {j \in Jobs : Home[j] = c /\ eta[j] # 0},
                    running |-> {}, failed |-> {}, pause |-> 0]]
      /\ notif = {} /\ visit = 0 /\ clock = 1 /\ now = 1 /\ writes = 0 /\ faults = 0
  BY DEF Init
<1>2. chan \in [Channels -> ChannelType]  BY <1>1 DEF ChannelType
<1>3. Len(Order) \in Nat  BY OrderType
<1>4. eta \in [Jobs -> Nat]  BY <1>1, EtasType
<1>5. TypeOK  BY <1>1, <1>2, <1>3, <1>4 DEF TypeOK, Rows
<1>6. ASSUME NEW j \in Jobs PROVE Placed(chan, j)
  <2>1. Apart(chan[Home[j]], j)  BY <1>1, HomePath DEF Apart
  <2> QED  BY <1>1, <2>1, HomePlaced DEF Holds
<1>7. ActiveRun  BY <1>1 DEF ActiveRun, Active
<1> QED  BY <1>5, <1>6, <1>7

\* Whether a channel has capacity depends on what it runs and what has failed.
LEMMA CapacityFrame ==
    ASSUME NEW c \in Channels, chan'[c].running = chan[c].running,
           chan'[c].failed = chan[c].failed
    PROVE  has_capacity(c)' = has_capacity(c)
BY DEF has_capacity

LEMMA CopyType ==
    ASSUME TypeOK, NEW c \in Channels, TakeDue(c)
    PROVE  /\ copy' \in [Jobs -> Nat]
           /\ \A j \in Jobs \ Due(c, now) : copy'[j] = copy[j]
BY DEF TypeOK, TakeDue

Unstirred == UNCHANGED <<chan, copy, visit, now>>

LEMMA OutsideUnstirred ==
    ASSUME Tick \/ (\E j \in Jobs, s \in Rows, e \in Etas : WriteRow(j, s, e)) \/ UNCHANGED vars
    PROVE  Unstirred
BY DEF Tick, WriteRow, vars, runner, Unstirred

LEMMA TypeStep ==
    ASSUME TypeOK, \A j \in Jobs : Placed(chan, j), ActiveRun, [Next]_vars
    PROVE  TypeOK'
<1> USE DEF TypeOK
<1>1. ASSUME NEW j \in Jobs, ProcessNotification(j) PROVE TypeOK'
  <2>1. Moves(chan, notify(j, row[j], eta[j]), j)
    BY notifyFacts DEF ActiveRun
  <2>2. chan' \in [Channels -> ChannelType]  BY <1>1, <2>1 DEF ProcessNotification, Moves
  <2> QED  BY <1>1, <2>2 DEF ProcessNotification, table, bounds
<1>2. CASE StartRun
  <2>1. Len(Order) \in Nat  BY OrderType
  <2> QED  BY <1>2, <2>1 DEF StartRun, table, bounds
<1>3. ASSUME NEW c \in Channels, Skip(c) PROVE TypeOK'
  BY <1>3, VisitFacts DEF Skip, table, bounds
<1>4. ASSUME NEW c \in Channels, Leave(c) PROVE TypeOK'
  <2>1. chan' \in [Channels -> ChannelType]  BY <1>4, LeaveChan
  <2>2. copy' \in [Jobs -> Nat]  BY <1>4, CopyType DEF Leave
  <2> QED  BY <1>4, <2>1, <2>2, VisitFacts DEF Leave, table, bounds
<1>5. ASSUME NEW c \in Channels, NEW j \in Jobs, Take(c, j) PROVE TypeOK'
  <2>1. chan' \in [Channels -> ChannelType]  BY <1>5, TakeChan
  <2>2. copy' \in [Jobs -> Nat]  BY <1>5, CopyType DEF Take
  <2>3. row' \in [Jobs -> Rows] /\ notif' \subseteq Jobs  BY <1>5 DEF Take, Rows
  <2>4. visit' \in 0..(Len(Order) + 1)  BY <1>5, VisitFacts DEF Take
  <2>5. UNCHANGED <<eta, now, clock, bounds>>  BY <1>5 DEF Take
  <2> QED  BY <2>1, <2>2, <2>3, <2>4, <2>5 DEF bounds
<1>6. CASE WakeUp
  <2>1. Len(Order) \in Nat  BY OrderType
  <2> QED  BY <1>6, <2>1 DEF WakeUp, table, bounds
<1>7. CASE Restart
  <2>1. Len(Order) \in Nat  BY OrderType
  <2>2. chan' \in [Channels -> ChannelType]  BY <1>7, RestartChan
  <2>3. /\ UNCHANGED <<row, eta, now, clock, writes>>
        /\ copy' = eta /\ notif' = {} /\ visit' = 0 /\ faults' = faults + 1
    BY <1>7 DEF Restart, table
  <2> QED  BY <2>1, <2>2, <2>3
<1>8. CASE Tick
  BY <1>8 DEF Tick, table, runner, bounds
<1>9. ASSUME NEW j \in Jobs, NEW s \in Rows, NEW e \in Etas, WriteRow(j, s, e) PROVE TypeOK'
  BY <1>9, EtasType DEF WriteRow, runner
<1>10. CASE UNCHANGED vars
  BY <1>10 DEF vars, table, runner, bounds
<1> QED
  BY <1>1, <1>2, <1>3, <1>4, <1>5, <1>6, <1>7, <1>8, <1>9, <1>10 DEF Next, RunnerNext

-----------------------------------------------------------------------------
(* Places and capacities *)

LEMMA PlaceStep ==
    ASSUME TypeOK, \A j \in Jobs : Placed(chan, j), ActiveRun, [Next]_vars
    PROVE  (\A j \in Jobs : Placed(chan, j))'
<1> SUFFICES ASSUME NEW k \in Jobs PROVE Placed(chan', k)
  OBVIOUS
<1>1. ASSUME NEW j \in Jobs, ProcessNotification(j) PROVE Placed(chan', k)
  <2>1. /\ chan' = notify(j, row[j], eta[j])
        /\ chan \in [Channels -> ChannelType] /\ row[j] \in Rows
    BY <1>1 DEF ProcessNotification, TypeOK
  <2>2. Moves(chan, chan', j) /\ Placed(chan', j)
    BY <2>1, notifyFacts DEF ActiveRun
  <2>3. k # j => SameFor(chan, chan', k)  BY <2>2 DEF Moves
  <2> QED  BY <2>2, <2>3, SamePlaced
<1>2. ASSUME NEW c \in Channels, Leave(c) PROVE Placed(chan', k)
  BY <1>2, LeaveChan, RipensPlaced
<1>3. ASSUME NEW c \in Channels, NEW j \in Jobs, Take(c, j) PROVE Placed(chan', k)
  <2> DEFINE m == [chan EXCEPT ![c].queue = @ \cup Due(c, now), ![c].eta = Later(c, now)]
  <2>1. Ripens(chan, m, c, Due(c, now)) /\ Climbs(m, chan', c, j)  BY <1>3, TakeChan
  <2> HIDE DEF m
  <2>2. Placed(m, j) /\ Placed(m, k)  BY <2>1, RipensPlaced
  <2> QED  BY <2>1, <2>2, ClimbsPlaced, ClimbsOthers, SamePlaced
<1>4. CASE Restart  BY <1>4, RestartChan
<1>5. CASE UNCHANGED chan  BY <1>5
<1>6. StartRun \/ WakeUp \/ (\E c \in Channels : Skip(c)) => UNCHANGED chan
  BY DEF StartRun, WakeUp, Skip
<1> QED
  BY <1>1, <1>2, <1>3, <1>4, <1>5, <1>6, OutsideUnstirred DEF Next, RunnerNext, Unstirred

LEMMA ActiveStep ==
    ASSUME TypeOK, \A j \in Jobs : Placed(chan, j), ActiveRun, [Next]_vars
    PROVE  ActiveRun'
<1> SUFFICES ASSUME NEW k \in Jobs, row'[k] \in Active PROVE RunAll(chan', k)
  BY DEF ActiveRun
<1>1. ASSUME NEW j \in Jobs, ProcessNotification(j) PROVE RunAll(chan', k)
  <2>1. /\ chan' = notify(j, row[j], eta[j]) /\ row' = row
        /\ chan \in [Channels -> ChannelType] /\ row[j] \in Rows
    BY <1>1 DEF ProcessNotification, TypeOK, table
  <2>2. /\ Moves(chan, chan', j)
        /\ row[j] \in Active => RunAll(chan', j)
    BY <2>1, notifyFacts DEF ActiveRun
  <2>3. k # j => SameFor(chan, chan', k)  BY <2>2 DEF Moves
  <2> QED  BY <2>1, <2>2, <2>3, HomePath DEF ActiveRun, RunAll, SameFor
<1>2. ASSUME NEW c \in Channels, Leave(c) PROVE RunAll(chan', k)
  <2>1. row' = row  BY <1>2 DEF Leave, table
  <2>2. \A d \in Channels : chan'[d].running = chan[d].running  BY <1>2, LeaveChan DEF Ripens
  <2> QED  BY <2>1, <2>2, HomePath DEF ActiveRun, RunAll
<1>3. ASSUME NEW c \in Channels, NEW j \in Jobs, Take(c, j) PROVE RunAll(chan', k)
  <2> DEFINE m == [chan EXCEPT ![c].queue = @ \cup Due(c, now), ![c].eta = Later(c, now)]
  <2>1. Ripens(chan, m, c, Due(c, now)) /\ Climbs(m, chan', c, j)  BY <1>3, TakeChan
  <2> HIDE DEF m
  <2>2. CASE row[k] \in Active
    <3>1. \A d \in Channels : chan[d].running \subseteq chan'[d].running
      BY <1>3, TakeChan
    <3> QED  BY <2>2, <3>1, HomePath DEF ActiveRun, RunAll
  <2>3. CASE row[k] \notin Active
    <3>1. c = Root /\ k = j  BY <1>3, <2>3 DEF Take, TypeOK
    <3> QED  BY <2>1, <3>1, RipensPlaced, ClimbsPlaced
  <2> QED  BY <2>2, <2>3
<1>4. CASE Restart
  <2>1. RunAll(chan', k)  BY <1>4, RestartChan, HomePath DEF RunAll
  <2> QED  BY <2>1
<1>5. ASSUME UNCHANGED chan, row[k] \in Active PROVE RunAll(chan', k)
  BY <1>5 DEF ActiveRun
<1>6. StartRun \/ WakeUp \/ Tick \/ UNCHANGED vars \/ (\E c \in Channels : Skip(c))
      => UNCHANGED <<row, chan>>
  BY DEF StartRun, WakeUp, Tick, Skip, vars, table, runner
<1>7. ASSUME NEW j \in Jobs, NEW s \in Rows, NEW e \in Etas, WriteRow(j, s, e)
      PROVE  UNCHANGED chan /\ row[k] \in Active
  BY <1>7 DEF WriteRow, runner, TypeOK, Active, Rows
<1> QED
  BY <1>1, <1>2, <1>3, <1>4, <1>5, <1>6, <1>7 DEF Next, RunnerNext

\* A step takes a slot only in a channel that has capacity.
LEMMA SlotsStep ==
    ASSUME TypeOK, \A j \in Jobs : Placed(chan, j), ActiveRun, [Next]_vars,
           NEW d \in Channels
    PROVE  \/ chan'[d].running \subseteq chan[d].running
           \/ has_capacity(d) /\ \E j \in Jobs : chan'[d].running = chan[d].running \cup {j}
<1>1. ASSUME NEW j \in Jobs, ProcessNotification(j) PROVE chan'[d].running \subseteq chan[d].running
  <2>1. /\ chan' = notify(j, row[j], eta[j])
        /\ chan \in [Channels -> ChannelType] /\ row[j] \in Rows
    BY <1>1 DEF ProcessNotification, TypeOK
  <2> QED  BY <2>1, notifyFacts DEF ActiveRun
<1>2. ASSUME NEW c \in Channels, Leave(c) PROVE chan'[d].running \subseteq chan[d].running
  BY <1>2, LeaveChan DEF Ripens
<1>3. ASSUME NEW c \in Channels, NEW j \in Jobs, Take(c, j)
      PROVE  \/ chan'[d].running \subseteq chan[d].running
             \/ has_capacity(d) /\ chan'[d].running = chan[d].running \cup {j}
  <2>1. /\ chan'[c].running = chan[c].running \cup {j}
        /\ d # c => chan'[d].running = chan[d].running
    BY <1>3, TakeChan
  <2>2. has_capacity(c)  BY <1>3 DEF Take
  <2> QED  BY <2>1, <2>2
<1>4. CASE Restart
  <2>1. chan'[d].running = {j \in Jobs : d \in Path[Home[j]] /\ row[j] \in Active}
    BY <1>4, RestartChan
  <2>2. \A j \in Jobs : d \in Path[Home[j]] /\ row[j] \in Active => j \in chan[d].running
    BY DEF ActiveRun, RunAll
  <2>3. chan'[d].running \subseteq chan[d].running  BY <2>1, <2>2
  <2> QED  BY <2>3
<1>5. StartRun \/ WakeUp \/ (\E c \in Channels : Skip(c)) => UNCHANGED chan
  BY DEF StartRun, WakeUp, Skip
<1> QED
  BY <1>1, <1>2, <1>3, <1>4, <1>5, OutsideUnstirred DEF Next, RunnerNext, Unstirred

LEMMA CapacityStep ==
    ASSUME TypeOK, \A j \in Jobs : Placed(chan, j), ActiveRun, CapacityKept, [Next]_vars
    PROVE  CapacityKept'
<1> SUFFICES ASSUME NEW d \in Channels, Capacity[d] > 0
             PROVE  Cardinality(chan'[d].running) <= Capacity[d]
  BY DEF CapacityKept
<1>1. /\ chan[d].running \subseteq Jobs
      /\ Capacity[d] \in Nat
      /\ Cardinality(chan[d].running) <= Capacity[d]
  BY ConfigType DEF TypeOK, ChannelType, CapacityKept
<1>2. /\ IsFiniteSet(chan[d].running) /\ Cardinality(chan[d].running) \in Nat
  BY <1>1, JobsFinite, FS_Subset, FS_CardinalityType
<1>3. CASE chan'[d].running \subseteq chan[d].running
  <2>1. /\ Cardinality(chan'[d].running) <= Cardinality(chan[d].running)
        /\ Cardinality(chan'[d].running) \in Nat
    BY <1>2, <1>3, FS_Subset, FS_CardinalityType
  <2> QED  BY <1>1, <1>2, <2>1
<1>4. ASSUME has_capacity(d), NEW j \in Jobs, chan'[d].running = chan[d].running \cup {j}
      PROVE  Cardinality(chan'[d].running) <= Capacity[d]
  <2>1. Cardinality(chan[d].running) < Capacity[d]  BY <1>1, <1>4 DEF has_capacity
  <2>2. Cardinality(chan'[d].running) <= Cardinality(chan[d].running) + 1
    <3>1. CASE j \in chan[d].running
      <4>1. chan'[d].running = chan[d].running  BY <1>4, <3>1
      <4> QED  BY <1>2, <4>1
    <3>2. CASE j \notin chan[d].running
      <4>1. Cardinality(chan[d].running \cup {j}) = Cardinality(chan[d].running) + 1
        BY <1>2, <3>2, FS_AddElement
      <4> QED  BY <1>2, <1>4, <4>1
    <3> QED  BY <3>1, <3>2
  <2>3. Cardinality(chan'[d].running) \in Nat
    <3>1. IsFiniteSet(chan[d].running \cup {j})  BY <1>2, FS_AddElement
    <3> QED  BY <1>4, <3>1, FS_CardinalityType
  <2> QED  BY <1>1, <1>2, <2>1, <2>2, <2>3
<1> QED  BY <1>3, <1>4, SlotsStep

-----------------------------------------------------------------------------
(* Wake-up times *)

\* The channels that were visited ask for nothing that is past: what was due has
\* been taken out of the eta queue, and the end of a past pause is forgotten.
Settled(c) ==
    /\ chan[c].pause # 0 => chan[c].pause > now
    /\ chan[c].pause = 0 /\ has_capacity(c) => \A j \in chan[c].eta : copy[j] > now

SettledInv == \A i \in 1..Len(Order) : i < visit => Settled(Order[i])

LEMMA SettledStep ==
    ASSUME TypeOK, \A j \in Jobs : Placed(chan, j), SettledInv, [Next]_vars
    PROVE  SettledInv'
<1> SUFFICES ASSUME NEW i \in 1..Len(Order), i < visit' PROVE Settled(Order[i])'
  BY DEF SettledInv
<1> DEFINE d == Order[i]
<1>1. Len(Order) \in Nat /\ d \in Channels  BY OrderType
<1>2. visit \in Nat /\ now \in Nat  BY DEF TypeOK
\* A visit of c leaves the others as they are.
<1>3. ASSUME NEW c \in Channels, d # c, Settled(d), now' = now,
             chan'[d].pause = chan[d].pause, chan'[d].eta = chan[d].eta,
             chan'[d].running = chan[d].running, chan'[d].failed = chan[d].failed,
             \A j \in Jobs \ Due(c, now) : copy'[j] = copy[j]
      PROVE  Settled(d)'
  <2>1. has_capacity(d)' = has_capacity(d)  BY <1>1, <1>3, CapacityFrame
  <2>2. \A j \in chan[d].eta : j \in Jobs /\ j \notin Due(c, now)
    <3> SUFFICES ASSUME NEW j \in chan[d].eta, j \in Due(c, now) PROVE FALSE
      BY <1>1 DEF TypeOK, ChannelType
    <3>1. j \in Jobs /\ j \in chan[c].eta  BY <1>1 DEF TypeOK, ChannelType, Due
    <3> QED  BY <1>1, <1>3, <3>1 DEF Placed, OnlyHome
  <2>3. \A j \in chan'[d].eta : copy'[j] = copy[j]  BY <1>3, <2>2
  <2> QED  BY <1>3, <2>1, <2>3 DEF Settled
<1>4. ASSUME NEW c \in Channels, Skip(c) PROVE Settled(d)'
  <2>1. /\ UNCHANGED <<chan, copy, now>> /\ visit' = visit + 1
        /\ c = Order[visit] /\ chan[c].pause # 0 /\ now < chan[c].pause
    BY <1>4 DEF Skip, Visited, Paused
  <2>2. Settled(d)  BY <1>1, <1>2, <2>1 DEF SettledInv, Settled, TypeOK, ChannelType
  <2>3. has_capacity(d)' = has_capacity(d)  BY <1>1, <2>1, CapacityFrame
  <2> QED  BY <2>1, <2>2, <2>3 DEF Settled
<1>5. ASSUME NEW c \in Channels, Leave(c) PROVE Settled(d)'
  <2>1. /\ visit' = visit + 1 /\ now' = now
        /\ Working /\ c = Order[visit]
    BY <1>5 DEF Leave, Visited
  <2>2. \A j \in Jobs \ Due(c, now) : copy'[j] = copy[j]  BY <1>5, CopyType DEF Leave
  <2>3. /\ \A e \in Channels : /\ chan'[e].running = chan[e].running
                               /\ chan'[e].failed = chan[e].failed
        /\ \A e \in Channels \ {c} : chan'[e] = chan[e]
        /\ chan'[c].pause = 0
        /\ has_capacity(c) => chan'[c].eta = Later(c, now)
    BY <1>5, LeaveChan DEF Ripens
  <2>4. CASE i = visit
    <3>1. d = c  BY <2>1, <2>4
    <3>2. has_capacity(c)' = has_capacity(c)  BY <2>3, CapacityFrame
    <3>3. has_capacity(c) => \A j \in chan'[c].eta : copy'[j] > now'
      <4> SUFFICES ASSUME has_capacity(c), NEW j \in Later(c, now) PROVE copy'[j] > now
        BY <2>1, <2>3
      <4>1. j \in Jobs /\ j \notin Due(c, now) /\ ~(copy[j] <= now) /\ copy[j] \in Nat
        BY DEF Later, Due, TypeOK, ChannelType
      <4> QED  BY <1>2, <2>2, <4>1
    <3> HIDE DEF d
    <3> QED  BY <2>3, <3>1, <3>2, <3>3 DEF Settled
  <2>5. CASE i # visit
    <3>1. Settled(d)  BY <1>1, <1>2, <2>1, <2>5 DEF SettledInv
    <3>2. d # c  BY <2>1, <2>5, OrderType DEF Working
    <3> QED  BY <1>1, <1>3, <2>1, <2>2, <2>3, <3>1, <3>2
  <2> QED  BY <2>4, <2>5
<1>6. ASSUME NEW c \in Channels, NEW j \in Jobs, Take(c, j) PROVE Settled(d)'
  <2>1. /\ visit' = (IF Throttle[c] > 0 THEN visit + 1 ELSE visit) /\ now' = now
        /\ Working /\ c = Order[visit]
    BY <1>6 DEF Take, Visited
  <2>2. \A k \in Jobs \ Due(c, now) : copy'[k] = copy[k]  BY <1>6, CopyType DEF Take
  <2>3. CASE i = visit
    <3>1. d = c /\ Throttle[c] > 0 /\ Throttle[c] \in Nat  BY <1>2, <2>1, <2>3, ConfigType
    <3>2. chan'[c].pause = now + Throttle[c]  BY <1>6, <3>1, TakeChan
    <3>3. chan'[c].pause > now' /\ chan'[c].pause # 0  BY <1>2, <2>1, <3>1, <3>2
    <3> HIDE DEF d
    <3> QED  BY <3>1, <3>3 DEF Settled
  <2>4. CASE i # visit
    <3>1. Settled(d)  BY <1>1, <1>2, <2>1, <2>4 DEF SettledInv
    <3>2. d # c  BY <2>1, <2>4, OrderType DEF Working
    <3>3. /\ chan'[d].pause = chan[d].pause /\ chan'[d].eta = chan[d].eta
          /\ chan'[d].running = chan[d].running /\ chan'[d].failed = chan[d].failed
      BY <1>1, <1>6, <3>2, TakeFields
    <3> QED  BY <1>1, <1>3, <2>1, <2>2, <3>1, <3>2, <3>3
  <2> QED  BY <2>3, <2>4
<1>7. CASE Unstirred
  <2>1. Settled(d)  BY <1>1, <1>7 DEF SettledInv, Unstirred
  <2>2. has_capacity(d)' = has_capacity(d)  BY <1>1, <1>7, CapacityFrame DEF Unstirred
  <2> QED  BY <1>7, <2>1, <2>2 DEF Settled, Unstirred
<1>8. StartRun \/ WakeUp \/ Restart \/ (\E j \in Jobs : ProcessNotification(j)) => visit' \in {0, 1}
  BY DEF StartRun, WakeUp, Restart, ProcessNotification
<1>9. visit' \in {0, 1} => FALSE  BY <1>1
<1> QED
  BY <1>4, <1>5, <1>6, <1>7, <1>8, <1>9, OutsideUnstirred DEF Next, RunnerNext

-----------------------------------------------------------------------------
(* Theorems *)

Inv == TypeOK /\ (\A j \in Jobs : Placed(chan, j)) /\ ActiveRun /\ CapacityKept /\ SettledInv

LEMMA InvHolds == Spec => []Inv
<1>1. Init => Inv
  <2> SUFFICES ASSUME Init PROVE CapacityKept /\ SettledInv
    BY InitChan DEF Inv
  <2>1. \A c \in Channels : chan[c].running = {}  BY DEF Init
  <2>2. CapacityKept
    <3>1. Cardinality({}) = 0  BY FS_EmptySet
    <3> QED  BY <2>1, <3>1, ConfigType DEF CapacityKept
  <2>3. visit = 0  BY DEF Init
  <2>4. SettledInv  BY <2>3, OrderType DEF SettledInv
  <2> QED  BY <2>2, <2>4
<1>2. Inv /\ [Next]_vars => Inv'
  BY TypeStep, PlaceStep, ActiveStep, CapacityStep, SettledStep DEF Inv
<1> QED  BY <1>1, <1>2, PTL DEF Spec

\* Every reachable state is well typed; etas of the runner's copies stay times.
THEOREM TypeCorrect == Spec => []TypeOK
BY InvHolds, PTL DEF Inv

\* No channel of the tree runs more jobs than it has capacity for, whatever the
\* tree, the capacities, the notifications, restarts and writes of others: the
\* runner takes slots only where has_capacity says so, and a notification or a
\* restart finds the active jobs running already (ActiveRun).
THEOREM CapacityRespected == Spec => []CapacityKept
BY InvHolds, PTL DEF Inv

\* A job has one place on its way to the root.
THEOREM PlaceUnique == Spec => []OnePlace
<1>1. Inv => OnePlace
  <2> SUFFICES ASSUME Inv, NEW j \in Jobs, NEW c \in Channels
               PROVE  /\ Disjoint(chan[c])
                      /\ c \notin Path[Home[j]] => ~Holds(chan[c], j)
                      /\ c # Home[j] => j \notin chan[c].eta \cup chan[c].failed
                      /\ c # Root /\ c \in Path[Home[j]] =>
                            (j \in chan[c].running <=>
                               j \in chan[Parent[c]].queue \cup chan[Parent[c]].running)
    BY DEF OnePlace
  <2>1. Disjoint(chan[c])
    <3>1. \A k \in Jobs : Apart(chan[c], k)  BY DEF Inv, Placed
    <3>2. chan[c] \in ChannelType  BY DEF Inv, TypeOK
    <3> QED  BY <3>1, <3>2 DEF Apart, Disjoint, ChannelType
  <2>2. /\ c \notin Path[Home[j]] => ~Holds(chan[c], j)
        /\ c # Home[j] => j \notin chan[c].eta \cup chan[c].failed
    BY DEF Inv, Placed, OnlyHome
  <2>3. ASSUME c # Root, c \in Path[Home[j]]
        PROVE  j \in chan[c].running <=> j \in chan[Parent[c]].queue \cup chan[Parent[c]].running
    <3>1. Parent[c] \in Path[Home[j]] /\ Parent[c] \in Path[c] /\ Parent[c] # c
      BY <2>3, HomePath, PathFacts
    <3> QED  BY <2>3, <3>1 DEF Inv, Placed, RunsBelow, KnownAbove
  <2> QED  BY <2>1, <2>2, <2>3
<1> QED  BY <1>1, InvHolds, PTL

\* The runner never goes to sleep with a wake-up time that is past, whatever the
\* tree, the throttles and the etas: it does not spin.
THEOREM NoSpin == Spec => []NoPerpetualWakeup
<1>1. Inv => NoPerpetualWakeup
  <2> SUFFICES ASSUME Inv, Asleep, NEW t \in WakeupTimes PROVE t > now
    BY DEF NoPerpetualWakeup
  <2>1. PICK c \in Channels : has_capacity(c) /\ t \in OwnTimes(c)
    BY PathFacts DEF WakeupTimes
  <2>2. PICK i \in 1..Len(Order) : Order[i] = c  BY OrderType
  <2>3. Settled(c)
    <3>1. i < visit  BY OrderType DEF Asleep
    <3> QED  BY <2>2, <3>1 DEF Inv, SettledInv
  <2> QED  BY <2>1, <2>3 DEF Settled, OwnTimes
<1> QED  BY <1>1, InvHolds, PTL

-----------------------------------------------------------------------------
(* The order of a sequential channel *)

LEMMA OneElement ==
    ASSUME NEW S, IsFiniteSet(S), Cardinality(S) <= 1, NEW j \in S, NEW k \in S
    PROVE  j = k
<1> SUFFICES ASSUME j # k PROVE FALSE  OBVIOUS
<1>1. /\ IsFiniteSet({j}) /\ Cardinality({j}) = 1  BY FS_Singleton
<1>2. /\ IsFiniteSet({j} \cup {k}) /\ Cardinality({j} \cup {k}) = 1 + 1
  BY <1>1, FS_AddElement
<1>3. Cardinality({j} \cup {k}) <= Cardinality(S)  BY FS_Subset
<1>4. Cardinality(S) \in Nat  BY FS_CardinalityType
<1> QED  BY <1>2, <1>3, <1>4

\* While the runner visits the channels, only the visit of c takes a slot of c.
LEMMA OnlyTakes ==
    ASSUME Inv, [Next]_vars, Working, NEW c \in Channels, NEW j,
           j \in chan'[c].running, j \notin chan[c].running
    PROVE  j \in Jobs /\ Take(c, j)
<1>1. ASSUME NEW d \in Channels, NEW k \in Jobs, Take(d, k) PROVE j = k /\ c = d
  <2>1. TypeOK  BY DEF Inv
  <2>2. /\ chan'[d].running = chan[d].running \cup {k}
        /\ \A e \in Channels \ {d} : chan'[e].running = chan[e].running
    BY <1>1, <2>1, TakeFields
  <2> QED  BY <2>2
<1>2. ASSUME NEW d \in Channels, Leave(d) PROVE FALSE
  BY <1>2, LeaveChan DEF Inv, Ripens
<1>3. ~Restart
  <2> SUFFICES ASSUME Restart PROVE FALSE  OBVIOUS
  <2>1. j \in Jobs /\ c \in Path[Home[j]] /\ row[j] \in Active  BY RestartChan DEF Inv
  <2> QED  BY <2>1 DEF Inv, ActiveRun, RunAll
<1>4. ~(StartRun \/ WakeUp \/ \E k \in Jobs : ProcessNotification(k))
  BY OrderType DEF StartRun, WakeUp, ProcessNotification, Working, Asleep
<1>5. ASSUME NEW d \in Channels, Skip(d) PROVE FALSE  BY <1>5 DEF Skip
<1> QED  BY <1>1, <1>2, <1>3, <1>4, <1>5, OutsideUnstirred DEF Next, RunnerNext, Unstirred

InOrder ==
    \A c \in Sequential, j \in Jobs :
        Working /\ j \in chan'[c].running \ chan[c].running
                /\ Cardinality(chan[c].eta) <= 1 =>
            \A k \in chan[c].queue \cup chan[c].eta : Key[j] <= Key[k]

\* A sequential channel with at most one job that has an eta starts its jobs in
\* the order of their keys, whatever the clock says: the head of the jobs that are
\* ready has the smallest key of them, and the one that is not ready holds it back.
THEOREM SequentialInOrder == Spec => SequentialOrder
<1>1. ASSUME Inv, [Next]_vars PROVE InOrder
  <2> SUFFICES ASSUME NEW c \in Sequential, NEW j \in Jobs, Working,
                      j \in chan'[c].running, j \notin chan[c].running,
                      Cardinality(chan[c].eta) <= 1,
                      NEW k \in chan[c].queue \cup chan[c].eta
               PROVE  Key[j] <= Key[k]
    BY DEF InOrder
  <2>1. c \in Channels /\ chan[c] \in ChannelType
    BY <1>1, ConfigType DEF Inv, TypeOK
  <2>2. j \in Poppable(c, now)  BY <1>1, <2>1, OnlyTakes DEF Take
  <2>3. k \in Jobs /\ Key[j] \in Nat /\ Key[k] \in Nat
    BY <2>1, JobsType DEF ChannelType
  <2>4. CASE k \in chan[c].queue \cup Due(c, now)
    BY <2>2, <2>4 DEF Poppable, IsFirst
  <2>5. CASE k \in Later(c, now)
    <3>1. IsFiniteSet(chan[c].eta)  BY <2>1, JobsFinite, FS_Subset DEF ChannelType
    <3>2. \A l \in Later(c, now) : l = k  BY <2>5, <3>1, OneElement DEF Later
    <3>3. IsSoonest(k, Later(c, now))  BY <2>3, <3>2 DEF IsSoonest
    <3>4. ~(Key[k] < Key[j])  BY <2>2, <2>5, <3>3 DEF Poppable, HeldBack
    <3> QED  BY <2>3, <3>4
  <2> QED  BY <2>4, <2>5 DEF Later
<1>2. Inv /\ [Next]_vars => [InOrder]_vars  BY <1>1
<1> QED  BY <1>2, InvHolds, PTL DEF Spec, SequentialOrder, InOrder

-----------------------------------------------------------------------------
(* What the channels would offer *)

LEMMA Smallest ==
    ASSUME NEW S \in SUBSET Nat, S # {}
    PROVE  \E a \in S : \A c \in S : a <= c
<1>1. PICK R : IsWellFoundedOn(R, Nat) /\ \A b, c \in Nat : b < c => <<b, c>> \in R
  <2>1. IsWellFoundedOn(OpToRel(<, Nat), Nat)  BY NatLessThanWellFounded
  <2>2. \A b, c \in Nat : b < c => <<b, c>> \in OpToRel(<, Nat)  BY DEF OpToRel
  <2> QED  BY <2>1, <2>2, Zenon
<1>2. PICK a \in S : \A c \in S : <<c, a>> \notin R
  <2>1. IsWellFoundedOn(R, Nat) /\ S \subseteq Nat /\ S # {}  BY <1>1
  <2>2. \E a \in S : \A c \in S : ~(<<c, a>> \in R)  BY <2>1, WFMin, Zenon
  <2> QED  BY <2>2
<1>3. \A c \in S : ~(c < a)  BY <1>1, <1>2
<1> QED  BY <1>3

\* Children are visited before their parent, and are one step further from the root.
LEMMA ChildFacts ==
    ASSUME NEW i \in 1..Len(Order), NEW d \in Children(Order[i])
    PROVE  /\ d \in Channels /\ d # Root /\ Path[d] = {d} \cup Path[Order[i]]
           /\ \E k \in 1..Len(Order) : Order[k] = d /\ k < i
<1>1. d \in Channels /\ d # Root /\ Parent[d] = Order[i]  BY DEF Children
<1>2. Path[d] = {d} \cup Path[Order[i]] /\ Parent[d] # d  BY <1>1, TreeType, PathFacts
<1>3. PICK k \in 1..Len(Order) : Order[k] = d  BY <1>1, OrderType
<1>4. k <= i /\ k # i  BY <1>1, <1>2, <1>3, OrderType
<1>5. k < i  BY <1>4, OrderType
<1> QED  BY <1>1, <1>2, <1>3, <1>5

\* What c offers when its children offer g.
OfferAt(g, c) ==
    LET ready == chan[c].queue \cup Due(c, clock) \cup UNION {g[d] : d \in Children(c)}
    IN IF Paused(c, clock) \/ ~has_capacity(c) THEN {}
       ELSE {j \in ready : IsFirst(j, ready) /\ ~HeldBack(c, j, clock)}

LEMMA OfferAtFrame ==
    ASSUME NEW g, NEW h, NEW c, \A d \in Children(c) : g[d] = h[d]
    PROVE  OfferAt(g, c) = OfferAt(h, c)
<1>1. {g[d] : d \in Children(c)} = {h[d] : d \in Children(c)}  OBVIOUS
<1> QED  BY <1>1 DEF OfferAt

LEMMA OfferAtType ==
    ASSUME TypeOK, NEW g \in [Channels -> SUBSET Jobs], NEW c \in Channels
    PROVE  OfferAt(g, c) \in SUBSET Jobs
<1> DEFINE u == UNION {g[d] : d \in Children(c)}
           ready == chan[c].queue \cup Due(c, clock) \cup u
<1>1. u \subseteq Jobs  BY DEF Children
<1>2. chan[c].queue \subseteq Jobs /\ Due(c, clock) \subseteq Jobs
  BY DEF TypeOK, ChannelType, Due
<1>3. OfferAt(g, c) \subseteq ready  BY DEF OfferAt
<1> QED  BY <1>1, <1>2, <1>3

\* The recursion of Offer is well-founded: it can be answered for the first n
\* channels of Order, whatever n.
LEMMA OfferDefined ==
    ASSUME TypeOK
    PROVE  \E g \in [Channels -> SUBSET Jobs] : \A c \in Channels : g[c] = OfferAt(g, c)
<1> DEFINE Solves(n, g) == \A i \in 1..Len(Order) : i <= n => g[Order[i]] = OfferAt(g, Order[i])
           Open == {n \in Nat : ~\E g \in [Channels -> SUBSET Jobs] : Solves(n, g)}
<1>1. Len(Order) \in Nat /\ \A i \in 1..Len(Order) : Order[i] \in Channels  BY OrderType
<1>2. Open = {}
  <2> SUFFICES ASSUME Open # {} PROVE FALSE  OBVIOUS
  <2>1. PICK n \in Open : \A k \in Open : n <= k  BY Smallest
  <2>2. n # 0
    <3> DEFINE g == [c \in Channels |-> {}]
    <3>1. g \in [Channels -> SUBSET Jobs]  OBVIOUS
    <3>2. Solves(0, g)  BY <1>1
    <3> QED  BY <2>1, <3>1, <3>2
  <2>3. n \in Nat /\ n - 1 \in Nat /\ n - 1 \notin Open
    <3>1. n \in Nat /\ \A k \in Open : n <= k  BY <2>1
    <3> HIDE DEF Open
    <3>2. n - 1 \in Nat  BY <2>2, <3>1
    <3>3. ~(n <= n - 1)  BY <3>1
    <3> QED  BY <3>1, <3>2, <3>3
  <2>4. PICK g \in [Channels -> SUBSET Jobs] : Solves(n - 1, g)  BY <2>3
  <2>5. CASE n \notin 1..Len(Order)
    <3>1. Solves(n, g)
      <4> SUFFICES ASSUME NEW i \in 1..Len(Order), i <= n PROVE i <= n - 1  BY <2>4
      <4> QED  BY <1>1, <2>3, <2>5
    <3> QED  BY <2>1, <3>1
  <2>6. CASE n \in 1..Len(Order)
    <3> DEFINE c == Order[n]
               h == [g EXCEPT ![c] = OfferAt(g, c)]
    <3>1. c \in Channels  BY <1>1, <2>6
    <3>2. h \in [Channels -> SUBSET Jobs]  BY <3>1, OfferAtType
    <3>3. h[c] = OfferAt(g, c) /\ \A d \in Channels \ {c} : h[d] = g[d]  BY <3>1
    <3> HIDE DEF h
    <3>4. ASSUME NEW i \in 1..Len(Order), i <= n PROVE h[Order[i]] = OfferAt(h, Order[i])
      <4>1. ASSUME NEW d \in Children(Order[i]) PROVE h[d] = g[d]
        <5>1. PICK k \in 1..Len(Order) : Order[k] = d /\ k < i  BY ChildFacts
        <5>2. k # n  BY <1>1, <2>3, <3>4, <5>1
        <5>3. d # c /\ d \in Channels  BY <1>1, <2>6, <5>1, <5>2, OrderType
        <5> QED  BY <3>3, <5>3
      <4>2. OfferAt(h, Order[i]) = OfferAt(g, Order[i])  BY <4>1, OfferAtFrame
      <4>3. CASE i = n  BY <3>3, <4>2, <4>3
      <4>4. CASE i # n
        <5>1. i <= n - 1  BY <1>1, <2>3, <3>4, <4>4
        <5>2. Order[i] # c /\ Order[i] \in Channels  BY <1>1, <2>6, <4>4, OrderType
        <5> QED  BY <2>4, <3>3, <4>2, <5>1, <5>2
      <4> QED  BY <4>3, <4>4
    <3>5. Solves(n, h)  BY <3>4
    <3> QED  BY <2>1, <3>2, <3>5
  <2> QED  BY <2>5, <2>6
<1>3. PICK g \in [Channels -> SUBSET Jobs] : Solves(Len(Order), g)  BY <1>1, <1>2
<1>4. \A c \in Channels : g[c] = OfferAt(g, c)  BY <1>1, <1>3, OrderType
<1> QED  BY <1>4

LEMMA OfferEquation ==
    ASSUME TypeOK, NEW c \in Channels
    PROVE  Offer[c] = OfferAt(Offer, c)
<1>1. PICK g \in [Channels -> SUBSET Jobs] : \A d \in Channels : g[d] = OfferAt(g, d)
  BY OfferDefined
<1>2. g = [d \in Channels |-> OfferAt(g, d)]  BY <1>1
<1>3. Offer = CHOOSE f : f = [d \in Channels |-> OfferAt(f, d)]  BY DEF Offer, OfferAt
<1>4. Offer = [d \in Channels |-> OfferAt(Offer, d)]
  <2> DEFINE Fix(f) == f = [d \in Channels |-> OfferAt(f, d)]
  <2>1. Fix(g)  BY <1>2
  <2>2. Offer = CHOOSE f : Fix(f)  BY <1>3
  <2> HIDE DEF Fix
  <2>3. Fix(Offer)  BY <2>1, <2>2
  <2> QED  BY <2>3 DEF Fix
<1> QED  BY <1>4

-----------------------------------------------------------------------------
(* Missed wake-ups *)

\* A channel that was visited has given all it could give at the time of the visit.
Drained(c) == chan[c].pause # 0 \/ ~has_capacity(c) \/ Poppable(c, now) = {}

WakeInv ==
    /\ now <= clock
    /\ \A c \in Channels : chan[c].pause # 0 => Throttle[c] > 0
    /\ \A i \in 1..Len(Order) : i < visit => Drained(Order[i])

\* What a channel can pop depends on its jobs and on the copies of those with an eta.
LEMMA PoppableFrame ==
    ASSUME NEW c \in Channels, now' = now,
           chan'[c].queue = chan[c].queue, chan'[c].eta = chan[c].eta,
           \A j \in chan[c].eta : copy'[j] = copy[j]
    PROVE  Poppable(c, now)' = Poppable(c, now)
<1>1. Due(c, now)' = Due(c, now)  BY DEF Due
<1>2. Later(c, now)' = Later(c, now)  BY <1>1 DEF Later
<1>3. \A k \in Later(c, now) : IsSoonest(k, Later(c, now))' <=> IsSoonest(k, Later(c, now))
  BY <1>2 DEF Later, IsSoonest
<1>4. \A j : HeldBack(c, j, now)' <=> HeldBack(c, j, now)  BY <1>2, <1>3 DEF HeldBack
<1> QED  BY <1>1, <1>4 DEF Poppable

\* It does not change when the due jobs lose their eta.
LEMMA PoppableRipe ==
    ASSUME NEW c \in Channels, now' = now,
           chan'[c].queue = chan[c].queue \cup Due(c, now), chan'[c].eta = Later(c, now),
           \A j \in Later(c, now) : copy'[j] = copy[j]
    PROVE  Poppable(c, now)' = Poppable(c, now)
<1>1. Due(c, now)' = {}  BY DEF Due, Later
<1>2. Later(c, now)' = Later(c, now)
  <2>1. Later(c, now)' = chan'[c].eta \ Due(c, now)'  BY DEF Later
  <2> QED  BY <1>1, <2>1
<1>3. \A k \in Later(c, now) : IsSoonest(k, Later(c, now))' <=> IsSoonest(k, Later(c, now))
  BY <1>2 DEF IsSoonest
<1>4. \A j : HeldBack(c, j, now)' <=> HeldBack(c, j, now)  BY <1>2, <1>3 DEF HeldBack
<1>5. chan'[c].queue \cup Due(c, now)' = chan[c].queue \cup Due(c, now)  BY <1>1
<1>6. Poppable(c, now)' = {j \in chan'[c].queue \cup Due(c, now)' :
                             /\ IsFirst(j, chan'[c].queue \cup Due(c, now)')
                             /\ ~HeldBack(c, j, now)'}
  BY DEF Poppable, IsFirst
<1> QED  BY <1>4, <1>5, <1>6 DEF Poppable

LEMMA DrainedFrame ==
    ASSUME NEW c \in Channels, Drained(c), now' = now,
           chan'[c].pause = chan[c].pause, chan'[c].queue = chan[c].queue,
           chan'[c].eta = chan[c].eta, chan'[c].running = chan[c].running,
           chan'[c].failed = chan[c].failed, \A j \in chan[c].eta : copy'[j] = copy[j]
    PROVE  Drained(c)'
BY CapacityFrame, PoppableFrame DEF Drained

\* A notification leaves the pauses alone.
LEMMA PauseKept ==
    ASSUME chan \in [Channels -> ChannelType], NEW j \in Jobs, NEW e, row[j] \in Rows,
           NEW c \in Channels
    PROVE  notify(j, row[j], e)[c].pause = chan[c].pause
<1>1. ASSUME NEW rec \in ChannelType
      PROVE  Without(rec, j).pause = rec.pause /\ Added(rec, j, e).pause = rec.pause
  BY DEF Without, Added, ChannelType
<1>2. ASSUME NEW m \in [Channels -> ChannelType]
      PROVE  /\ Removed(m, j) \in [Channels -> ChannelType]
             /\ Removed(m, j)[c].pause = m[c].pause
             /\ set_pending(m, j, e)[c].pause = m[c].pause
             /\ set_running(m, j)[c].pause = m[c].pause
             /\ set_failed(m, j)[c].pause = m[c].pause
  <2> DEFINE r == Removed(m, j)
  <2>1. r \in [Channels -> ChannelType]  BY RemovedFacts DEF Moves
  <2>2. r[c].pause = m[c].pause  BY <1>1 DEF Removed
  <2>3. \/ set_pending(m, j, e) = m
        \/ set_pending(m, j, e) = [r EXCEPT ![Home[j]] = Added(@, j, e)]
    BY DEF set_pending
  <2>4. \/ set_failed(m, j) = m
        \/ set_failed(m, j) = [r EXCEPT ![Home[j]].failed = @ \cup {j}]
    BY DEF set_failed
  <2>5. set_running(m, j)[c].pause = m[c].pause
    <3>1. Without(m[c], j) \in ChannelType /\ Without(m[c], j).pause = m[c].pause
      BY <1>1, WithoutFacts
    <3>2. \/ set_running(m, j)[c] = m[c]
          \/ set_running(m, j)[c] = [Without(m[c], j) EXCEPT !.running = @ \cup {j}]
      BY DEF set_running
    <3> QED  BY <3>1, <3>2 DEF ChannelType
  <2> HIDE DEF r
  <2>6. set_pending(m, j, e)[c].pause = m[c].pause
    <3> DEFINE add == Added(r[Home[j]], j, e)
    <3>1. add.pause = r[Home[j]].pause  BY <1>1, <2>1, HomePath
    <3>2. CASE set_pending(m, j, e) = [r EXCEPT ![Home[j]] = add]
      <4> HIDE DEF add
      <4> QED  BY <2>1, <2>2, <3>1, <3>2, HomePath
    <3> QED  BY <2>3, <3>2
  <2>7. set_failed(m, j)[c].pause = m[c].pause
    BY <2>1, <2>2, <2>4, HomePath DEF ChannelType
  <2> QED  BY <2>1, <2>2, <2>5, <2>6, <2>7 DEF r
<1> DEFINE m == IF e # copy[j] THEN Removed(chan, j) ELSE chan
           n == notify(j, row[j], e)
<1>3. m \in [Channels -> ChannelType] /\ m[c].pause = chan[c].pause  BY <1>2
<1>4. \/ n = Removed(m, j) \/ n = set_pending(m, j, e) \/ n = set_running(m, j)
      \/ n = set_failed(m, j) \/ n = m
  BY DEF notify, Rows, Active
<1> HIDE DEF m, n
<1>5. n[c].pause = chan[c].pause  BY <1>2, <1>3, <1>4
<1> QED  BY <1>5 DEF n

LEMMA WakeStep ==
    ASSUME Inv, WakeInv, [Next]_vars PROVE WakeInv'
<1> USE DEF WakeInv
<1>1. /\ TypeOK /\ chan \in [Channels -> ChannelType]
      /\ visit \in Nat /\ now \in Nat /\ clock \in Nat
      /\ \A j \in Jobs : Placed(chan, j) /\ row[j] \in Rows
  BY DEF Inv, TypeOK
<1>2. now' <= clock'
  <2>1. \/ \E j \in Jobs : ProcessNotification(j)
        \/ \E c \in Channels : Skip(c) \/ Leave(c) \/ \E j \in Jobs : Take(c, j)
        \/ WakeUp \/ Restart
        \/ \E j \in Jobs, s \in Rows, e \in Etas : WriteRow(j, s, e)
        \/ UNCHANGED vars
        => UNCHANGED <<now, clock>>
    BY DEF ProcessNotification, Skip, Leave, Take, WakeUp, Restart, WriteRow, vars, runner
  <2>2. StartRun => now' = clock /\ clock' = clock  BY DEF StartRun
  <2>3. Tick => now' = now /\ clock' = clock + 1  BY DEF Tick, runner
  <2> QED  BY <1>1, <2>1, <2>2, <2>3 DEF Next, RunnerNext
<1>3. ASSUME NEW d \in Channels, chan'[d].pause # 0 PROVE Throttle[d] > 0
  <2>1. Throttle[d] \in Nat  BY ConfigType
  <2>2. ASSUME NEW j \in Jobs, ProcessNotification(j) PROVE chan'[d].pause = chan[d].pause
    BY <1>1, <2>2, PauseKept DEF ProcessNotification
  <2>3. ASSUME NEW c \in Channels, Leave(c) PROVE chan'[d].pause \in {0, chan[d].pause}
    BY <1>1, <2>3, LeaveChan
  <2>4. ASSUME NEW c \in Channels, NEW j \in Jobs, Take(c, j), Throttle[d] = 0
        PROVE  chan'[d].pause = chan[d].pause
    <3>1. /\ chan'[c].pause = IF Throttle[c] > 0 THEN now + Throttle[c] ELSE chan[c].pause
          /\ d # c => chan'[d].pause = chan[d].pause
      BY <1>1, <2>4, TakeChan
    <3> QED  BY <2>4, <3>1
  <2>5. Restart => chan'[d].pause = chan[d].pause  BY DEF Restart
  <2>6. StartRun \/ WakeUp \/ (\E c \in Channels : Skip(c)) => UNCHANGED chan
    BY DEF StartRun, WakeUp, Skip
  <2> QED
    BY <1>3, <2>1, <2>2, <2>3, <2>4, <2>5, <2>6, OutsideUnstirred
    DEF Next, RunnerNext, Unstirred
<1>4. ASSUME NEW i \in 1..Len(Order), i < visit' PROVE Drained(Order[i])'
  <2> DEFINE d == Order[i]
  <2>1. Len(Order) \in Nat /\ d \in Channels  BY OrderType
  <2>2. ASSUME NEW c \in Channels PROVE c # d => chan[d].eta \cap Due(c, now) = {}
    <3> SUFFICES ASSUME NEW j \in chan[d].eta, j \in Due(c, now), c # d PROVE FALSE
      OBVIOUS
    <3>1. j \in Jobs /\ j \in chan[c].eta  BY <1>1, <2>1 DEF ChannelType, Due
    <3> QED  BY <1>1, <2>1, <3>1 DEF Placed, OnlyHome
  <2>3. ASSUME NEW c \in Channels, Skip(c) PROVE Drained(d)'
    <3>1. /\ UNCHANGED <<chan, copy, now>> /\ visit' = visit + 1
          /\ c = Order[visit] /\ chan[c].pause # 0
      BY <2>3 DEF Skip, Visited, Paused
    <3>2. i < visit \/ i = visit  BY <1>1, <1>4, <2>1, <3>1
    <3>3. Drained(d)  BY <3>1, <3>2 DEF Drained
    <3> HIDE DEF d
    <3> QED  BY <2>1, <3>1, <3>3, DrainedFrame
  <2>4. ASSUME NEW c \in Channels, Leave(c) PROVE Drained(d)'
    <3>1. /\ visit' = visit + 1 /\ now' = now /\ Working /\ c = Order[visit]
      BY <2>4 DEF Leave, Visited
    <3>2. CASE i = visit
      <4>1. d = c  BY <3>1, <3>2
      <4>2. chan'[c].running = chan[c].running /\ chan'[c].failed = chan[c].failed
        BY <1>1, <2>4, LeaveChan DEF Ripens
      <4>3. has_capacity(c)' = has_capacity(c)  BY <4>2, CapacityFrame
      <4>4. ASSUME has_capacity(c) PROVE Poppable(c, now)' = {}
        <5>1. /\ Poppable(c, now) = {} /\ TakeDue(c)
              /\ chan' = [chan EXCEPT ![c].queue = @ \cup Due(c, now),
                                      ![c].eta = Later(c, now), ![c].pause = 0]
          BY <2>4, <4>4 DEF Leave
        <5>2. /\ chan'[c].queue = chan[c].queue \cup Due(c, now)
              /\ chan'[c].eta = Later(c, now)
          BY <1>1, <5>1 DEF ChannelType
        <5>3. \A j \in Later(c, now) : copy'[j] = copy[j]
          BY <1>1, <5>1, CopyType DEF Later, ChannelType
        <5>4. Poppable(c, now)' = Poppable(c, now)  BY <3>1, <5>2, <5>3, PoppableRipe
        <5> QED  BY <5>1, <5>4
      <4> HIDE DEF d
      <4> QED  BY <4>1, <4>3, <4>4 DEF Drained
    <3>3. CASE i # visit
      <4>1. d # c  BY <2>1, <3>1, <3>3, OrderType DEF Working
      <4>2. Drained(d)  BY <1>1, <1>4, <2>1, <3>1, <3>3
      <4>3. chan'[d] = chan[d]  BY <1>1, <2>1, <2>4, <4>1, LeaveChan
      <4>4. \A j \in chan[d].eta : copy'[j] = copy[j]
        BY <1>1, <2>1, <2>2, <2>4, <4>1, CopyType DEF Leave, ChannelType
      <4> HIDE DEF d
      <4> QED  BY <2>1, <3>1, <4>2, <4>3, <4>4, DrainedFrame
    <3> QED  BY <3>2, <3>3
  <2>5. ASSUME NEW c \in Channels, NEW j \in Jobs, Take(c, j) PROVE Drained(d)'
    <3>1. /\ visit' = (IF Throttle[c] > 0 THEN visit + 1 ELSE visit) /\ now' = now
          /\ Working /\ c = Order[visit] /\ Throttle[c] \in Nat
      BY <2>5, ConfigType DEF Take, Visited
    <3>2. CASE i = visit
      <4>1. d = c /\ Throttle[c] > 0  BY <1>1, <1>4, <3>1, <3>2
      <4>2. chan'[c].pause = now + Throttle[c]  BY <1>1, <2>5, <4>1, TakeChan
      <4>3. chan'[c].pause # 0  BY <1>1, <3>1, <4>1, <4>2
      <4> HIDE DEF d
      <4> QED  BY <4>1, <4>3 DEF Drained
    <3>3. CASE i # visit
      <4>1. i < visit  BY <1>1, <1>4, <2>1, <3>1, <3>3
      <4>2. d # c /\ Drained(d)  BY <2>1, <3>1, <4>1, OrderType DEF Working
      <4>3. d # Parent[c]
        <5>1. d = Parent[c] => visit <= i  BY <3>1, OrderType DEF Working
        <5> QED  BY <1>1, <2>1, <4>1, <5>1
      <4>4. chan'[d] = chan[d]
        <5>1. chan'[d] = IF d = c THEN chan'[c]
                         ELSE IF d = Parent[c] THEN [chan[d] EXCEPT !.queue = @ \cup {j}]
                         ELSE chan[d]
          BY <2>1, <2>5, <4>2 DEF Take
        <5> QED  BY <4>2, <4>3, <5>1
      <4>5. \A k \in chan[d].eta : copy'[k] = copy[k]
        BY <1>1, <2>1, <2>2, <2>5, <4>2, CopyType DEF Take, ChannelType
      <4> HIDE DEF d
      <4> QED  BY <2>1, <3>1, <4>2, <4>4, <4>5, DrainedFrame
    <3> QED  BY <3>2, <3>3
  <2>6. CASE Unstirred
    <3>1. chan' = chan /\ copy' = copy /\ visit' = visit /\ now' = now
      BY <2>6 DEF Unstirred
    <3>2. Drained(d)  BY <1>4, <3>1
    <3>3. Drained(d)'
      <4> HIDE DEF d
      <4> QED  BY <2>1, <3>1, <3>2, DrainedFrame
    <3> QED  BY <3>3
  <2>7. StartRun \/ WakeUp \/ Restart \/ (\E j \in Jobs : ProcessNotification(j)) => visit' \in {0, 1}
    BY DEF StartRun, WakeUp, Restart, ProcessNotification
  <2>8. visit' \in {0, 1} => FALSE  BY <1>4, <2>1
  <2> QED
    BY <2>3, <2>4, <2>5, <2>6, <2>7, <2>8, OutsideUnstirred DEF Next, RunnerNext
<1> QED  BY <1>2, <1>3, <1>4

\* The runner does not oversleep, for any tree, throttles and etas: when a job
\* could run although nothing was notified, the wake-up time has come.  A channel
\* that offers a job, the channels below it offering none, and all those above it
\* being ready, is asked for its time; it was drained when it was visited, so its
\* pause has ended or an eta has come due since then.
THEOREM NoOversleep == Spec => []NoMissedWakeup
<1>1. Init => WakeInv
  BY OrderType DEF Init, WakeInv
<1>2. ASSUME Inv, WakeInv PROVE NoMissedWakeup
  <2> SUFFICES ASSUME Asleep, Offer[Root] # {} PROVE \E t \in WakeupTimes : t <= clock
    BY DEF NoMissedWakeup
  <2>1. TypeOK /\ now \in Nat /\ clock \in Nat /\ copy \in [Jobs -> Nat]
        /\ now <= clock /\ Len(Order) \in Nat
    BY <1>2, OrderType DEF Inv, TypeOK, WakeInv
  <2> DEFINE Open(d) == has_capacity(d) /\ chan[d].pause = 0
             S == {i \in 1..Len(Order) : /\ Offer[Order[i]] # {}
                                         /\ \A d \in Path[Order[i]] \ {Order[i]} : Open(d)}
  <2>2. PICK i \in S : \A k \in S : i <= k
    <3>1. PICK k \in 1..Len(Order) : Order[k] = Root  BY TreeType, OrderType
    <3>2. Path[Root] \ {Root} = {}  BY TreeType
    <3>3. k \in S  BY <3>1, <3>2
    <3>4. S \in SUBSET Nat  BY <2>1
    <3> HIDE DEF S
    <3> QED  BY <3>3, <3>4, Smallest
  <2> DEFINE c == Order[i]
  <2>3. /\ i \in 1..Len(Order) /\ c \in Channels
        /\ Offer[c] # {} /\ \A d \in Path[c] \ {c} : Open(d)
    BY <2>2, OrderType
  <2>4. Offer[c] = OfferAt(Offer, c)  BY <2>1, <2>3, OfferEquation
  <2>5. ~Paused(c, clock) /\ has_capacity(c)  BY <2>3, <2>4 DEF OfferAt
  <2>6. OwnTimes(c) \subseteq WakeupTimes
    <3>1. \A d \in Path[c] : has_capacity(d) /\ (d # c => chan[d].pause = 0)
      BY <2>3, <2>5
    <3> QED  BY <2>3, <3>1 DEF WakeupTimes
  <2>7. CASE chan[c].pause # 0
    <3>1. chan[c].pause \in Nat  BY <2>1, <2>3 DEF TypeOK, ChannelType
    <3>2. Throttle[c] > 0  BY <1>2, <2>3, <2>7 DEF WakeInv
    <3>3. chan[c].pause <= clock  BY <2>1, <2>5, <2>7, <3>1, <3>2 DEF Paused
    <3> QED  BY <2>6, <2>7, <3>3 DEF OwnTimes
  <2>8. CASE chan[c].pause = 0
    <3>1. \A d \in Children(c) : Offer[d] = {}
      <4> SUFFICES ASSUME NEW d \in Children(c), Offer[d] # {} PROVE FALSE  OBVIOUS
      <4>1. PICK k \in 1..Len(Order) : Order[k] = d /\ k < i  BY <2>3, ChildFacts
      <4>2. Path[d] = {d} \cup Path[c]  BY <2>3, ChildFacts
      <4>3. \A e \in Path[d] \ {d} : Open(e)  BY <2>3, <2>5, <2>8, <4>2
      <4>4. k \in S  BY <4>1, <4>3
      <4>5. i <= k  BY <2>2, <4>4
      <4> QED  BY <2>1, <2>3, <4>1, <4>5
    <3>2. Poppable(c, clock) # {}
      <4>1. UNION {Offer[d] : d \in Children(c)} = {}  BY <3>1
      <4> DEFINE ready == chan[c].queue \cup Due(c, clock)
      <4>2. chan[c].queue \cup Due(c, clock) \cup UNION {Offer[d] : d \in Children(c)} = ready
        BY <4>1
      <4>3. OfferAt(Offer, c) = {j \in ready : IsFirst(j, ready) /\ ~HeldBack(c, j, clock)}
        BY <2>5, <4>2 DEF OfferAt
      <4> QED  BY <2>3, <2>4, <4>3 DEF Poppable
    <3>3. Poppable(c, now) = {}
      <4>1. i < visit  BY <2>1, <2>3 DEF Asleep
      <4>2. Drained(c)  BY <1>2, <2>3, <4>1 DEF WakeInv
      <4> QED  BY <2>5, <2>8, <4>2 DEF Drained
    <3>4. PICK j \in chan[c].eta : copy[j] <= clock
      <4> SUFFICES ASSUME \A j \in chan[c].eta : ~(copy[j] <= clock) PROVE FALSE
        OBVIOUS
      <4>1. \A j \in chan[c].eta : copy[j] \in Nat
        BY <2>1, <2>3 DEF TypeOK, ChannelType
      <4>2. Due(c, clock) = {} /\ Due(c, now) = {}  BY <2>1, <4>1 DEF Due
      <4>3. Later(c, clock) = Later(c, now)  BY <4>2 DEF Later
      <4>4. Poppable(c, clock) = Poppable(c, now)
        BY <4>2, <4>3 DEF Poppable, HeldBack
      <4> QED  BY <3>2, <3>3, <4>4
    <3> QED  BY <2>6, <2>8, <3>4 DEF OwnTimes
  <2> QED  BY <2>7, <2>8
<1>3. Inv /\ WakeInv /\ [Next]_vars => WakeInv'  BY WakeStep
<1> QED  BY <1>1, <1>2, <1>3, InvHolds, PTL DEF Spec
=============================================================================
