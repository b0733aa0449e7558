---------------------------- MODULE TimelineProofs ----------------------------
(* Proofs about Timeline, for any number of records, places and operations of  *)
(* the user.                                                                   *)
EXTENDS Timeline, TLAPS, WellFoundedInduction

-----------------------------------------------------------------------------
(* The invariant *)

\* The numbers of the calls have a greatest one.
IdsBounded == \E n \in Nat : \A c \in calls : c.id <= n

\* Each batch has at least one move of its own.
BatchesUsed == batches + Len(moveQueue) <= uses /\ uses <= MaxUses

CallKnown(c) == c.batch <= batches /\ (c.kind = "write" => c.batch # 0 /\ c.item \in Records)

\* The read after a batch is sent when no write of the batch is left, and what it
\* has read is at least as new as all of them.
AfterWrites(c) ==
    c.kind \in {"read", "names"} /\ c.batch # 0 =>
        /\ \A d \in calls : d.kind = "write" => d.batch # c.batch
        /\ c.kind = "names" \/ c.state = "ok" => c.version >= reached[c.batch]

CallsInv == IdsBounded /\ \A c \in calls : CallKnown(c) /\ AfterWrites(c)

Unhandled == {c \in calls : c.kind = "write" /\ c.state = "sent"}

\* Of a record that is not contested, all writes that the server has not handled
\* are the one that the user wants, and there is one unless it has arrived.
Wanted(i) ==
    /\ \A c \in Unhandled : c.item = i => c.place = wanted[i]
    /\ \A n \in DOMAIN moveQueue : moveQueue[n].item = i => moveQueue[n].place = wanted[i]
    /\ \/ server[i] \in {NoPlace, wanted[i]}
       \/ \E c \in Unhandled : c.item = i
       \/ \E n \in DOMAIN moveQueue : moveQueue[n].item = i

MovesInv == \A i \in Records \ contested : Wanted(i)

Inv ==
    /\ TypeOK
    /\ BatchesUsed
    /\ \A b \in Batches : reached[b] <= version
    /\ CallsInv
    /\ MovesInv

-----------------------------------------------------------------------------
(* The numbers of calls *)

\* "<" is well-founded: a set of numbers has a least one.
LEMMA Smallest ==
    ASSUME NEW S \in SUBSET Nat, S # {}
    PROVE  \E a \in S : \A c \in S : a <= c
<1>1. PICK R : IsWellFoundedOn(R, Nat) /\ \A b, c \in Nat : b < c => <<b, c>> \in R
  <2>1. IsWellFoundedOn(OpToRel(<, Nat), Nat)  BY NatLessThanWellFounded
  <2>2. \A b, c \in Nat : b < c => <<b, c>> \in OpToRel(<, Nat)  BY DEF OpToRel
  <2> QED  BY <2>1, <2>2, Zenon
<1>2. PICK a \in S : \A c \in S : <<c, a>> \notin R
  <2>1. IsWellFoundedOn(R, Nat) /\ S \subseteq Nat /\ S # {}  BY <1>1
  <2>2. \E a \in S : \A c \in S : ~(<<c, a>> \in R)  BY <2>1, WFMin, Zenon
  <2> QED  BY <2>2
<1>3. \A c \in S : ~(c < a)  BY <1>1, <1>2
<1> QED  BY <1>3

\* A bounded set of numbers has a greatest one: the least bound is in it.
LEMMA MaxOfBounded ==
    ASSUME NEW S \in SUBSET Nat, S # {}, NEW n \in Nat, \A k \in S : k <= n
    PROVE  Max(S) \in S /\ \A k \in S : k <= Max(S)
<1> DEFINE Bounds == {b \in Nat : \A k \in S : k <= b}
<1>1. PICK b \in Bounds : \A c \in Bounds : b <= c
  <2>1. Bounds \in SUBSET Nat /\ Bounds # {}  OBVIOUS
  <2> HIDE DEF Bounds
  <2> QED  BY <2>1, Smallest
<1>2. b \in S
  <2>1. SUFFICES ASSUME b \notin S PROVE FALSE  OBVIOUS
  <2>2. \A k \in S : k <= b - 1  BY <2>1
  <2>3. PICK k \in S : k \in Nat /\ k <= b - 1  BY <2>2
  <2>4. b - 1 \in Nat  BY <2>3
  <2> QED  BY <1>1, <2>2, <2>4
<1>3. \E x \in S : \A y \in S : x >= y  BY <1>2
<1>4. Max(S) \in S /\ \A y \in S : Max(S) >= y  BY <1>3 DEF Max
<1> QED  BY <1>4

LEMMA MaxOfTwo ==
    ASSUME NEW a \in Nat, NEW b \in Nat
    PROVE  Max({a, b}) \in {a, b} /\ Max({a, b}) \in Nat /\ a <= Max({a, b}) /\ b <= Max({a, b})
<1> DEFINE S == {a, b}
<1>1. a + b \in Nat /\ \A k \in S : k <= a + b  OBVIOUS
<1>2. S \in SUBSET Nat /\ S # {} /\ a \in S /\ b \in S  OBVIOUS
<1> HIDE DEF S
<1>3. Max(S) \in S /\ \A k \in S : k <= Max(S)  BY <1>1, <1>2, MaxOfBounded
<1>4. a <= Max(S) /\ b <= Max(S)  BY <1>2, <1>3
<1> QED  BY <1>3, <1>4 DEF S

LEMMA TopBounds ==
    ASSUME TypeOK, IdsBounded PROVE Top \in Nat /\ \A c \in calls : c.id <= Top
<1> DEFINE S == {c.id : c \in calls} \cup {0}
<1>1. PICK n \in Nat : \A c \in calls : c.id <= n  BY DEF IdsBounded
<1>2. S \in SUBSET Nat /\ S # {}  BY DEF TypeOK, CallType
<1>3. \A k \in S : k <= n  BY <1>1
<1>4. \A c \in calls : c.id \in S  OBVIOUS
<1> HIDE DEF S
<1>5. Max(S) \in S /\ \A k \in S : k <= Max(S)  BY <1>1, <1>2, <1>3, MaxOfBounded
<1>6. Max(S) = Top  BY DEF Top, S
<1> QED  BY <1>2, <1>4, <1>5, <1>6

LEMMA CallFields ==
    ASSUME TypeOK, IdsBounded, NEW kind \in {"write", "read", "names", "unlink", "fetch"},
           NEW i \in Records \cup {NoRecord}, NEW p \in Places \cup {NoPlace},
           NEW b \in 0..MaxUses
    PROVE  /\ Call(kind, i, p, b) \in CallType
           /\ Call(kind, i, p, b).kind = kind /\ Call(kind, i, p, b).item = i
           /\ Call(kind, i, p, b).place = p /\ Call(kind, i, p, b).batch = b
           /\ Call(kind, i, p, b).state = "sent" /\ Call(kind, i, p, b).id = Top + 1
           /\ Call(kind, i, p, b).version = 0
BY TopBounds DEF Call, CallType, Nothing, Picture

LEMMA ReadFields ==
    ASSUME TypeOK, IdsBounded, NEW b \in 0..MaxUses
    PROVE  /\ SearchRead(b) \in CallType /\ SearchRead(b).kind = "read"
           /\ SearchRead(b).batch = b /\ SearchRead(b).state = "sent"
           /\ SearchRead(b).id = Top + 1 /\ SearchRead(b).version = 0
<1>1. /\ "read" \in {"write", "read", "names", "unlink", "fetch"}
      /\ NoRecord \in Records \cup {NoRecord} /\ NoPlace \in Places \cup {NoPlace}
  OBVIOUS
<1>2. SearchRead(b) = Call("read", NoRecord, NoPlace, b)  BY DEF SearchRead
<1>3. Call("read", NoRecord, NoPlace, b) \in CallType
  BY <1>1, CallFields
<1>4. /\ Call("read", NoRecord, NoPlace, b).kind = "read"
      /\ Call("read", NoRecord, NoPlace, b).batch = b
      /\ Call("read", NoRecord, NoPlace, b).state = "sent"
      /\ Call("read", NoRecord, NoPlace, b).id = Top + 1
      /\ Call("read", NoRecord, NoPlace, b).version = 0
  BY DEF Call
<1> QED  BY <1>2, <1>3, <1>4

-----------------------------------------------------------------------------
(* Steps of the calls, and steps that no move is about *)

Reads(c) == c.kind \in {"read", "names"} /\ c.batch # 0

\* Of the calls, K are kept and D are new.
LEMMA CallsStep ==
    ASSUME TypeOK, CallsInv,
           NEW K \in SUBSET calls, NEW D \in SUBSET CallType, calls' = K \cup D,
           NEW n \in Nat, \A d \in D : d.id <= n,
           batches \in Nat, batches' \in Nat, batches <= batches',
           \A d \in D : d.batch <= batches' /\ (d.kind = "write" => d.batch # 0 /\ d.item \in Records),
           \A d \in D : d.kind = "write" => \A c \in K : Reads(c) => c.batch # d.batch,
           \A d \in D : Reads(d) => 
               /\ \A e \in K \cup D : e.kind = "write" => e.batch # d.batch
               /\ d.kind = "names" \/ d.state = "ok" => d.version >= reached'[d.batch],
           \A c \in K : Reads(c) => reached'[c.batch] = reached[c.batch]
    PROVE  CallsInv'
<1>1. IdsBounded'
  <2>1. PICK m \in Nat : \A c \in calls : c.id <= m  BY DEF CallsInv, IdsBounded
  <2>2. \A c \in calls : c.id \in Nat  BY DEF TypeOK, CallType
  <2>3. \A d \in D : d.id \in Nat  BY DEF CallType
  <2>4. n + m \in Nat /\ \A c \in calls' : c.id <= n + m  BY <2>1, <2>2, <2>3
  <2> QED  BY <2>4 DEF IdsBounded
<1>2. ASSUME NEW c \in calls' PROVE CallKnown(c)'
  <2>1. CASE c \in D  BY <2>1 DEF CallKnown
  <2>2. CASE c \in K
    <3>1. CallKnown(c) /\ c.batch \in Nat  BY <2>2 DEF CallsInv, TypeOK, CallType
    <3> QED  BY <3>1 DEF CallKnown
  <2> QED  BY <2>1, <2>2
<1>3. ASSUME NEW c \in calls' PROVE AfterWrites(c)'
  <2>1. CASE c \in D  BY <2>1 DEF AfterWrites, Reads
  <2>2. CASE c \in K
    <3>1. AfterWrites(c)  BY <2>2 DEF CallsInv
    <3>2. ASSUME Reads(c) PROVE \A d \in K \cup D : d.kind = "write" => d.batch # c.batch
      BY <2>2, <3>1, <3>2 DEF AfterWrites, Reads
    <3> QED  BY <2>2, <3>1, <3>2 DEF AfterWrites, Reads
  <2> QED  BY <2>1, <2>2
<1> QED  BY <1>1, <1>2, <1>3 DEF CallsInv

\* Nothing that a record is waiting for has changed.
LEMMA MovesSame ==
    ASSUME MovesInv, Unhandled' = Unhandled, UNCHANGED <<moveQueue, server, wanted, contested>>
    PROVE  MovesInv'
BY DEF MovesInv, Wanted

LEMMA SameUnhandled ==
    ASSUME NEW K, NEW D, calls' = K \cup D, K \subseteq calls,
           \A c \in calls : c.kind = "write" /\ c.state = "sent" => c \in K,
           \A d \in D : ~(d.kind = "write" /\ d.state = "sent")
    PROVE  Unhandled' = Unhandled
BY DEF Unhandled

\* A call c is replaced by d.
LEMMA Replaced ==
    ASSUME Inv, NEW c \in calls, NEW d \in CallType, calls' = (calls \ {c}) \cup {d},
           d.id = c.id, d.batch = c.batch, d.item = c.item, UNCHANGED <<batches, reached>>,
           d.kind = "write" <=> c.kind = "write",
           Reads(d) => /\ Reads(c)
                       /\ d.kind = "names" \/ d.state = "ok" => d.version >= reached[d.batch]
    PROVE  CallsInv'
<1> DEFINE K == calls \ {c}
           D == {d}
<1>1. K \in SUBSET calls /\ D \in SUBSET CallType /\ calls' = K \cup D  OBVIOUS
<1>2. c \in CallType /\ CallKnown(c) /\ AfterWrites(c)  BY DEF Inv, CallsInv, TypeOK
<1>3. c.id \in Nat /\ \A e \in D : e.id <= c.id  BY <1>2 DEF CallType
<1>4. \A e \in D : e.batch <= batches' /\ (e.kind = "write" => e.batch # 0 /\ e.item \in Records)
  BY <1>2 DEF CallKnown
<1>5. \A e \in D : e.kind = "write" => \A x \in K : Reads(x) => x.batch # e.batch
  BY DEF Inv, CallsInv, AfterWrites, Reads
<1>6. \A e \in D : Reads(e) =>
        /\ \A x \in K \cup D : x.kind = "write" => x.batch # e.batch
        /\ e.kind = "names" \/ e.state = "ok" => e.version >= reached'[e.batch]
  BY <1>2 DEF AfterWrites, Reads
<1>7. TypeOK /\ CallsInv /\ batches \in Nat /\ batches' \in Nat /\ batches <= batches'
  BY DEF Inv, TypeOK
<1>8. \A x \in K : Reads(x) => reached'[x.batch] = reached[x.batch]  OBVIOUS
<1> HIDE DEF K, D
<1> QED  BY <1>1, <1>3, <1>4, <1>5, <1>6, <1>7, <1>8, CallsStep

\* A call c is over.
LEMMA Dropped ==
    ASSUME Inv, NEW c \in calls, calls' = calls \ {c}, UNCHANGED <<batches, reached>>
    PROVE  CallsInv'
<1> DEFINE K == calls \ {c}
           D == {}
<1>1. K \in SUBSET calls /\ D \in SUBSET CallType /\ calls' = K \cup D  OBVIOUS
<1>2. TypeOK /\ CallsInv /\ batches \in Nat /\ batches' \in Nat /\ batches <= batches'
  BY DEF Inv, TypeOK
<1>3. \A d \in D : FALSE  OBVIOUS
<1>4. \A x \in K : Reads(x) => reached'[x.batch] = reached[x.batch]  OBVIOUS
<1>5. 0 \in Nat  OBVIOUS
<1> HIDE DEF K, D
<1> QED  BY <1>1, <1>2, <1>3, <1>4, <1>5, CallsStep

\* A call that is not a write is sent.
LEMMA Asked ==
    ASSUME Inv, NEW kind \in {"read", "unlink", "fetch"}, NEW i \in Records \cup {NoRecord},
           NEW p \in Places \cup {NoPlace},
           calls' = calls \cup {Call(kind, i, p, 0)}, UNCHANGED <<batches, reached>>
    PROVE  CallsInv' /\ calls' \subseteq CallType /\ Unhandled' = Unhandled
<1> DEFINE d == Call(kind, i, p, 0)
           D == {d}
<1>1. TypeOK /\ CallsInv /\ IdsBounded /\ batches \in Nat /\ batches' \in Nat /\ batches <= batches'
  BY DEF Inv, TypeOK, CallsInv
<1>2. 0 \in 0..MaxUses  BY MaxUsesType
<1>3. /\ d \in CallType /\ d.kind = kind /\ d.batch = 0 /\ d.state = "sent" /\ d.id = Top + 1
      /\ Top \in Nat
  <2>1. kind \in {"write", "read", "names", "unlink", "fetch"}  OBVIOUS
  <2> HIDE DEF d
  <2>2. TypeOK /\ IdsBounded  BY <1>1
  <2>3. Top \in Nat  BY <2>2, TopBounds
  <2> QED  BY <1>2, <2>1, <2>2, <2>3, CallFields DEF d
<1>4. calls' = calls \cup D /\ calls \in SUBSET calls  OBVIOUS
<1> HIDE DEF d
<1>5. /\ D \in SUBSET CallType
      /\ \A e \in D : e.id <= Top + 1 /\ e.batch <= batches' /\ e.kind # "write" /\ ~Reads(e)
  BY <1>1, <1>3 DEF Reads
<1>6. \A x \in calls : Reads(x) => reached'[x.batch] = reached[x.batch]  OBVIOUS
<1>7. Top + 1 \in Nat  BY <1>3
<1> HIDE DEF D
<1>8. CallsInv'  BY <1>1, <1>4, <1>5, <1>6, <1>7, CallsStep
<1>9. Unhandled' = Unhandled  BY <1>4, <1>5, SameUnhandled
<1> QED  BY <1>1, <1>4, <1>5, <1>8, <1>9 DEF TypeOK

-----------------------------------------------------------------------------
(* The steps of the user *)

\* The user wants record i at p; it is written at once, or waits in the queue.
LEMMA WantStep ==
    ASSUME Inv, NEW i \in Records, NEW p \in Places, Want(i, p), Unhandled' = Unhandled,
           \/ /\ server' = server
              /\ moveQueue' = Append(moveQueue, [item |-> i, place |-> p])
           \/ server' = [server EXCEPT ![i] = p] /\ moveQueue' = moveQueue
    PROVE  MovesInv' /\ wanted' \in Picture /\ contested' \subseteq Records
<1>1. TypeOK /\ MovesInv  BY DEF Inv
<1>2. /\ wanted' \in Picture /\ contested' \subseteq Records /\ contested \subseteq contested'
      /\ wanted'[i] = p /\ \A j \in Records \ {i} : wanted'[j] = wanted[j]
  BY <1>1 DEF Want, TypeOK, Picture
<1>3. server \in Picture /\ moveQueue \in Seq([item : Records, place : Places])
  BY <1>1 DEF TypeOK
<1>4. ASSUME NEW j \in Records \ contested', j # i PROVE Wanted(j)'
  <2>1. Wanted(j) /\ wanted'[j] = wanted[j]  BY <1>1, <1>2, <1>4 DEF MovesInv
  <2>2. server'[j] = server[j]  BY <1>3, <1>4 DEF Picture
  <2>3. \A n \in DOMAIN moveQueue' : moveQueue'[n].item = j =>
            n \in DOMAIN moveQueue /\ moveQueue[n] = moveQueue'[n]
    BY <1>3, <1>4
  <2>4. \A n \in DOMAIN moveQueue : n \in DOMAIN moveQueue' /\ moveQueue'[n] = moveQueue[n]
    <3>1. CASE moveQueue' = moveQueue  BY <3>1
    <3>2. CASE moveQueue' = Append(moveQueue, [item |-> i, place |-> p])
      <4> DEFINE e == [item |-> i, place |-> p]
                 S == [item : Records, place : Places]
      <4>1. moveQueue \in Seq(S) /\ moveQueue' = Append(moveQueue, e)  BY <1>3, <3>2
      <4> HIDE DEF e, S
      <4> QED  BY <4>1
    <3> QED  BY <3>1, <3>2
  <2> QED  BY <2>1, <2>2, <2>3, <2>4 DEF Wanted
<1>5. ASSUME i \notin contested' PROVE Wanted(i)'
  <2>1. ~Writing(i)  BY <1>5 DEF Want
  <2>2. \A c \in Unhandled : c.item # i  BY <2>1 DEF Writing, Unhandled
  <2>3. \A n \in DOMAIN moveQueue : moveQueue[n].item # i  BY <2>1 DEF Writing
  <2>4. \A n \in DOMAIN moveQueue' : moveQueue'[n].item = i => moveQueue'[n].place = p
    BY <1>3, <2>3
  <2>5. server'[i] = p \/ \E n \in DOMAIN moveQueue' : moveQueue'[n].item = i
    <3>1. CASE moveQueue' = Append(moveQueue, [item |-> i, place |-> p])
      <4>1. Len(moveQueue) + 1 \in DOMAIN moveQueue' /\ moveQueue'[Len(moveQueue) + 1].item = i
        BY <1>3, <3>1
      <4> QED  BY <4>1
    <3>2. CASE server' = [server EXCEPT ![i] = p]  BY <1>3, <3>2 DEF Picture
    <3> QED  BY <3>1, <3>2
  <2> QED  BY <1>2, <2>2, <2>4, <2>5 DEF Wanted
<1> QED  BY <1>2, <1>4, <1>5 DEF MovesInv

LEMMA MoveStep ==
    ASSUME Inv, NEW i \in Records, NEW p \in Places, OnMove(i, p) PROVE Inv'
<1>1. TypeOK /\ BatchesUsed /\ CallsInv  BY DEF Inv
<1>2. /\ UNCHANGED <<server, items, calls, batches, broken, version, newest, reached, astray>>
      /\ moveQueue' = Append(moveQueue, [item |-> i, place |-> p]) /\ Want(i, p)
      /\ shown' = [shown EXCEPT ![i] = p] /\ uses' = uses + 1 /\ uses < MaxUses
  BY DEF OnMove, Use
<1>3. MovesInv' /\ wanted' \in Picture /\ contested' \subseteq Records
  <2>1. Unhandled' = Unhandled  BY <1>2 DEF Unhandled
  <2> QED  BY <1>2, <2>1, WantStep
<1>4. shown' \in Picture  BY <1>1, <1>2 DEF TypeOK, Picture
<1>5. /\ moveQueue' \in Seq([item : Records, place : Places])
      /\ Len(moveQueue') = Len(moveQueue) + 1
  BY <1>1, <1>2 DEF TypeOK
<1>6. TypeOK'  BY <1>1, <1>2, <1>3, <1>4, <1>5 DEF TypeOK
<1>7. BatchesUsed'  BY <1>1, <1>2, <1>5, MaxUsesType DEF BatchesUsed, TypeOK
<1>8. CallsInv'
  <2>1. IdsBounded'  BY <1>1, <1>2 DEF CallsInv, IdsBounded
  <2> QED  BY <1>1, <1>2, <2>1 DEF CallsInv, CallKnown, AfterWrites
<1> QED  BY <1>2, <1>3, <1>6, <1>7, <1>8 DEF Inv

\* A step of the user that sends one call and writes at most one record.
LEMMA AskStep ==
    ASSUME Inv, NEW kind \in {"read", "unlink", "fetch"}, NEW i \in Records \cup {NoRecord},
           NEW p \in Places \cup {NoPlace}, calls' = calls \cup {Call(kind, i, p, 0)}, Use,
           UNCHANGED <<shown, items, moveQueue, batches, broken, newest, reached, astray>>,
           version' \in {version, version + 1}, server' \in Picture,
           wanted' \in Picture, contested' \subseteq Records, MovesInv'
    PROVE  Inv'
<1>1. CallsInv' /\ calls' \subseteq CallType  BY Asked
<1>2. TypeOK /\ BatchesUsed  BY DEF Inv
<1>3. TypeOK'  BY <1>1, <1>2 DEF TypeOK, Use
<1>4. BatchesUsed'  BY <1>2, MaxUsesType DEF BatchesUsed, TypeOK, Use
<1>5. \A b \in Batches : reached'[b] <= version'
  <2>1. \A b \in Batches : reached[b] <= version /\ reached[b] \in Nat  BY <1>2 DEF Inv, TypeOK
  <2> QED  BY <1>2, <2>1 DEF TypeOK
<1> QED  BY <1>1, <1>3, <1>4, <1>5 DEF Inv

LEMMA RemoveStep == ASSUME Inv, NEW i \in Records, OnRemove(i) PROVE Inv'
<1>1. calls' = calls \cup {Call("unlink", i, NoPlace, 0)}  BY DEF OnRemove
<1>2. Unhandled' = Unhandled  BY <1>1, Asked DEF OnRemove
<1>3. MovesInv'  BY <1>2, MovesSame DEF OnRemove, Inv
<1>4. server' \in Picture /\ wanted' \in Picture /\ contested' \subseteq Records
  BY DEF OnRemove, Inv, TypeOK
<1> QED  BY <1>1, <1>3, <1>4, AskStep DEF OnRemove

LEMMA AddStep == ASSUME Inv, NEW i \in Records, NEW p \in Places, OnAdd(i, p) PROVE Inv'
<1>1. calls' = calls \cup {Call("fetch", i, p, 0)}  BY DEF OnAdd
<1>2. Unhandled' = Unhandled  BY <1>1, Asked DEF OnAdd
<1>3. MovesInv' /\ wanted' \in Picture /\ contested' \subseteq Records
  BY <1>2, WantStep DEF OnAdd
<1>4. server' \in Picture  BY DEF OnAdd, Inv, TypeOK, Picture
<1> QED  BY <1>1, <1>3, <1>4, AskStep DEF OnAdd

LEMMA UpdateStep == ASSUME Inv, NEW i \in Records, NEW p \in Places, OnUpdate(i, p) PROVE Inv'
<1>1. calls' = calls \cup {Call("read", NoRecord, NoPlace, 0)}  BY DEF OnUpdate, SearchRead
<1>2. Unhandled' = Unhandled  BY <1>1, Asked DEF OnUpdate
<1>3. MovesInv' /\ wanted' \in Picture /\ contested' \subseteq Records
  BY <1>2, WantStep DEF OnUpdate
<1>4. server' \in Picture  BY DEF OnUpdate, Inv, TypeOK, Picture
<1> QED  BY <1>1, <1>3, <1>4, AskStep DEF OnUpdate

\* The calls of a batch.
Sent(n) == [Call("write", moveQueue[n].item, moveQueue[n].place, batches + 1)
                EXCEPT !.id = Top + n]

LEMMA SentFields ==
    ASSUME Inv, InternalMove, NEW n \in DOMAIN moveQueue
    PROVE  /\ Sent(n) \in CallType /\ Sent(n).id = Top + n /\ Sent(n).kind = "write"
           /\ Sent(n).item = moveQueue[n].item /\ Sent(n).place = moveQueue[n].place
           /\ Sent(n).batch = batches + 1 /\ Sent(n).state = "sent" /\ Sent(n).item \in Records
           /\ Sent(n).version = 0
<1> DEFINE m == moveQueue[n]
           d == Call("write", m.item, m.place, batches + 1)
<1>1. TypeOK /\ BatchesUsed /\ IdsBounded  BY DEF Inv, CallsInv
<1>2. m.item \in Records /\ m.place \in Places /\ n \in Nat
  <2> DEFINE S == [item : Records, place : Places]
  <2>1. moveQueue \in Seq(S)  BY <1>1 DEF TypeOK
  <2> HIDE DEF S
  <2>2. m \in S /\ n \in Nat  BY <2>1
  <2> QED  BY <2>2 DEF S
<1>3. batches + 1 \in 0..MaxUses
  <2>1. Len(moveQueue) \in Nat /\ Len(moveQueue) # 0  BY <1>1 DEF TypeOK, InternalMove
  <2> QED  BY <1>1, <2>1, MaxUsesType DEF BatchesUsed, TypeOK
<1> HIDE DEF m
<1>4. /\ d \in CallType /\ d.kind = "write" /\ d.item = m.item /\ d.place = m.place
      /\ d.batch = batches + 1 /\ d.state = "sent" /\ d.version = 0
  BY <1>1, <1>2, <1>3, CallFields
<1>5. Top \in Nat  BY <1>1, TopBounds
<1>6. Sent(n) = [d EXCEPT !.id = Top + n]  BY DEF Sent, m
<1> HIDE DEF d
<1>7. /\ Sent(n) \in CallType /\ Sent(n).id = Top + n /\ Sent(n).kind = d.kind
      /\ Sent(n).item = d.item /\ Sent(n).place = d.place
      /\ Sent(n).batch = d.batch /\ Sent(n).state = d.state /\ Sent(n).version = d.version
  BY <1>2, <1>4, <1>5, <1>6 DEF CallType
<1> QED  BY <1>2, <1>4, <1>7 DEF m

LEMMA SendStep == ASSUME Inv, InternalMove PROVE Inv'
<1> DEFINE D == {Sent(n) : n \in DOMAIN moveQueue}
<1>1. TypeOK /\ BatchesUsed /\ CallsInv /\ MovesInv /\ IdsBounded  BY DEF Inv, CallsInv
<1>2. /\ calls' = calls \cup D /\ batches' = batches + 1 /\ moveQueue' = <<>>
      /\ UNCHANGED <<server, shown, items, broken, version, newest, reached, astray, wanted, contested, uses>>
  BY DEF InternalMove, Sent, history
<1>3. Top \in Nat  BY <1>1, TopBounds
<1>4. Len(moveQueue) \in Nat /\ Len(moveQueue) # 0 /\ DOMAIN moveQueue = 1..Len(moveQueue)
  BY <1>1 DEF TypeOK, InternalMove
<1>5. D \in SUBSET CallType  BY SentFields
<1>6. \A d \in D : /\ d.id <= Top + Len(moveQueue) /\ d.batch = batches + 1 /\ ~Reads(d)
                   /\ d.kind = "write" /\ d.state = "sent" /\ d.item \in Records
  <2>1. ASSUME NEW n \in DOMAIN moveQueue
        PROVE  /\ Sent(n).id <= Top + Len(moveQueue) /\ Sent(n).batch = batches + 1
               /\ ~Reads(Sent(n)) /\ Sent(n).kind = "write" /\ Sent(n).state = "sent"
               /\ Sent(n).item \in Records
    BY <1>3, <1>4, <2>1, SentFields DEF Reads
  <2> QED  BY <2>1
<1>7. CallsInv'
  <2>1. /\ \A c \in calls : c.batch <= batches /\ c.batch \in Nat /\ batches \in Nat
    BY <1>1 DEF CallsInv, CallKnown, TypeOK, CallType
  <2>2. /\ batches' \in Nat /\ batches <= batches' /\ Top + Len(moveQueue) \in Nat
        /\ \A c \in calls : c.batch # batches + 1
    BY <1>1, <1>2, <1>3, <1>4, <2>1 DEF TypeOK
  <2>3. \A d \in D : d.batch <= batches' /\ (d.kind = "write" => d.batch # 0 /\ d.item \in Records)
    BY <1>1, <1>2, <1>6 DEF TypeOK
  <2>4. calls \in SUBSET calls /\ \A c \in calls : Reads(c) => reached'[c.batch] = reached[c.batch]
    BY <1>2
  <2> HIDE DEF D
  <2>5. batches \in Nat  BY <1>1 DEF TypeOK
  <2>6. \A e \in D : e.kind = "write" => \A c \in calls : Reads(c) => c.batch # e.batch
    BY <1>6, <2>2
  <2>7. \A e \in D : e.id <= Top + Len(moveQueue)  BY <1>6
  <2>8. \A e \in D : ~Reads(e)  BY <1>6
  <2> QED  BY <1>1, <1>2, <1>5, <2>2, <2>3, <2>4, <2>5, <2>6, <2>7, <2>8, CallsStep
<1>8. TypeOK'
  <2>1. moveQueue' \in Seq([item : Records, place : Places])  BY <1>2
  <2>2. calls' \subseteq CallType  BY <1>1, <1>2, <1>5 DEF TypeOK
  <2> HIDE DEF D
  <2> QED  BY <1>1, <1>2, <2>1, <2>2 DEF TypeOK
<1>9. BatchesUsed'
  <2>1. Len(moveQueue') = 0  BY <1>2
  <2> QED  BY <1>1, <1>2, <1>4, <2>1, MaxUsesType DEF BatchesUsed, TypeOK
<1>10. MovesInv'
  <2>1. SUFFICES ASSUME NEW i \in Records \ contested PROVE Wanted(i)'  BY <1>2 DEF MovesInv
  <2>2. Wanted(i)  BY <1>1 DEF MovesInv
  <2>3. Unhandled' = Unhandled \cup D  BY <1>2, <1>6 DEF Unhandled
  <2>4. \A c \in Unhandled' : c.item = i => c.place = wanted[i]
    <3>1. ASSUME NEW n \in DOMAIN moveQueue, Sent(n).item = i PROVE Sent(n).place = wanted[i]
      BY <2>2, <3>1, SentFields DEF Wanted
    <3> QED  BY <2>2, <2>3, <3>1 DEF Wanted
  <2>5. (\E n \in DOMAIN moveQueue : moveQueue[n].item = i) => \E c \in Unhandled' : c.item = i
    BY <2>3, SentFields
  <2>6. (\E c \in Unhandled : c.item = i) => \E c \in Unhandled' : c.item = i  BY <2>3
  <2> HIDE DEF D
  <2> QED  BY <1>2, <2>2, <2>4, <2>5, <2>6 DEF Wanted
<1> HIDE DEF D
<1> QED  BY <1>2, <1>7, <1>8, <1>9, <1>10 DEF Inv

-----------------------------------------------------------------------------
(* The steps of the server *)

\* What is left to show of a step that handles or ends a call.
LEMMA CallStep ==
    ASSUME Inv, CallsInv', calls' \subseteq CallType, MovesInv',
           UNCHANGED <<moveQueue, batches, wanted, uses>>,
           server' \in Picture, shown' \in Picture, items' \in Picture, broken' \subseteq Batches,
           version' \in Nat, newest' \in Nat, reached' \in [Batches -> Nat],
           astray' \subseteq {"late", "skipped", "aborted"}, contested' \subseteq Records,
           \A b \in Batches : reached'[b] <= version'
    PROVE  Inv'
<1>1. TypeOK /\ BatchesUsed  BY DEF Inv
<1>2. TypeOK'  BY <1>1 DEF TypeOK
<1>3. BatchesUsed'  BY <1>1 DEF BatchesUsed
<1> QED  BY <1>2, <1>3 DEF Inv

\* A step that changes calls and nothing else.
LEMMA CallOnly ==
    ASSUME Inv, CallsInv', calls' \subseteq CallType, Unhandled' = Unhandled,
           UNCHANGED <<server, shown, items, moveQueue, batches, broken, history>>
    PROVE  Inv'
<1>1. MovesInv'  BY MovesSame DEF Inv, history
<1>2. /\ UNCHANGED <<server, shown, items, moveQueue, batches, broken>>
      /\ UNCHANGED <<version, newest, reached, astray, wanted, contested, uses>>
  BY DEF history
<1> QED  BY <1>1, <1>2, CallStep DEF Inv, TypeOK

\* The server handles call c, which is not a write.
LEMMA ServeOther ==
    ASSUME Inv, NEW c \in calls, c.kind # "write", NEW s \in {"ok", "error"},
           NEW v \in Nat, NEW q \in Picture, Handled(c, s, v, q),
           Reads(c) => (c.kind = "read" /\ v = version) \/ (c.kind = "names" /\ v = c.version),
           UNCHANGED <<batches, reached>>
    PROVE  CallsInv' /\ calls' \subseteq CallType /\ Unhandled' = Unhandled
<1> DEFINE h == [c EXCEPT !.state = s, !.version = v, !.shot = q]
           K == calls \ {c}
           D == {h}
<1>1. TypeOK /\ CallsInv  BY DEF Inv
<1>2. calls' = (calls \ {c}) \cup {h}  BY DEF Handled
<1> HIDE DEF h
<1>3. /\ h \in CallType /\ h.id = c.id /\ h.kind = c.kind /\ h.batch = c.batch
      /\ h.item = c.item /\ h.state = s /\ h.version = v
  <2>1. c \in CallType  BY <1>1 DEF TypeOK
  <2> QED  BY <2>1 DEF h, CallType
<1>4. Reads(h) => Reads(c) /\ h.version >= reached[h.batch]
  <2>1. SUFFICES ASSUME Reads(h) PROVE h.version >= reached[h.batch]  BY <1>3 DEF Reads
  <2>2. AfterWrites(c) /\ Reads(c) /\ c.batch \in Batches
    <3>1. c.batch \in 0..MaxUses  BY <1>1 DEF TypeOK, CallType
    <3> QED  BY <1>1, <1>3, <2>1, <3>1, MaxUsesType DEF Reads, CallsInv, Batches
  <2>3. reached[c.batch] <= version /\ reached[c.batch] \in Nat /\ version \in Nat
    BY <1>1, <2>2 DEF Inv, TypeOK
  <2> QED  BY <1>3, <2>2, <2>3 DEF AfterWrites, Reads
<1>5. CallsInv'  BY <1>2, <1>3, <1>4, Replaced
<1>6. calls' \subseteq CallType  BY <1>1, <1>2, <1>3 DEF TypeOK
<1>7. /\ calls' = K \cup D /\ K \subseteq calls
      /\ \A d \in D : d.kind # "write"
      /\ \A x \in calls : x.kind = "write" => x \in K
  BY <1>2, <1>3
<1> HIDE DEF K, D
<1>8. Unhandled' = Unhandled  BY <1>7, SameUnhandled
<1> QED  BY <1>5, <1>6, <1>8

LEMMA ServeReadStep == ASSUME Inv, NEW c \in calls, ServeRead(c) PROVE Inv'
<1>1. TypeOK /\ c \in CallType  BY DEF Inv, TypeOK
<1>2. version \in Nat /\ server \in Picture /\ c.shot \in Picture  BY <1>1 DEF TypeOK, CallType
<1>3. PICK s \in {"ok", "error"}, v \in Nat, q \in Picture : v = version /\ Handled(c, s, v, q)
  <2>1. PICK v \in Nat : v = version  BY <1>2
  <2> QED  BY <1>2, <2>1 DEF ServeRead, Handled
<1>4. /\ c.kind \in {"read", "fetch"} /\ UNCHANGED <<batches, reached>>
      /\ UNCHANGED <<server, shown, items, moveQueue, batches, broken, history>>
  BY DEF ServeRead, history
<1>5. c.kind # "write" /\ (Reads(c) => c.kind = "read")  BY <1>4 DEF Reads
<1>6. CallsInv' /\ calls' \subseteq CallType /\ Unhandled' = Unhandled
  <2>1. batches' = batches /\ reached' = reached  BY <1>4
  <2>2. Reads(c) => (c.kind = "read" /\ v = version) \/ (c.kind = "names" /\ v = c.version)
    BY <1>3, <1>5
  <2>3. c.kind # "write" /\ Handled(c, s, v, q)  BY <1>3, <1>5
  <2> QED  BY <2>1, <2>2, <2>3, ServeOther
<1> QED  BY <1>4, <1>6, CallOnly

LEMMA ServeNamesStep == ASSUME Inv, NEW c \in calls, ServeNames(c) PROVE Inv'
<1>1. TypeOK /\ c \in CallType  BY DEF Inv, TypeOK
<1>2. c.version \in Nat /\ c.shot \in Picture  BY <1>1 DEF CallType
<1>3. PICK s \in {"ok", "error"} : Handled(c, s, c.version, c.shot)  BY DEF ServeNames
<1>4. /\ c.kind = "names" /\ UNCHANGED <<batches, reached>>
      /\ UNCHANGED <<server, shown, items, moveQueue, batches, broken, history>>
  BY DEF ServeNames, history
<1>5. CallsInv' /\ calls' \subseteq CallType /\ Unhandled' = Unhandled
  BY <1>2, <1>3, <1>4, ServeOther
<1> QED  BY <1>4, <1>5, CallOnly

LEMMA ServeUnlinkStep == ASSUME Inv, NEW c \in calls, ServeUnlink(c) PROVE Inv'
<1>1. TypeOK /\ c \in CallType  BY DEF Inv, TypeOK
<1>2. /\ version \in Nat /\ version + 1 \in Nat /\ c.shot \in Picture
      /\ server \in Picture /\ reached \in [Batches -> Nat]
  BY <1>1 DEF TypeOK, CallType
<1>3. PICK s \in {"ok", "error"}, v \in Nat : Handled(c, s, v, c.shot)
  BY <1>2 DEF ServeUnlink
<1>4. /\ c.kind = "unlink"
      /\ UNCHANGED <<shown, items, moveQueue, batches, broken, newest, reached, astray, wanted, contested, uses>>
  BY DEF ServeUnlink
<1>5. c.kind # "write" /\ ~Reads(c)  BY <1>4 DEF Reads
<1>6. CallsInv' /\ calls' \subseteq CallType /\ Unhandled' = Unhandled
  BY <1>2, <1>3, <1>4, <1>5, ServeOther
<1>7. \/ server' = [server EXCEPT ![c.item] = NoPlace] /\ version' = version + 1
      \/ UNCHANGED <<server, version>>
  BY DEF ServeUnlink
<1>8. server' \in Picture /\ version' \in Nat /\ version <= version'
  BY <1>2, <1>7 DEF Picture
<1>9. MovesInv'
  <2>1. \A i \in Records : server'[i] \in {server[i], NoPlace}  BY <1>2, <1>7 DEF Picture
  <2> QED  BY <1>4, <1>6, <2>1 DEF MovesInv, Wanted, Inv
<1>10. \A b \in Batches : reached'[b] <= version'
  <2>1. \A b \in Batches : reached[b] <= version /\ reached[b] \in Nat  BY <1>2 DEF Inv
  <2> QED  BY <1>2, <1>4, <1>8, <2>1
<1>11. /\ shown' \in Picture /\ items' \in Picture /\ broken' \subseteq Batches /\ newest' \in Nat
       /\ reached' \in [Batches -> Nat] /\ astray' \subseteq {"late", "skipped", "aborted"}
       /\ contested' \subseteq Records
  BY <1>1, <1>4 DEF TypeOK
<1> QED  BY <1>4, <1>6, <1>8, <1>9, <1>10, <1>11, CallStep

\* A write that is handled is not waited for any longer.
LEMMA ServeWriteStep == ASSUME Inv, NEW c \in calls, ServeWrite(c) PROVE Inv'
<1>1. TypeOK /\ c \in CallType /\ CallsInv /\ MovesInv  BY DEF Inv, TypeOK
<1>2. /\ c.kind = "write" /\ c.state = "sent"
      /\ UNCHANGED <<shown, items, moveQueue, batches, broken, newest, astray, wanted, uses>>
  BY DEF ServeWrite
<1>3. c.batch \in Batches /\ c.shot \in Picture
  <2>1. c.batch \in 0..MaxUses /\ CallKnown(c) /\ c.shot \in Picture
    BY <1>1 DEF CallType, CallsInv
  <2> QED  BY <1>2, <2>1, MaxUsesType DEF CallKnown, Batches
<1>4. /\ version \in Nat /\ version + 1 \in Nat /\ server \in Picture
      /\ reached \in [Batches -> Nat] /\ \A b \in Batches : reached[b] <= version
  BY <1>1 DEF TypeOK, Inv
<1>5. PICK s \in {"ok", "error"}, v \in {version, version + 1} :
        /\ Handled(c, s, v, c.shot)
        /\ \/ /\ s = "ok" /\ server[c.item] # NoPlace
              /\ server' = [server EXCEPT ![c.item] = c.place]
              /\ version' = version + 1
              /\ reached' = [reached EXCEPT ![c.batch] = version + 1]
              /\ contested' = contested
           \/ contested' = contested \cup {c.item} /\ UNCHANGED <<server, version, reached>>
  BY DEF ServeWrite
<1> DEFINE h == [c EXCEPT !.state = s, !.version = v, !.shot = c.shot]
           K == calls \ {c}
           D == {h}
<1>6. calls' = K \cup D  BY <1>5 DEF Handled
<1> HIDE DEF h
<1>7. /\ h \in CallType /\ h.id = c.id /\ h.kind = "write" /\ h.item = c.item
      /\ h.batch = c.batch /\ h.state = s /\ h.id \in Nat
  <2>1. v \in Nat  BY <1>4
  <2>2. /\ h \in CallType /\ h.id = c.id /\ h.kind = c.kind /\ h.item = c.item
        /\ h.batch = c.batch /\ h.state = s
    BY <1>1, <1>3, <2>1 DEF h, CallType
  <2> QED  BY <1>2, <2>2 DEF CallType
<1>8. c.item \in Records  BY <1>1, <1>2 DEF CallsInv, CallKnown
<1>9. /\ server' \in Picture /\ version' \in Nat /\ version <= version' /\ contested' \subseteq Records
      /\ reached' \in [Batches -> Nat] /\ \A b \in Batches : reached'[b] <= version'
  <2>1. contested \subseteq Records /\ c.place \in Places \cup {NoPlace}
    BY <1>1 DEF TypeOK, CallType
  <2>2. CASE server' = [server EXCEPT ![c.item] = c.place] /\ version' = version + 1
             /\ reached' = [reached EXCEPT ![c.batch] = version + 1] /\ contested' = contested
    <3>1. server' \in Picture  BY <1>4, <2>1, <2>2 DEF Picture
    <3>2. reached' \in [Batches -> Nat] /\ \A b \in Batches : reached'[b] \in {reached[b], version + 1}
      BY <1>4, <2>2
    <3>3. \A b \in Batches : reached[b] \in Nat  BY <1>4
    <3> QED  BY <1>4, <2>1, <2>2, <3>1, <3>2, <3>3
  <2>3. CASE contested' = contested \cup {c.item} /\ UNCHANGED <<server, version, reached>>
    BY <1>4, <1>8, <2>1, <2>3
  <2> QED  BY <1>5, <2>2, <2>3
<1>10. CallsInv'
  <2>1. K \in SUBSET calls /\ D \in SUBSET CallType  BY <1>7
  <2>2. \A d \in D : d.id <= c.id  BY <1>7
  <2>3. c.id \in Nat  BY <1>7
  <2>4. batches \in Nat /\ batches' \in Nat /\ batches <= batches'  BY <1>1, <1>2 DEF TypeOK
  <2>5. CallKnown(c)  BY <1>1 DEF CallsInv
  <2>6. \A d \in D : d.batch <= batches' /\ (d.kind = "write" => d.batch # 0 /\ d.item \in Records)
    BY <1>2, <1>7, <1>8, <2>5 DEF CallKnown
  <2>7. \A x \in K : Reads(x) => x.batch # c.batch
    BY <1>1, <1>2 DEF CallsInv, AfterWrites, Reads
  <2>8. \A d \in D : d.kind = "write" => \A x \in K : Reads(x) => x.batch # d.batch
    BY <1>7, <2>7
  <2>9. \A d \in D : Reads(d) =>
           /\ \A e \in K \cup D : e.kind = "write" => e.batch # d.batch
           /\ d.kind = "names" \/ d.state = "ok" => d.version >= reached'[d.batch]
    BY <1>7 DEF Reads
  <2>10. \A x \in K : Reads(x) => reached'[x.batch] = reached[x.batch]
    <3>1. SUFFICES ASSUME NEW x \in K, Reads(x) PROVE reached'[x.batch] = reached[x.batch]
      OBVIOUS
    <3>2. x.batch # c.batch  BY <2>7, <3>1
    <3>3. CASE reached' = [reached EXCEPT ![c.batch] = version + 1]
      <4>1. x.batch \in Batches
        <5>1. x.batch \in 0..MaxUses  BY <1>1 DEF TypeOK, CallType
        <5> QED  BY <3>1, <5>1, MaxUsesType DEF Reads, Batches
      <4> QED  BY <1>4, <3>2, <3>3, <4>1
    <3>4. CASE reached' = reached  BY <3>4
    <3> QED  BY <1>5, <3>3, <3>4
  <2> HIDE DEF K, D
  <2> QED  BY <1>1, <1>6, <2>1, <2>2, <2>3, <2>4, <2>6, <2>8, <2>9, <2>10, CallsStep
<1>11. Unhandled' = Unhandled \ {c}
  <2>1. D = {h} /\ K = calls \ {c} /\ h.state # "sent"  BY <1>7
  <2> HIDE DEF K, D
  <2> QED  BY <1>6, <2>1 DEF Unhandled
<1>12. MovesInv'
  <2>1. SUFFICES ASSUME NEW i \in Records \ contested' PROVE Wanted(i)'  BY DEF MovesInv
  <2>2. Wanted(i) /\ i \notin contested  BY <1>1, <1>5 DEF MovesInv
  <2>3. c \in Unhandled  BY <1>2 DEF Unhandled
  <2>4. /\ \A x \in Unhandled' : x.item = i => x.place = wanted'[i]
        /\ \A n \in DOMAIN moveQueue' : moveQueue'[n].item = i => moveQueue'[n].place = wanted'[i]
    BY <1>2, <1>11, <2>2 DEF Wanted
  <2>5. CASE c.item = i
    <3>1. server' = [server EXCEPT ![i] = c.place]  BY <1>5, <2>1, <2>5
    <3>2. c.place = wanted[i]  BY <2>2, <2>3, <2>5 DEF Wanted
    <3>3. server'[i] = wanted'[i]  BY <1>2, <1>4, <3>1, <3>2 DEF Picture
    <3> QED  BY <2>4, <3>3 DEF Wanted
  <2>6. CASE c.item # i
    <3>1. server'[i] = server[i]  BY <1>4, <1>5, <2>6 DEF Picture
    <3>2. (\E x \in Unhandled : x.item = i) => \E x \in Unhandled' : x.item = i
      BY <1>11, <2>6
    <3> QED  BY <1>2, <2>2, <2>4, <3>1, <3>2 DEF Wanted
  <2> QED  BY <2>5, <2>6
<1>13. calls' \subseteq CallType
  <2>1. K \subseteq CallType /\ D \subseteq CallType  BY <1>1, <1>7 DEF TypeOK
  <2> HIDE DEF K, D
  <2> QED  BY <1>6, <2>1
<1>14. /\ shown' \in Picture /\ items' \in Picture /\ broken' \subseteq Batches /\ newest' \in Nat
       /\ astray' \subseteq {"late", "skipped", "aborted"}
  BY <1>1, <1>2 DEF TypeOK
<1> QED  BY <1>2, <1>9, <1>10, <1>12, <1>13, <1>14, CallStep

-----------------------------------------------------------------------------
(* The answers *)

\* The page takes an answer; at most the view, the batches that failed and the
\* history change besides the calls.
LEMMA AnswerStep ==
    ASSUME Inv, CallsInv', calls' \subseteq CallType, Unhandled' = Unhandled,
           UNCHANGED <<server, moveQueue, batches, version, reached, wanted, contested, uses>>,
           shown' \in Picture, items' \in Picture, broken' \subseteq Batches, newest' \in Nat,
           astray' \subseteq {"late", "skipped", "aborted"}
    PROVE  Inv'
<1>1. MovesInv'  BY MovesSame DEF Inv
<1>2. /\ server' \in Picture /\ version' \in Nat /\ reached' \in [Batches -> Nat]
      /\ contested' \subseteq Records /\ \A b \in Batches : reached'[b] <= version'
  BY DEF Inv, TypeOK
<1> QED  BY <1>1, <1>2, CallStep

\* An answered call is dropped.
LEMMA Answered ==
    ASSUME Inv, NEW c \in calls, c.kind # "write" \/ c.state # "sent", calls' = calls \ {c},
           UNCHANGED <<batches, reached>>
    PROVE  CallsInv' /\ calls' \subseteq CallType /\ Unhandled' = Unhandled
BY Dropped DEF Inv, TypeOK, Unhandled

LEMMA MoveSavedStep == ASSUME Inv, NEW c \in calls, MoveSaved(c) PROVE Inv'
<1>1. TypeOK /\ CallsInv /\ c \in CallType  BY DEF Inv, TypeOK
<1>2. /\ c.kind = "write" /\ c.state = "ok"
      /\ UNCHANGED <<server, moveQueue, batches, broken, version, reached, wanted, contested, uses>>
  BY DEF MoveSaved
<1>3. /\ c.version \in Nat /\ newest \in Nat /\ c.place \in Places \cup {NoPlace}
      /\ c.batch \in 0..MaxUses /\ CallKnown(c)
  BY <1>1 DEF TypeOK, CallType, CallsInv
<1>4. shown' \in Picture /\ items' \in Picture
  <2>1. /\ shown \in Picture /\ shown' = [shown EXCEPT ![c.item] = c.place]
        /\ items \in Picture /\ items' = [items EXCEPT ![c.item] = c.place]
    BY <1>1 DEF TypeOK, MoveSaved
  <2> QED  BY <1>3, <2>1 DEF Picture
<1>5. newest' \in Nat
  <2>1. newest' = Max({newest, c.version})  BY DEF MoveSaved
  <2> QED  BY <1>3, <2>1, MaxOfTwo
<1>6. broken' \subseteq Batches /\ astray' \subseteq {"late", "skipped", "aborted"}
  BY <1>1 DEF TypeOK, MoveSaved
<1>7. CallsInv' /\ calls' \subseteq CallType /\ Unhandled' = Unhandled
  <2>1. CASE calls' = calls \ {c}  BY <1>2, <2>1, Answered
  <2>2. CASE LastOf(c) /\ calls' = (calls \ {c}) \cup {SearchRead(c.batch)}
    <3> DEFINE d == SearchRead(c.batch)
               K == calls \ {c}
               D == {d}
    <3>1. IdsBounded /\ Top \in Nat  BY <1>1, TopBounds DEF CallsInv
    <3>2. /\ d \in CallType /\ d.kind = "read" /\ d.batch = c.batch /\ d.state = "sent"
          /\ d.id = Top + 1
      BY <1>1, <1>3, <3>1, ReadFields
    <3>3. \A e \in K : e.kind = "write" => e.batch # c.batch  BY <2>2 DEF LastOf
    <3> HIDE DEF d
    <3>4. /\ calls' = K \cup D /\ K \in SUBSET calls /\ D \in SUBSET CallType
          /\ \A e \in D : e.id <= Top + 1 /\ e.kind # "write" /\ e.batch = c.batch
                          /\ e.kind # "names" /\ e.state # "ok"
      BY <2>2, <3>1, <3>2 DEF d
    <3>5. /\ Top + 1 \in Nat /\ batches \in Nat /\ batches' \in Nat /\ batches <= batches'
          /\ c.batch <= batches'
      BY <1>1, <1>2, <1>3, <3>1 DEF TypeOK, CallKnown
    <3>6. c \notin K /\ \A x \in calls : x.kind = "write" /\ x.state = "sent" => x \in K
      BY <1>2
    <3>7. calls \subseteq CallType  BY <1>1 DEF TypeOK
    <3>8. \A x \in K : Reads(x) => reached'[x.batch] = reached[x.batch]  BY <1>2
    <3> HIDE DEF K, D
    <3>9. /\ \A e \in D : e.batch <= batches' /\ (e.kind = "write" => e.batch # 0 /\ e.item \in Records)
          /\ \A e \in D : e.kind = "write" => \A x \in K : Reads(x) => x.batch # e.batch
          /\ \A e \in D : Reads(e) =>
               /\ \A x \in K \cup D : x.kind = "write" => x.batch # e.batch
               /\ e.kind = "names" \/ e.state = "ok" => e.version >= reached'[e.batch]
      BY <3>3, <3>4, <3>5
    <3>10. CallsInv'  BY <1>1, <3>4, <3>5, <3>8, <3>9, CallsStep
    <3>11. Unhandled' = Unhandled  BY <3>4, <3>6, SameUnhandled
    <3> QED  BY <3>4, <3>7, <3>10, <3>11
  <2>3. calls' = (calls \ {c}) \cup
           (IF LastOf(c) /\ c.batch \notin broken THEN {SearchRead(c.batch)} ELSE {})
    BY DEF MoveSaved
  <2> QED  BY <2>1, <2>2, <2>3
<1> QED  BY <1>2, <1>4, <1>5, <1>6, <1>7, AnswerStep

LEMMA MoveFailedStep == ASSUME Inv, NEW c \in calls, MoveFailed(c) PROVE Inv'
<1>1. TypeOK /\ CallsInv /\ c \in CallType  BY DEF Inv, TypeOK
<1>2. /\ c.kind = "write" /\ c.state = "error" /\ calls' = calls \ {c}
      /\ broken' = broken \cup {c.batch} /\ astray' = astray \cup {"skipped"}
      /\ UNCHANGED <<server, shown, items, moveQueue, batches, version, newest, reached, wanted, contested, uses>>
  BY DEF MoveFailed
<1>3. CallsInv' /\ calls' \subseteq CallType /\ Unhandled' = Unhandled  BY <1>2, Answered
<1>4. c.batch \in Batches
  <2>1. c.batch \in 0..MaxUses /\ CallKnown(c)  BY <1>1 DEF CallType, CallsInv
  <2> QED  BY <1>2, <2>1, MaxUsesType DEF CallKnown, Batches
<1>5. /\ shown' \in Picture /\ items' \in Picture /\ broken' \subseteq Batches /\ newest' \in Nat
      /\ astray' \subseteq {"late", "skipped", "aborted"}
  BY <1>1, <1>2, <1>4 DEF TypeOK
<1> QED  BY <1>2, <1>3, <1>5, AnswerStep

LEMMA DataLoadedStep == ASSUME Inv, NEW c \in calls, DataLoaded(c) PROVE Inv'
<1> DEFINE d == [c EXCEPT !.kind = "names", !.state = "sent"]
           K == calls \ {c}
           D == {d}
<1>1. TypeOK /\ CallsInv /\ c \in CallType /\ AfterWrites(c)  BY DEF Inv, TypeOK, CallsInv
<1>2. /\ c.kind = "read" /\ c.state = "ok" /\ calls' = (calls \ {c}) \cup {d}
      /\ UNCHANGED <<server, shown, items, moveQueue, batches, broken, history>>
      /\ UNCHANGED <<batches, reached>>
  BY DEF DataLoaded, history
<1> HIDE DEF d
<1>3. /\ d \in CallType /\ d.id = c.id /\ d.kind = "names" /\ d.batch = c.batch
      /\ d.item = c.item /\ d.state = "sent" /\ d.version = c.version
  BY <1>1 DEF d, CallType
<1>4. Reads(d) => Reads(c) /\ d.version >= reached[d.batch]
  BY <1>1, <1>2, <1>3 DEF Reads, AfterWrites
<1>5. CallsInv'  BY <1>2, <1>3, <1>4, Replaced
<1>6. calls' \subseteq CallType  BY <1>1, <1>2, <1>3 DEF TypeOK
<1>7. /\ calls' = K \cup D /\ K \subseteq calls
      /\ \A e \in D : e.kind # "write"
      /\ \A x \in calls : x.kind = "write" => x \in K
  BY <1>2, <1>3
<1> HIDE DEF K, D
<1>8. Unhandled' = Unhandled  BY <1>7, SameUnhandled
<1> QED  BY <1>2, <1>5, <1>6, <1>8, CallOnly

LEMMA SetItemsStep == ASSUME Inv, NEW c \in calls, SetItems(c) PROVE Inv'
<1>1. TypeOK /\ c \in CallType  BY DEF Inv, TypeOK
<1>2. /\ c.kind = "names" /\ calls' = calls \ {c} /\ shown' = c.shot
      /\ newest' = Max({newest, c.version}) /\ items' = c.shot
      /\ UNCHANGED <<server, moveQueue, batches, broken, version, reached, wanted, contested, uses>>
  BY DEF SetItems
<1>3. CallsInv' /\ calls' \subseteq CallType /\ Unhandled' = Unhandled  BY <1>2, Answered
<1>4. c.version \in Nat /\ c.shot \in Picture /\ newest \in Nat  BY <1>1 DEF TypeOK, CallType
<1>5. newest' \in Nat  BY <1>2, <1>4, MaxOfTwo
<1>6. broken' \subseteq Batches /\ astray' \subseteq {"late", "skipped", "aborted"}
  BY <1>1 DEF TypeOK, SetItems
<1> QED  BY <1>2, <1>3, <1>4, <1>5, <1>6, AnswerStep

LEMMA NamesFailedStep == ASSUME Inv, NEW c \in calls, NamesFailed(c) PROVE Inv'
<1>1. TypeOK /\ c \in CallType  BY DEF Inv, TypeOK
<1>2. /\ c.kind = "names" /\ calls' = calls \ {c} /\ newest' = Max({newest, c.version})
      /\ UNCHANGED <<server, shown, items, moveQueue, batches, broken, version, reached, wanted, contested, uses>>
  BY DEF NamesFailed
<1>3. CallsInv' /\ calls' \subseteq CallType /\ Unhandled' = Unhandled  BY <1>2, Answered
<1>4. c.version \in Nat /\ newest \in Nat  BY <1>1 DEF TypeOK, CallType
<1>5. newest' \in Nat  BY <1>2, <1>4, MaxOfTwo
<1>6. /\ shown' \in Picture /\ items' \in Picture /\ broken' \subseteq Batches
      /\ astray' \subseteq {"late", "skipped", "aborted"}
  BY <1>1 DEF TypeOK, NamesFailed
<1> QED  BY <1>2, <1>3, <1>5, <1>6, AnswerStep

LEMMA RemoveCompletedStep == ASSUME Inv, NEW c \in calls, RemoveCompleted(c) PROVE Inv'
<1>1. TypeOK /\ c \in CallType  BY DEF Inv, TypeOK
<1>2. /\ c.kind = "unlink" /\ calls' = calls \ {c}
      /\ \/ /\ shown' = [shown EXCEPT ![c.item] = NoPlace] /\ newest' = Max({newest, c.version})
            /\ items' = [items EXCEPT ![c.item] = NoPlace]
         \/ UNCHANGED <<shown, items, newest>>
      /\ UNCHANGED <<server, moveQueue, batches, broken, version, reached, astray, wanted, contested, uses>>
  BY DEF RemoveCompleted
<1>3. CallsInv' /\ calls' \subseteq CallType /\ Unhandled' = Unhandled  BY <1>2, Answered
<1>4. c.version \in Nat /\ newest \in Nat /\ shown \in Picture /\ items \in Picture
  BY <1>1 DEF TypeOK, CallType
<1>5. Max({newest, c.version}) \in Nat  BY <1>4, MaxOfTwo
<1>6. shown' \in Picture /\ items' \in Picture /\ newest' \in Nat
  BY <1>2, <1>4, <1>5 DEF Picture
<1>7. broken' \subseteq Batches /\ astray' \subseteq {"late", "skipped", "aborted"}
  BY <1>1, <1>2 DEF TypeOK
<1> QED  BY <1>2, <1>3, <1>6, <1>7, AnswerStep

LEMMA CreateCompletedStep == ASSUME Inv, NEW c \in calls, CreateCompleted(c) PROVE Inv'
<1>1. TypeOK /\ c \in CallType  BY DEF Inv, TypeOK
<1>2. /\ c.kind = "fetch" /\ calls' = calls \ {c}
      /\ \/ /\ items' = [items EXCEPT ![c.item] = c.shot[c.item]] /\ shown' = items'
            /\ newest' = Max({newest, c.version})
            /\ astray' \in {astray, astray \cup {"late"}}
         \/ UNCHANGED <<shown, items, newest, astray>>
      /\ UNCHANGED <<server, moveQueue, batches, broken, version, reached, wanted, contested, uses>>
  BY DEF CreateCompleted
<1>3. CallsInv' /\ calls' \subseteq CallType /\ Unhandled' = Unhandled  BY <1>2, Answered
<1>4. c.version \in Nat /\ newest \in Nat /\ items \in Picture /\ c.shot \in Picture
  BY <1>1 DEF TypeOK, CallType
<1>5. Max({newest, c.version}) \in Nat  BY <1>4, MaxOfTwo
<1>6. newest' \in Nat  BY <1>2, <1>4, <1>5
<1>7. shown' \in Picture /\ items' \in Picture
  <2>1. items' \in Picture  BY <1>1, <1>2, <1>4 DEF Picture, TypeOK
  <2> QED  BY <1>1, <1>2, <2>1 DEF TypeOK
<1>8. broken' \subseteq Batches /\ astray' \subseteq {"late", "skipped", "aborted"}
  BY <1>1, <1>2 DEF TypeOK
<1> QED  BY <1>2, <1>3, <1>6, <1>7, <1>8, AnswerStep

-----------------------------------------------------------------------------
(* The theorems *)

LEMMA InvStep == Inv /\ [Next]_vars => Inv'
<1> SUFFICES ASSUME Inv, [Next]_vars PROVE Inv'  OBVIOUS
<1>1. CASE UNCHANGED vars
  <2>1. /\ UNCHANGED <<server, shown, items, moveQueue, calls, batches, broken, version, newest>>
        /\ UNCHANGED <<reached, astray, wanted, contested, uses>>
    BY <1>1 DEF vars
  <2>2. TypeOK' /\ BatchesUsed' /\ \A b \in Batches : reached'[b] <= version'
    BY <2>1 DEF Inv, TypeOK, BatchesUsed
  <2>3. CallsInv'  BY <2>1 DEF Inv, CallsInv, IdsBounded, CallKnown, AfterWrites
  <2>4. MovesInv'  BY <2>1 DEF Inv, MovesInv, Wanted, Unhandled
  <2> QED  BY <2>2, <2>3, <2>4 DEF Inv
<1>2. CASE User
  <2>1. CASE InternalMove  BY <2>1, SendStep
  <2>2. ASSUME NEW i \in Records, OnRemove(i) PROVE Inv'  BY <2>2, RemoveStep
  <2>3. ASSUME NEW i \in Records, NEW p \in Places, OnMove(i, p) PROVE Inv'  BY <2>3, MoveStep
  <2>4. ASSUME NEW i \in Records, NEW p \in Places, OnAdd(i, p) PROVE Inv'  BY <2>4, AddStep
  <2>5. ASSUME NEW i \in Records, NEW p \in Places, OnUpdate(i, p) PROVE Inv'
    BY <2>5, UpdateStep
  <2> QED  BY <1>2, <2>1, <2>2, <2>3, <2>4, <2>5 DEF User
<1>3. ASSUME NEW c \in calls, Serve(c) PROVE Inv'
  BY <1>3, ServeWriteStep, ServeUnlinkStep, ServeReadStep, ServeNamesStep DEF Serve
<1>4. ASSUME NEW c \in calls, Answer(c) PROVE Inv'
  BY <1>4, MoveSavedStep, MoveFailedStep, DataLoadedStep, SetItemsStep, NamesFailedStep,
     RemoveCompletedStep, CreateCompletedStep DEF Answer
<1> QED  BY <1>1, <1>2, <1>3, <1>4 DEF Next

LEMMA InvInit == Init => Inv
<1> SUFFICES ASSUME Init PROVE Inv  OBVIOUS
<1> DEFINE home == [i \in Records |-> IF i \in Stored THEN Home ELSE NoPlace]
           first == [id |-> 1, kind |-> "names", item |-> NoRecord, place |-> NoPlace, batch |-> 0,
                     state |-> "sent", version |-> 0, shot |-> home]
<1>1. /\ server = home /\ shown = Nothing /\ items = Nothing /\ moveQueue = <<>>
      /\ calls = {first} /\ batches = 0
      /\ broken = {} /\ version = 0 /\ newest = 0 /\ reached = [b \in Batches |-> 0]
      /\ astray = {} /\ wanted = home /\ contested = {} /\ uses = 0
  BY DEF Init
<1>2. home \in Picture /\ Nothing \in Picture  BY PlacesType DEF Picture, Nothing
<1>3. moveQueue \in Seq([item : Records, place : Places]) /\ Len(moveQueue) = 0  BY <1>1
<1> HIDE DEF home
<1>4. first \in CallType  BY <1>2, MaxUsesType DEF CallType
<1>5. first.id = 1 /\ first.kind = "names" /\ first.batch = 0 /\ first.state = "sent"  OBVIOUS
<1> HIDE DEF first
<1>6. TypeOK  BY <1>1, <1>2, <1>3, <1>4 DEF TypeOK
<1>7. BatchesUsed /\ \A b \in Batches : reached[b] <= version
  BY <1>1, <1>3, MaxUsesType DEF BatchesUsed
<1>8. CallsInv
  <2>1. IdsBounded  BY <1>1, <1>5 DEF IdsBounded
  <2> QED  BY <1>1, <1>5, <2>1 DEF CallsInv, CallKnown, AfterWrites
<1>9. MovesInv
  <2>1. Unhandled = {}  BY <1>1, <1>5 DEF Unhandled
  <2>2. DOMAIN moveQueue = {}  BY <1>1
  <2>3. server = wanted  BY <1>1
  <2> QED  BY <2>1, <2>2, <2>3 DEF MovesInv, Wanted
<1> QED  BY <1>6, <1>7, <1>8, <1>9 DEF Inv

LEMMA InvAlways == Spec => []Inv
BY InvInit, InvStep, PTL DEF Spec

\* The variables keep their types.
THEOREM TypeCorrect == Spec => []TypeOK
<1>1. Inv => TypeOK  BY DEF Inv
<1> QED  BY <1>1, InvAlways, PTL

\* No move is lost or overwritten by an older one: what internalMove takes off the
\* queue is sent, and the last write of a record that is handled is the one the
\* user wants.
THEOREM MovesAreKept == Spec => []MovesKept
<1>1. Inv => MovesKept
  <2>1. SUFFICES ASSUME Inv, Quiet, NEW i \in Records \ contested
                 PROVE  server[i] \in {NoPlace, wanted[i]}
    BY DEF MovesKept
  <2>2. Unhandled = {} /\ DOMAIN moveQueue = {}  BY <2>1 DEF Quiet, Unhandled
  <2>3. Wanted(i)  BY <2>1 DEF Inv, MovesInv
  <2> QED  BY <2>2, <2>3 DEF Wanted
<1> QED  BY <1>1, InvAlways, PTL

\* The read after a batch is sent when no write of it is left, so it sees them all.
THEOREM ViewNeverFlickers == Spec => NoFlicker
<1> DEFINE Fresh == \A c \in calls : c.kind = "names" /\ c.batch # 0 /\ c \notin calls' /\ shown' # shown =>
                      /\ ~\E d \in calls : d.kind = "write" /\ d.batch = c.batch
                      /\ c.state = "ok" => c.version >= reached[c.batch]
<1>1. Inv => Fresh  BY DEF Inv, CallsInv, AfterWrites
<1>2. Spec => [][Fresh]_vars  BY <1>1, InvAlways, PTL
<1> QED  BY <1>2 DEF NoFlicker

-----------------------------------------------------------------------------
(* What the view shows *)

\* An answer that holds all records.
Full(c) == c.kind = "names" \/ (c.kind = "read" /\ c.state = "ok")

\* An answer that may put a place of record i into the view.
Tells(c, i) == Full(c) \/ (c.kind = "fetch" /\ c.state = "ok" /\ c.item = i)

\* An answer that makes the view newer than a change of record i.
Brings(c, i) ==
    Full(c) \/ (c.kind \in {"write", "unlink"} /\ c.state = "ok" /\ c.item = i)

\* The page will see something newer of record i than version v.
News(i, v) ==
    \/ v < version /\ \E d \in calls : d.kind = "read" /\ d.state = "sent"
    \/ \E d \in calls : Brings(d, i) /\ v < d.version

\* In what follows, "born" tells the version at which each record was created.
Created(born, i, v) == wanted[i] # NoPlace /\ born[i] <= v

\* A record is shown when the view is as new as the record, and as long as it is
\* not, the page waits for it.
RecordInv(born, i) ==
    /\ server[i] # NoPlace => Created(born, i, version)
    /\ shown[i] # NoPlace => Created(born, i, newest)
    /\ wanted[i] # NoPlace /\ server[i] = NoPlace => born[i] <= newest
    /\ wanted[i] # NoPlace /\ newest < born[i] =>
           \E f \in calls : f.kind = "fetch" /\ f.item = i

QueueInv(born) == \A n \in DOMAIN moveQueue : Created(born, moveQueue[n].item, newest)

\* A record that is removed does not come back.
CallInv(born, c, i) ==
    /\ c.item = i /\ c.kind \in {"write", "unlink"} => Created(born, i, newest)
    /\ c.item = i /\ c.kind = "unlink" /\ c.state = "ok" => server[i] = NoPlace
    /\ c.item = i /\ c.kind = "fetch" =>
           /\ wanted[i] # NoPlace
           /\ c.state = "ok" => born[i] <= c.version
           /\ c.state = "error" => born[i] <= newest
    /\ Full(c) /\ c.shot[i] # NoPlace => Created(born, i, c.version)

\* An answer that is not overtaken yet holds what the database has, or something
\* newer is on its way.
AnswerInv(born, c, i) ==
    Tells(c, i) /\ newest <= c.version /\ c.shot[i] # server[i] =>
        News(i, c.version) \/ c.version < born[i]

ViewInv(born) ==
    /\ newest <= version
    /\ \A i \in Records : RecordInv(born, i)
    /\ QueueInv(born)
    /\ \A c \in calls : c.version <= version
    /\ \A c \in calls, i \in Records : CallInv(born, c, i) /\ AnswerInv(born, c, i)

\* Moves, writes and reads end with a read whose answer replaces all items, or the
\* view is astray.
Busy == moveQueue # <<>> \/ \E c \in calls : c.kind \in {"write", "read", "names"}

\* The view shows where record i is, or will when its removal or its creation is
\* answered.
Follows(i) ==
    \/ shown[i] = server[i]
    \/ \E u \in calls : u.kind = "unlink" /\ u.state = "ok" /\ u.item = i
    \/ /\ shown[i] = NoPlace
       /\ \E f \in calls : f.kind = "fetch" /\ f.item = i /\ f.state # "error"

FollowInv == astray = {} => Busy \/ \A i \in Records : Follows(i)

\* The view shows the items at the places they have in itemsData, but for those that
\* were dropped.
Drawn ==
    /\ \A i \in Records : items[i] = NoPlace <=> shown[i] = NoPlace
    /\ astray = {} => Busy \/ items = shown

Births == [Records -> Nat]

\* Of the calls, K are kept and D are new: what was on its way still is, or has made
\* the view newer.
LEMMA NewsStep ==
    ASSUME TypeOK, TypeOK', NEW K \in SUBSET calls, NEW D \in SUBSET CallType, calls' = K \cup D,
           version <= version', NEW i \in Records, NEW v \in Nat,
           \A c \in calls : c.version <= version,
           \A d \in calls \ K : d.kind = "read" /\ d.state = "sent" =>
               \E e \in D : Full(e) /\ e.version = version,
           \A d \in calls \ K : Brings(d, i) =>
               d.version <= newest' \/ \E e \in D : Brings(e, i) /\ e.version = d.version,
           News(i, v)
    PROVE  News(i, v)' \/ v < newest'
<1>1. version \in Nat /\ version' \in Nat /\ newest' \in Nat /\ \A c \in calls : c.version \in Nat
  BY DEF TypeOK, CallType
<1>2. CASE v < version /\ \E d \in calls : d.kind = "read" /\ d.state = "sent"
  <2>1. PICK d \in calls : d.kind = "read" /\ d.state = "sent"  BY <1>2
  <2>2. CASE d \in K  BY <1>1, <1>2, <2>1, <2>2 DEF News
  <2>3. CASE d \notin K
    <3>1. PICK e \in D : Full(e) /\ e.version = version  BY <2>1, <2>3
    <3>2. e \in calls' /\ Brings(e, i) /\ v < e.version  BY <1>2, <3>1 DEF Brings
    <3> QED  BY <3>2 DEF News
  <2> QED  BY <2>2, <2>3
<1>3. CASE \E d \in calls : Brings(d, i) /\ v < d.version
  <2>1. PICK d \in calls : Brings(d, i) /\ v < d.version  BY <1>3
  <2>2. CASE d \in K  BY <2>1, <2>2 DEF News
  <2>3. CASE d \notin K /\ d.version <= newest'  BY <1>1, <2>1, <2>3
  <2>4. CASE \E e \in D : Brings(e, i) /\ e.version = d.version  BY <2>1, <2>4 DEF News
  <2> QED  BY <2>1, <2>2, <2>3, <2>4
<1> QED  BY <1>2, <1>3 DEF News

\* A step under which records are created ("next" tells when), and none comes back.
LEMMA ViewStep ==
    ASSUME TypeOK, TypeOK', NEW born \in Births, NEW next \in Births, ViewInv(born),
           NEW K \in SUBSET calls, NEW D \in SUBSET CallType, calls' = K \cup D,
           newest <= newest', newest' <= version', version <= version',
           \A i \in Records : wanted[i] # NoPlace =>
               /\ wanted'[i] # NoPlace /\ next[i] = born[i]
               /\ server[i] = NoPlace => server'[i] = NoPlace,
           \A i \in Records : RecordInv(next, i)',
           QueueInv(next)',
           \A d \in D : d.version <= version',
           \A d \in D, i \in Records : CallInv(next, d, i)' /\ AnswerInv(next, d, i)',
           \A i \in Records : server'[i] # server[i] =>
               version < next[i] \/ \A v \in Nat : v <= version => News(i, v)',
           \A d \in calls \ K : d.kind = "read" /\ d.state = "sent" =>
               \E e \in D : Full(e) /\ e.version = version,
           \A d \in calls \ K, i \in Records : Brings(d, i) =>
               d.version <= newest' \/ \E e \in D : Brings(e, i) /\ e.version = d.version
    PROVE  ViewInv(next)'
<1>1. /\ version \in Nat /\ version' \in Nat /\ newest \in Nat /\ newest' \in Nat
      /\ \A c \in calls : c.version \in Nat /\ c.version <= version
      /\ \A i \in Records : born[i] \in Nat /\ next[i] \in Nat
  BY DEF TypeOK, CallType, Births, ViewInv
<1>2. \A c \in calls' : c.version <= version'  BY <1>1
<1>3. ASSUME NEW c \in K, NEW i \in Records PROVE CallInv(next, c, i)'
  <2>1. CallInv(born, c, i)  BY DEF ViewInv
  <2>2. /\ Created(born, i, newest) => Created(next, i, newest)'
        /\ Created(born, i, c.version) => wanted'[i] # NoPlace /\ next[i] <= c.version
    BY <1>1 DEF Created
  <2>3. wanted[i] # NoPlace /\ born[i] <= newest => next[i] <= newest'  BY <1>1
  <2>4. wanted[i] # NoPlace => wanted'[i] # NoPlace /\ next[i] = born[i]
                              /\ (server[i] = NoPlace => server'[i] = NoPlace)
    OBVIOUS
  <2> QED  BY <2>1, <2>2, <2>3, <2>4 DEF CallInv, Created
<1>4. ASSUME NEW c \in K, NEW i \in Records PROVE AnswerInv(next, c, i)'
  <2>1. SUFFICES ASSUME Tells(c, i), newest' <= c.version, c.shot[i] # server'[i],
                        ~(c.version < next[i])
                 PROVE  News(i, c.version)'
    BY DEF AnswerInv
  <2>2. AnswerInv(born, c, i) /\ CallInv(born, c, i) /\ RecordInv(born, i)  BY DEF ViewInv
  <2>3. CASE server'[i] # server[i]  BY <1>1, <2>1, <2>3
  <2>4. CASE server'[i] = server[i]
    <3>1. wanted[i] # NoPlace
      BY <2>1, <2>2, <2>4 DEF Tells, CallInv, RecordInv, Created
    <3>2. News(i, c.version)  BY <1>1, <2>1, <2>2, <2>4, <3>1 DEF AnswerInv
    <3>3. PICK v \in Nat : v = c.version  BY <1>1
    <3>4. News(i, v)  BY <3>2, <3>3
    <3>5. \A x \in calls : x.version <= version  BY <1>1
    <3>6. News(i, v)' \/ v < newest'  BY <3>4, <3>5, NewsStep
    <3> QED  BY <1>1, <2>1, <3>3, <3>6
  <2> QED  BY <2>3, <2>4
<1>5. ASSUME NEW c \in calls', NEW i \in Records PROVE CallInv(next, c, i)' /\ AnswerInv(next, c, i)'
  BY <1>3, <1>4
<1> QED  BY <1>2, <1>5 DEF ViewInv
LEMMA QueueItems == ASSUME TypeOK, NEW n \in DOMAIN moveQueue PROVE moveQueue[n].item \in Records
<1> DEFINE S == [item : Records, place : Places]
<1>1. moveQueue \in Seq(S)  BY DEF TypeOK
<1> HIDE DEF S
<1>2. moveQueue[n] \in S  BY <1>1
<1> QED  BY <1>2 DEF S

\* The user moves, removes, or sends what is in the queue: the database is the same.
LEMMA AskView ==
    ASSUME Inv, Inv', NEW born \in Births, ViewInv(born), UNCHANGED <<server, version, newest>>,
           NEW D \in SUBSET CallType, calls' = calls \cup D,
           \A d \in D : /\ d.state = "sent" /\ d.version = 0 /\ d.kind \in {"write", "unlink"}
                        /\ d.item \in Records /\ Created(born, d.item, newest),
           \A i \in Records : wanted[i] # NoPlace <=> wanted'[i] # NoPlace,
           \A i \in Records : shown'[i] # NoPlace => shown[i] # NoPlace,
           QueueInv(born)'
    PROVE  ViewInv(born)'
<1>1. TypeOK /\ TypeOK'  BY DEF Inv
<1>2. version \in Nat /\ newest <= version /\ newest \in Nat /\ \A i \in Records : born[i] \in Nat
  BY <1>1 DEF ViewInv, TypeOK, Births
<1>3. newest <= newest' /\ newest' <= version' /\ version <= version'  BY <1>2
<1>4. \A i \in Records : wanted[i] # NoPlace =>
          /\ wanted'[i] # NoPlace /\ born[i] = born[i]
          /\ server[i] = NoPlace => server'[i] = NoPlace
  OBVIOUS
<1>5. ASSUME NEW i \in Records PROVE RecordInv(born, i)'
  <2>1. RecordInv(born, i)  BY DEF ViewInv
  <2> QED  BY <2>1 DEF RecordInv, Created
<1>6. \A d \in D : d.version <= version'  BY <1>2
<1>7. ASSUME NEW d \in D, NEW i \in Records PROVE CallInv(born, d, i)' /\ AnswerInv(born, d, i)'
  <2>1. ~Full(d) /\ ~Tells(d, i) /\ d.kind # "fetch" /\ d.state # "ok"  BY DEF Full, Tells
  <2>2. d.item = i => Created(born, i, newest)'  BY DEF Created
  <2> QED  BY <2>1, <2>2 DEF CallInv, AnswerInv
<1>8. \A i \in Records : server'[i] = server[i]  OBVIOUS
<1>9. calls \in SUBSET calls /\ calls \ calls = {}  OBVIOUS
<1> QED  BY <1>1, <1>3, <1>4, <1>5, <1>6, <1>7, <1>8, <1>9, ViewStep

LEMMA MoveView ==
    ASSUME Inv, Inv', NEW born \in Births, ViewInv(born), NEW i \in Records, NEW p \in Places,
           OnMove(i, p)
    PROVE  ViewInv(born)' /\ FollowInv'
<1> DEFINE D == {}
<1>1. TypeOK /\ TypeOK'  BY DEF Inv
<1>2. /\ shown[i] # NoPlace /\ p # NoPlace /\ wanted' = [wanted EXCEPT ![i] = p]
      /\ shown' = [shown EXCEPT ![i] = p]
      /\ moveQueue' = Append(moveQueue, [item |-> i, place |-> p])
      /\ UNCHANGED <<server, version, newest>> /\ calls' = calls
  BY PlacesType DEF OnMove, Want
<1>3. wanted \in Picture /\ shown \in Picture  BY <1>1 DEF TypeOK
<1>4. Created(born, i, newest)  BY <1>2 DEF ViewInv, RecordInv
<1>5. \A j \in Records : wanted[j] # NoPlace <=> wanted'[j] # NoPlace
  BY <1>2, <1>3, <1>4 DEF Picture, Created
<1>6. \A j \in Records : shown'[j] # NoPlace => shown[j] # NoPlace  BY <1>2, <1>3 DEF Picture
<1>7. QueueInv(born)'
  <2>1. moveQueue \in Seq([item : Records, place : Places])  BY <1>1 DEF TypeOK
  <2>2. SUFFICES ASSUME NEW n \in DOMAIN moveQueue'
                 PROVE  wanted'[moveQueue'[n].item] # NoPlace /\ born[moveQueue'[n].item] <= newest
    BY <1>2 DEF QueueInv, Created
  <2>3. moveQueue'[n].item \in Records /\ Created(born, moveQueue'[n].item, newest)
    <3>1. CASE n \in DOMAIN moveQueue
      <4>1. moveQueue'[n] = moveQueue[n]  BY <1>2, <2>1, <3>1
      <4>2. moveQueue[n].item \in Records  BY <1>1, <3>1, QueueItems
      <4> QED  BY <3>1, <4>1, <4>2 DEF ViewInv, QueueInv
    <3>2. CASE n \notin DOMAIN moveQueue
      <4>1. moveQueue'[n] = [item |-> i, place |-> p]  BY <1>2, <2>1, <2>2, <3>2
      <4> QED  BY <1>4, <4>1
    <3> QED  BY <3>1, <3>2
  <2> QED  BY <1>2, <1>5, <2>3 DEF Created
<1>8. D \in SUBSET CallType /\ calls' = calls \cup D /\ \A d \in D : FALSE  BY <1>2
<1> HIDE DEF D
<1>9. ViewInv(born)'  BY <1>2, <1>5, <1>6, <1>7, <1>8, AskView
<1>10. FollowInv'
  <2>1. moveQueue' # <<>>  BY <1>1, <1>2 DEF TypeOK
  <2> QED  BY <2>1 DEF FollowInv, Busy
<1> QED  BY <1>9, <1>10

LEMMA SendView ==
    ASSUME Inv, Inv', NEW born \in Births, ViewInv(born), InternalMove
    PROVE  ViewInv(born)' /\ FollowInv'
<1> DEFINE D == {Sent(n) : n \in DOMAIN moveQueue}
<1>1. /\ calls' = calls \cup D /\ moveQueue' = <<>> /\ moveQueue # <<>>
      /\ UNCHANGED <<server, shown, version, newest, wanted>>
  BY DEF InternalMove, Sent, history
<1>2. D \in SUBSET CallType  BY SentFields
<1>3. ASSUME NEW n \in DOMAIN moveQueue
      PROVE  /\ Sent(n).state = "sent" /\ Sent(n).version = 0 /\ Sent(n).kind = "write"
             /\ Sent(n).item \in Records /\ Created(born, Sent(n).item, newest)
  BY SentFields DEF ViewInv, QueueInv
<1>4. \A d \in D : /\ d.state = "sent" /\ d.version = 0 /\ d.kind \in {"write", "unlink"}
                   /\ d.item \in Records /\ Created(born, d.item, newest)
  BY <1>3
<1>5. QueueInv(born)'  BY <1>1 DEF QueueInv
<1>6. \E d \in D : d.kind = "write"
  <2>1. 1 \in DOMAIN moveQueue  BY <1>1 DEF Inv, TypeOK
  <2> QED  BY <1>3, <2>1
<1> HIDE DEF D
<1>7. ViewInv(born)'
  <2>1. UNCHANGED <<server, version, newest>>  BY <1>1
  <2>2. /\ \A i \in Records : wanted[i] # NoPlace <=> wanted'[i] # NoPlace
        /\ \A i \in Records : shown'[i] # NoPlace => shown[i] # NoPlace
    BY <1>1
  <2> QED  BY <1>1, <1>2, <1>4, <1>5, <2>1, <2>2, AskView
<1>8. FollowInv'  BY <1>1, <1>6 DEF FollowInv, Busy
<1> QED  BY <1>7, <1>8

LEMMA RemoveView ==
    ASSUME Inv, Inv', NEW born \in Births, ViewInv(born), FollowInv, NEW i \in Records, OnRemove(i)
    PROVE  ViewInv(born)' /\ FollowInv'
<1> DEFINE d == Call("unlink", i, NoPlace, 0)
           D == {d}
<1>1. /\ calls' = calls \cup D /\ shown[i] # NoPlace
      /\ UNCHANGED <<server, shown, moveQueue, version, newest, wanted, astray>>
  BY DEF OnRemove
<1>2. /\ d.kind = "unlink" /\ d.item = i /\ d.state = "sent" /\ d.version = 0 /\ d \in CallType
  <2>1. /\ "unlink" \in {"write", "read", "names", "unlink", "fetch"} /\ 0 \in 0..MaxUses
        /\ i \in Records \cup {NoRecord} /\ NoPlace \in Places \cup {NoPlace}
    BY MaxUsesType
  <2>2. d \in CallType  BY <2>1, CallFields DEF Inv, CallsInv
  <2> QED  BY <2>2 DEF Call
<1> HIDE DEF d
<1>3. Created(born, i, newest)  BY <1>1 DEF ViewInv, RecordInv
<1>4. /\ D \in SUBSET CallType
      /\ \A e \in D : /\ e.state = "sent" /\ e.version = 0 /\ e.kind \in {"write", "unlink"}
                      /\ e.item \in Records /\ Created(born, e.item, newest)
  BY <1>2, <1>3
<1>5. QueueInv(born)'  BY <1>1 DEF ViewInv, QueueInv, Created
<1> HIDE DEF D
<1>6. ViewInv(born)'
  <2>1. UNCHANGED <<server, version, newest>>  BY <1>1
  <2>2. /\ \A j \in Records : wanted[j] # NoPlace <=> wanted'[j] # NoPlace
        /\ \A j \in Records : shown'[j] # NoPlace => shown[j] # NoPlace
    BY <1>1
  <2> QED  BY <1>1, <1>4, <1>5, <2>1, <2>2, AskView
<1>7. FollowInv'  BY <1>1 DEF FollowInv, Busy, Follows
<1> QED  BY <1>6, <1>7

\* A record is created: the page has never heard of it.
LEMMA AddView ==
    ASSUME Inv, Inv', NEW born \in Births, ViewInv(born), FollowInv, NEW i \in Records,
           NEW p \in Places, OnAdd(i, p)
    PROVE  FollowInv' /\ \E next \in Births : ViewInv(next)'
<1> DEFINE d == Call("fetch", i, p, 0)
           D == {d}
<1>1. /\ calls' = calls \cup D /\ wanted[i] = NoPlace /\ p # NoPlace
      /\ server' = [server EXCEPT ![i] = p] /\ version' = version + 1
      /\ wanted' = [wanted EXCEPT ![i] = p] /\ UNCHANGED <<shown, moveQueue, newest, astray>>
  BY PlacesType DEF OnAdd, Want
<1>2. TypeOK /\ TypeOK' /\ server \in Picture /\ wanted \in Picture
  BY DEF Inv, TypeOK
<1>3. /\ version \in Nat /\ newest \in Nat /\ newest <= version
      /\ \A j \in Records : born[j] \in Nat
  BY <1>2 DEF ViewInv, TypeOK, Births
<1>4. /\ d.kind = "fetch" /\ d.item = i /\ d.state = "sent" /\ d.version = 0 /\ d \in CallType
  <2>1. /\ "fetch" \in {"write", "read", "names", "unlink", "fetch"} /\ 0 \in 0..MaxUses
        /\ i \in Records \cup {NoRecord} /\ p \in Places \cup {NoPlace}
    BY MaxUsesType
  <2>2. d \in CallType  BY <2>1, CallFields DEF Inv, CallsInv
  <2> QED  BY <2>2 DEF Call
<1> HIDE DEF d
<1>5. PICK next \in Births :
          next[i] = version + 1 /\ \A j \in Records \ {i} : next[j] = born[j]
  <2>1. [born EXCEPT ![i] = version + 1] \in Births  BY <1>3 DEF Births
  <2> QED  BY <2>1 DEF Births
<1>6. /\ server'[i] = p /\ wanted'[i] = p
      /\ \A j \in Records \ {i} : server'[j] = server[j] /\ wanted'[j] = wanted[j]
  BY <1>1, <1>2 DEF Picture
<1>7. /\ D \in SUBSET CallType
      /\ \A e \in D : /\ e.kind = "fetch" /\ e.item = i /\ e.state = "sent" /\ e.version = 0
                      /\ ~Full(e) /\ \A j \in Records : ~Tells(e, j)
  BY <1>4 DEF Full, Tells
<1>8. \A j \in Records : wanted[j] # NoPlace =>
          /\ wanted'[j] # NoPlace /\ next[j] = born[j]
          /\ server[j] = NoPlace => server'[j] = NoPlace
  BY <1>1, <1>5, <1>6
<1>9. newest <= newest' /\ newest' <= version' /\ version <= version'  BY <1>1, <1>3
<1>10. shown[i] = NoPlace /\ server[i] = NoPlace  BY <1>1 DEF ViewInv, RecordInv, Created
<1>11. \E f \in calls' : f.kind = "fetch" /\ f.item = i /\ f.state # "error"
  BY <1>1, <1>4
<1>12. FollowInv'
  <2>1. ASSUME NEW j \in Records, Follows(j) PROVE Follows(j)'
    <3>1. CASE j = i  BY <1>1, <1>10, <1>11, <3>1 DEF Follows
    <3>2. CASE j # i  BY <1>1, <1>6, <2>1, <3>2 DEF Follows
    <3> QED  BY <3>1, <3>2
  <2>2. Busy => Busy'  BY <1>1 DEF Busy
  <2> QED  BY <1>1, <2>1, <2>2 DEF FollowInv
<1> HIDE DEF D
<1>13. ASSUME NEW j \in Records PROVE RecordInv(next, j)'
  <2>1. RecordInv(born, j)  BY DEF ViewInv
  <2>2. CASE j = i
    <3>1. \E f \in calls' : f.kind = "fetch" /\ f.item = j  BY <1>11, <2>2
    <3> QED  BY <1>1, <1>3, <1>5, <1>6, <1>10, <2>2, <3>1 DEF RecordInv, Created
  <2>3. CASE j # i
    <3>1. (\E f \in calls : f.kind = "fetch" /\ f.item = j)
             => \E f \in calls' : f.kind = "fetch" /\ f.item = j
      BY <1>1
    <3> QED  BY <1>1, <1>3, <1>5, <1>6, <2>1, <2>3, <3>1 DEF RecordInv, Created
  <2> QED  BY <2>2, <2>3
<1>14. QueueInv(next)'
  <2>1. ASSUME NEW n \in DOMAIN moveQueue
        PROVE  wanted'[moveQueue[n].item] # NoPlace /\ next[moveQueue[n].item] <= newest
    <3>1. moveQueue[n].item \in Records /\ Created(born, moveQueue[n].item, newest)
      BY <1>2, QueueItems DEF ViewInv, QueueInv
    <3> QED  BY <1>1, <1>5, <1>6, <3>1 DEF Created
  <2> QED  BY <1>1, <2>1 DEF QueueInv, Created
<1>15. \A e \in D : e.version <= version'  BY <1>1, <1>3, <1>7
<1>16. ASSUME NEW e \in D, NEW j \in Records PROVE CallInv(next, e, j)' /\ AnswerInv(next, e, j)'
  <2>1. ~Full(e) /\ ~Tells(e, j) /\ e.kind = "fetch" /\ e.item = i /\ e.state = "sent"  BY <1>7
  <2>2. wanted'[i] # NoPlace  BY <1>1, <1>6
  <2> QED  BY <2>1, <2>2 DEF CallInv, AnswerInv
<1>17. \A j \in Records : server'[j] # server[j] => version < next[j]  BY <1>3, <1>5, <1>6
<1>18. calls \in SUBSET calls /\ calls \ calls = {} /\ calls' = calls \cup D  BY <1>1
<1>19. ViewInv(next)'
  BY <1>2, <1>3, <1>7, <1>8, <1>9, <1>13, <1>14, <1>15, <1>16, <1>17, <1>18, ViewStep
<1> QED  BY <1>12, <1>19

\* An item is edited: the read that follows sees it.
LEMMA UpdateView ==
    ASSUME Inv, Inv', NEW born \in Births, ViewInv(born), NEW i \in Records, NEW p \in Places,
           OnUpdate(i, p)
    PROVE  ViewInv(born)' /\ FollowInv'
<1> DEFINE d == SearchRead(0)
           D == {d}
<1>1. /\ calls' = calls \cup D /\ shown[i] # NoPlace /\ server[i] # NoPlace /\ p # NoPlace
      /\ server' = [server EXCEPT ![i] = p] /\ version' = version + 1
      /\ wanted' = [wanted EXCEPT ![i] = p] /\ UNCHANGED <<shown, moveQueue, newest>>
  BY PlacesType DEF OnUpdate, Want
<1>2. TypeOK /\ TypeOK' /\ server \in Picture /\ wanted \in Picture
  BY DEF Inv, TypeOK
<1>3. /\ version \in Nat /\ newest \in Nat /\ newest <= version
      /\ \A j \in Records : born[j] \in Nat
  BY <1>2 DEF ViewInv, TypeOK, Births
<1>4. /\ d.kind = "read" /\ d.state = "sent" /\ d.version = 0 /\ d \in CallType
  <2>1. 0 \in 0..MaxUses /\ IdsBounded  BY MaxUsesType DEF Inv, CallsInv
  <2> QED  BY <1>2, <2>1, ReadFields
<1> HIDE DEF d
<1>5. /\ D \in SUBSET CallType
      /\ \A e \in D : /\ e.kind = "read" /\ e.state = "sent" /\ e.version = 0
                      /\ ~Full(e) /\ \A j \in Records : ~Tells(e, j)
  BY <1>4 DEF Full, Tells
<1>6. /\ server'[i] = p /\ wanted'[i] = p
      /\ \A j \in Records \ {i} : server'[j] = server[j] /\ wanted'[j] = wanted[j]
  BY <1>1, <1>2 DEF Picture
<1>7. \A j \in Records : wanted[j] # NoPlace =>
          /\ wanted'[j] # NoPlace /\ born[j] = born[j]
          /\ server[j] = NoPlace => server'[j] = NoPlace
  BY <1>1, <1>6
<1>8. newest <= newest' /\ newest' <= version' /\ version <= version'  BY <1>1, <1>3
<1>9. \E e \in calls' : e.kind = "read" /\ e.state = "sent"  BY <1>1, <1>4
<1>10. FollowInv'  BY <1>9 DEF FollowInv, Busy
<1>11. Created(born, i, newest)  BY <1>1 DEF ViewInv, RecordInv
<1> HIDE DEF D
<1>12. ASSUME NEW j \in Records PROVE RecordInv(born, j)'
  <2>1. RecordInv(born, j)  BY DEF ViewInv
  <2>2. (\E f \in calls : f.kind = "fetch" /\ f.item = j)
             => \E f \in calls' : f.kind = "fetch" /\ f.item = j
    BY <1>1
  <2> QED  BY <1>1, <1>3, <1>6, <1>11, <2>1, <2>2 DEF RecordInv, Created
<1>13. QueueInv(born)'
  <2>1. ASSUME NEW n \in DOMAIN moveQueue
        PROVE  wanted'[moveQueue[n].item] # NoPlace /\ born[moveQueue[n].item] <= newest
    <3>1. moveQueue[n].item \in Records /\ Created(born, moveQueue[n].item, newest)
      BY <1>2, QueueItems DEF ViewInv, QueueInv
    <3> QED  BY <1>7, <3>1 DEF Created
  <2> QED  BY <1>1, <2>1 DEF QueueInv, Created
<1>14. \A e \in D : e.version <= version'  BY <1>1, <1>3, <1>5
<1>15. ASSUME NEW e \in D, NEW j \in Records PROVE CallInv(born, e, j)' /\ AnswerInv(born, e, j)'
  BY <1>5 DEF CallInv, AnswerInv
<1>16. \A v \in Nat : v <= version => \A j \in Records : News(j, v)'
  BY <1>1, <1>3, <1>9 DEF News
<1>17. calls \in SUBSET calls /\ calls \ calls = {} /\ calls' = calls \cup D  BY <1>1
<1>18. ViewInv(born)'
  BY <1>2, <1>5, <1>7, <1>8, <1>12, <1>13, <1>14, <1>15, <1>16, <1>17, ViewStep
<1> QED  BY <1>10, <1>18

\* Call c becomes h, and only the server changes besides.
LEMMA HandledView ==
    ASSUME Inv, Inv', NEW born \in Births, ViewInv(born), NEW c \in calls, NEW h \in CallType,
           calls' = (calls \ {c}) \cup {h}, h.item = c.item, c.kind = "fetch" => h.kind = "fetch",
           UNCHANGED <<shown, moveQueue, newest, wanted>>,
           version <= version', h.version <= version',
           \A j \in Records : server[j] = NoPlace => server'[j] = NoPlace,
           \A j \in Records : server'[j] # server[j] =>
               /\ server'[j] = NoPlace => born[j] <= newest
               /\ Brings(h, j) /\ version < h.version,
           \A j \in Records : CallInv(born, h, j)' /\ AnswerInv(born, h, j)',
           c.kind = "read" /\ c.state = "sent" => Full(h) /\ h.version = version,
           \A j \in Records : Brings(c, j) => Brings(h, j) /\ h.version = c.version
    PROVE  ViewInv(born)'
<1> DEFINE K == calls \ {c}
           D == {h}
<1>1. TypeOK /\ TypeOK'  BY DEF Inv
<1>2. /\ version \in Nat /\ newest \in Nat /\ newest <= version /\ version' \in Nat
      /\ h.version \in Nat /\ \A j \in Records : born[j] \in Nat
  BY <1>1 DEF ViewInv, TypeOK, Births, CallType
<1>3. newest <= newest' /\ newest' <= version' /\ version <= version'  BY <1>2
<1>4. \A j \in Records : wanted[j] # NoPlace =>
          /\ wanted'[j] # NoPlace /\ born[j] = born[j]
          /\ server[j] = NoPlace => server'[j] = NoPlace
  OBVIOUS
<1>5. ASSUME NEW j \in Records PROVE RecordInv(born, j)'
  <2>1. RecordInv(born, j)  BY DEF ViewInv
  <2>2. (\E f \in calls : f.kind = "fetch" /\ f.item = j)
             => \E f \in calls' : f.kind = "fetch" /\ f.item = j
    OBVIOUS
  <2>3. server'[j] # NoPlace => Created(born, j, version)'
    BY <1>2, <2>1 DEF RecordInv, Created
  <2>4. wanted[j] # NoPlace /\ server'[j] = NoPlace => born[j] <= newest  BY <2>1 DEF RecordInv
  <2> QED  BY <2>1, <2>2, <2>3, <2>4 DEF RecordInv, Created
<1>6. QueueInv(born)'  BY DEF ViewInv, QueueInv, Created
<1>7. ASSUME NEW j \in Records, server'[j] # server[j]
      PROVE  \A v \in Nat : v <= version => News(j, v)'
  BY <1>2, <1>7 DEF News
<1>8. /\ K \in SUBSET calls /\ D \in SUBSET CallType /\ calls' = K \cup D
      /\ \A d \in D : d.version <= version'
      /\ \A d \in D, j \in Records : CallInv(born, d, j)' /\ AnswerInv(born, d, j)'
  OBVIOUS
<1>9. /\ \A d \in calls \ K : d.kind = "read" /\ d.state = "sent" =>
             \E e \in D : Full(e) /\ e.version = version
      /\ \A d \in calls \ K, j \in Records : Brings(d, j) =>
             d.version <= newest' \/ \E e \in D : Brings(e, j) /\ e.version = d.version
  OBVIOUS
<1>10. /\ \A j \in Records : RecordInv(born, j)'
       /\ \A j \in Records : server'[j] # server[j] =>
             version < born[j] \/ \A v \in Nat : v <= version => News(j, v)'
  BY <1>5, <1>7
<1> HIDE DEF K, D
<1> QED  BY <1>1, <1>3, <1>4, <1>6, <1>8, <1>9, <1>10, ViewStep

LEMMA ServeWriteView ==
    ASSUME Inv, Inv', NEW born \in Births, ViewInv(born), NEW c \in calls, ServeWrite(c)
    PROVE  ViewInv(born)' /\ FollowInv'
<1>1. TypeOK /\ TypeOK' /\ c \in CallType /\ c.item \in Records /\ server \in Picture
  BY DEF Inv, TypeOK, CallsInv, CallKnown, ServeWrite
<1>2. /\ c.kind = "write" /\ c.state = "sent" /\ UNCHANGED <<shown, moveQueue, newest, wanted>>
  BY DEF ServeWrite
<1>3. version \in Nat /\ version + 1 \in Nat /\ c.shot \in Picture  BY <1>1 DEF TypeOK, CallType
<1>4. PICK s \in {"ok", "error"}, v \in Nat :
        /\ Handled(c, s, v, c.shot) /\ version' = v /\ version <= v
        /\ \/ /\ s = "ok" /\ server[c.item] # NoPlace
              /\ server' = [server EXCEPT ![c.item] = c.place]
              /\ v = version + 1
           \/ server' = server
  <2>1. PICK s \in {"ok", "error"} :
        \/ /\ s = "ok" /\ server[c.item] # NoPlace /\ Handled(c, s, version + 1, c.shot)
           /\ server' = [server EXCEPT ![c.item] = c.place] /\ version' = version + 1
        \/ server' = server /\ Handled(c, s, version, c.shot) /\ version' = version
    BY DEF ServeWrite
  <2>2. PICK v \in Nat : v = version  BY <1>3
  <2>3. PICK w \in Nat : w = version + 1  BY <1>3
  <2>4. CASE server' = server /\ Handled(c, s, version, c.shot) /\ version' = version
    BY <2>2, <2>4
  <2>5. CASE /\ s = "ok" /\ server[c.item] # NoPlace /\ Handled(c, s, version + 1, c.shot)
             /\ server' = [server EXCEPT ![c.item] = c.place] /\ version' = version + 1
    BY <1>3, <2>3, <2>5
  <2> QED  BY <2>1, <2>4, <2>5
<1> DEFINE h == [c EXCEPT !.state = s, !.version = v, !.shot = c.shot]
<1>5. calls' = (calls \ {c}) \cup {h}  BY <1>4 DEF Handled
<1> HIDE DEF h
<1>6. /\ h \in CallType /\ h.kind = "write" /\ h.item = c.item /\ h.state = s /\ h.version = v
  BY <1>1, <1>2, <1>3 DEF h, CallType
<1>7. ASSUME NEW j \in Records PROVE CallInv(born, h, j)' /\ AnswerInv(born, h, j)'
  <2>1. CallInv(born, c, j)  BY DEF ViewInv
  <2>2. c.item = j => Created(born, j, newest)'  BY <1>2, <2>1 DEF CallInv, Created
  <2>3. ~Full(h) /\ ~Tells(h, j)  BY <1>6 DEF Full, Tells
  <2> QED  BY <1>6, <2>2, <2>3 DEF CallInv, AnswerInv
<1>8. \A j \in Records : server[j] = NoPlace => server'[j] = NoPlace
  BY <1>1, <1>4 DEF Picture
<1>9. ASSUME NEW j \in Records, server'[j] # server[j]
      PROVE  /\ server'[j] = NoPlace => born[j] <= newest
             /\ Brings(h, j) /\ version < h.version
  <2>1. j = c.item /\ s = "ok" /\ v = version + 1  BY <1>1, <1>4, <1>9 DEF Picture
  <2>2. CallInv(born, c, j)  BY DEF ViewInv
  <2>3. born[j] <= newest  BY <1>2, <2>1, <2>2 DEF CallInv, Created
  <2> QED  BY <1>3, <1>6, <2>1, <2>3 DEF Brings
<1>10. ~(c.kind = "read") /\ \A j \in Records : ~Brings(c, j)  BY <1>2 DEF Brings, Full
<1>11. h.version <= version' /\ version <= version'  BY <1>3, <1>4, <1>6
<1>12. ViewInv(born)'
  <2>1. h.item = c.item /\ (c.kind = "fetch" => h.kind = "fetch") /\ h \in CallType
    BY <1>2, <1>6
  <2> QED  BY <1>2, <1>5, <1>7, <1>8, <1>9, <1>10, <1>11, <2>1, HandledView
<1>13. FollowInv'  BY <1>5, <1>6 DEF FollowInv, Busy
<1> QED  BY <1>12, <1>13

LEMMA ServeUnlinkView ==
    ASSUME Inv, Inv', NEW born \in Births, ViewInv(born), FollowInv, NEW c \in calls,
           ServeUnlink(c)
    PROVE  ViewInv(born)' /\ FollowInv'
<1>1. TypeOK /\ TypeOK' /\ c \in CallType /\ server \in Picture  BY DEF Inv, TypeOK
<1>2. /\ c.kind = "unlink" /\ c.state = "sent"
      /\ UNCHANGED <<shown, moveQueue, newest, wanted, astray>>
  BY DEF ServeUnlink
<1>3. version \in Nat /\ version + 1 \in Nat /\ c.shot \in Picture  BY <1>1 DEF TypeOK, CallType
<1>4. PICK s \in {"ok", "error"}, v \in Nat :
        /\ Handled(c, s, v, c.shot) /\ version' = v /\ version <= v
        /\ \/ /\ s = "ok" /\ v = version + 1 /\ server' = [server EXCEPT ![c.item] = NoPlace]
           \/ server' = server /\ server[c.item] = NoPlace
  <2>1. PICK s \in {"ok", "error"} :
        \/ /\ s = "ok" /\ Handled(c, s, version + 1, c.shot) /\ version' = version + 1
           /\ server' = [server EXCEPT ![c.item] = NoPlace]
        \/ /\ server' = server /\ server[c.item] = NoPlace
           /\ Handled(c, s, version, c.shot) /\ version' = version
    BY DEF ServeUnlink
  <2>2. PICK v \in Nat : v = version  BY <1>3
  <2>3. PICK w \in Nat : w = version + 1  BY <1>3
  <2>4. CASE /\ server' = server /\ server[c.item] = NoPlace
             /\ Handled(c, s, version, c.shot) /\ version' = version
    BY <2>2, <2>4
  <2>5. CASE /\ s = "ok" /\ Handled(c, s, version + 1, c.shot) /\ version' = version + 1
             /\ server' = [server EXCEPT ![c.item] = NoPlace]
    BY <1>3, <2>3, <2>5
  <2> QED  BY <2>1, <2>4, <2>5
<1> DEFINE h == [c EXCEPT !.state = s, !.version = v, !.shot = c.shot]
<1>5. calls' = (calls \ {c}) \cup {h}  BY <1>4 DEF Handled
<1> HIDE DEF h
<1>6. /\ h \in CallType /\ h.kind = "unlink" /\ h.item = c.item /\ h.state = s /\ h.version = v
  BY <1>1, <1>2, <1>3 DEF h, CallType
<1>7. \A j \in Records : c.item = j => server'[j] = NoPlace  BY <1>1, <1>4 DEF Picture
<1>8. ASSUME NEW j \in Records PROVE CallInv(born, h, j)' /\ AnswerInv(born, h, j)'
  <2>1. CallInv(born, c, j)  BY DEF ViewInv
  <2>2. c.item = j => Created(born, j, newest)'  BY <1>2, <2>1 DEF CallInv, Created
  <2>3. ~Full(h) /\ ~Tells(h, j)  BY <1>6 DEF Full, Tells
  <2> QED  BY <1>6, <1>7, <2>2, <2>3 DEF CallInv, AnswerInv
<1>9. \A j \in Records : server[j] = NoPlace => server'[j] = NoPlace
  BY <1>1, <1>4 DEF Picture
<1>10. ASSUME NEW j \in Records, server'[j] # server[j]
       PROVE  /\ server'[j] = NoPlace => born[j] <= newest
              /\ Brings(h, j) /\ version < h.version
  <2>1. j = c.item /\ s = "ok" /\ v = version + 1  BY <1>1, <1>4, <1>10 DEF Picture
  <2>2. CallInv(born, c, j)  BY DEF ViewInv
  <2>3. born[j] <= newest  BY <1>2, <2>1, <2>2 DEF CallInv, Created
  <2> QED  BY <1>3, <1>6, <2>1, <2>3 DEF Brings
<1>11. ~(c.kind = "read") /\ \A j \in Records : ~Brings(c, j)  BY <1>2 DEF Brings, Full
<1>12. h.version <= version' /\ version <= version'  BY <1>3, <1>4, <1>6
<1>13. ViewInv(born)'
  BY <1>2, <1>5, <1>6, <1>8, <1>9, <1>10, <1>11, <1>12, HandledView
<1>14. FollowInv'
  <2>1. Busy => Busy'  BY <1>2, <1>5 DEF Busy
  <2>2. ASSUME NEW j \in Records, Follows(j) PROVE Follows(j)'
    <3>1. CASE server'[j] # server[j]
      <4>1. h \in calls' /\ h.kind = "unlink" /\ h.state = "ok" /\ h.item = j
        BY <1>1, <1>4, <1>5, <1>6, <3>1 DEF Picture
      <4> QED  BY <4>1 DEF Follows
    <3>2. CASE server'[j] = server[j]
      <4>1. \A d \in calls : d # c => d \in calls'  BY <1>5
      <4> QED  BY <1>2, <2>2, <3>2, <4>1 DEF Follows
    <3> QED  BY <3>1, <3>2
  <2> QED  BY <1>2, <2>1, <2>2 DEF FollowInv
<1> QED  BY <1>13, <1>14

LEMMA ServeReadView ==
    ASSUME Inv, Inv', NEW born \in Births, ViewInv(born), FollowInv, NEW c \in calls, ServeRead(c)
    PROVE  ViewInv(born)' /\ FollowInv'
<1>1. TypeOK /\ c \in CallType /\ c.item \in Records \cup {NoRecord}
  BY DEF Inv, TypeOK, CallType
<1>2. /\ version \in Nat /\ c.shot \in Picture /\ server \in Picture /\ c.state = "sent"
      /\ c.kind \in {"read", "fetch"}
      /\ UNCHANGED <<server, shown, moveQueue, version, newest, wanted, astray>>
  BY <1>1 DEF TypeOK, CallType, ServeRead, history
<1>3. PICK s \in {"ok", "error"}, v \in Nat, q \in Picture :
        /\ v = version /\ Handled(c, s, v, q)
        /\ \/ s = "error" /\ c.kind = "fetch" /\ server[c.item] = NoPlace
           \/ s = "ok" /\ q = server /\ ~(c.kind = "fetch" /\ server[c.item] = NoPlace)
  <2>1. PICK v \in Nat : v = version  BY <1>2
  <2>2. PICK q \in Picture : q = server  BY <1>2
  <2>3. CASE c.kind = "fetch" /\ server[c.item] = NoPlace
    BY <1>2, <2>1, <2>3 DEF ServeRead, Handled
  <2>4. CASE ~(c.kind = "fetch" /\ server[c.item] = NoPlace)
    <3>1. Handled(c, "ok", version, server)  BY <2>4 DEF ServeRead
    <3> QED  BY <2>1, <2>2, <2>4, <3>1
  <2> QED  BY <2>3, <2>4
<1> DEFINE h == [c EXCEPT !.state = s, !.version = v, !.shot = q]
<1>4. calls' = (calls \ {c}) \cup {h}  BY <1>3 DEF Handled
<1> HIDE DEF h
<1>5. /\ h \in CallType /\ h.kind = c.kind /\ h.item = c.item /\ h.state = s /\ h.version = v
      /\ h.shot = q
  BY <1>1, <1>2, <1>3 DEF h, CallType
<1>6. ASSUME NEW j \in Records PROVE CallInv(born, h, j)' /\ AnswerInv(born, h, j)'
  <2>1. CallInv(born, c, j) /\ RecordInv(born, j)  BY DEF ViewInv
  <2>2. AnswerInv(born, h, j)'
    <3>1. s = "error" => ~Tells(h, j)  BY <1>3, <1>5 DEF Tells, Full
    <3> QED  BY <1>2, <1>3, <1>5, <3>1 DEF AnswerInv
  <2>3. CASE c.kind = "fetch"
    <3>1. ~Full(h)  BY <1>5, <2>3 DEF Full
    <3>2. c.item = j => wanted[j] # NoPlace  BY <2>1, <2>3 DEF CallInv
    <3>3. c.item = j /\ s = "ok" => born[j] <= version
      BY <1>3, <2>1, <2>3 DEF RecordInv, Created
    <3>4. c.item = j /\ s = "error" => born[j] <= newest
      BY <1>3, <2>1, <3>2 DEF RecordInv, Created
    <3> QED  BY <1>2, <1>3, <1>5, <2>2, <2>3, <3>1, <3>2, <3>3, <3>4 DEF CallInv
  <2>4. CASE c.kind = "read"
    <3>1. h.kind = "read" /\ (h.shot[j] # NoPlace => Created(born, j, h.version))
      BY <1>3, <1>5, <2>1, <2>4 DEF RecordInv
    <3>2. h.shot[j] # NoPlace => Created(born, j, h.version)'  BY <1>2, <3>1 DEF Created
    <3> QED  BY <2>2, <3>1, <3>2 DEF CallInv
  <2> QED  BY <1>2, <2>3, <2>4
<1>7. /\ \A j \in Records : server[j] = NoPlace => server'[j] = NoPlace
      /\ \A j \in Records : server'[j] = server[j]
      /\ h.version <= version' /\ version <= version'
      /\ c.kind = "fetch" => h.kind = "fetch"
      /\ UNCHANGED <<shown, moveQueue, newest, wanted>>
  BY <1>2, <1>3, <1>5
<1>8. c.kind = "read" /\ c.state = "sent" => Full(h) /\ h.version = version
  BY <1>3, <1>5 DEF Full
<1>9. \A j \in Records : ~Brings(c, j)  BY <1>2 DEF Brings, Full
<1>10. ViewInv(born)'
  BY <1>4, <1>5, <1>6, <1>7, <1>8, <1>9, HandledView
<1>11. FollowInv'
  <2>1. Busy => Busy'
    <3>1. \A d \in calls : \E e \in calls' : e.kind = d.kind  BY <1>4, <1>5
    <3> QED  BY <1>2, <3>1 DEF Busy
  <2>2. ASSUME NEW j \in Records, Follows(j) PROVE Follows(j)'
    <3>1. CASE shown[j] = server[j]  BY <1>2, <3>1 DEF Follows
    <3>2. CASE \E u \in calls : u.kind = "unlink" /\ u.state = "ok" /\ u.item = j
      <4>1. PICK u \in calls : u.kind = "unlink" /\ u.state = "ok" /\ u.item = j  BY <3>2
      <4>2. u \in calls'  BY <1>2, <1>4, <4>1
      <4> QED  BY <4>1, <4>2 DEF Follows
    <3>3. CASE /\ shown[j] = NoPlace /\ shown[j] # server[j]
               /\ \E f \in calls : f.kind = "fetch" /\ f.item = j /\ f.state # "error"
      <4>1. PICK f \in calls : f.kind = "fetch" /\ f.item = j /\ f.state # "error"  BY <3>3
      <4>2. CASE f = c
        <5>1. h \in calls' /\ h.kind = "fetch" /\ h.item = j /\ h.state # "error"
          BY <1>3, <1>4, <1>5, <3>3, <4>1, <4>2
        <5> QED  BY <1>2, <3>3, <5>1 DEF Follows
      <4>3. CASE f # c  BY <1>2, <1>4, <3>3, <4>1, <4>3 DEF Follows
      <4> QED  BY <4>2, <4>3
    <3> QED  BY <2>2, <3>1, <3>2, <3>3 DEF Follows
  <2> QED  BY <1>2, <2>1, <2>2 DEF FollowInv
<1> QED  BY <1>10, <1>11

\* The answer c becomes the question h for the names, or the answer to it.
LEMMA NamesView ==
    ASSUME Inv, Inv', NEW born \in Births, ViewInv(born), NEW c \in calls, NEW h \in CallType,
           Full(c), Full(h), calls' = (calls \ {c}) \cup {h}, h.item = c.item,
           h.version = c.version, h.shot = c.shot, h.kind = "names",
           UNCHANGED <<server, shown, moveQueue, version, newest, wanted>>
    PROVE  ViewInv(born)' /\ FollowInv'
<1> DEFINE K == calls \ {c}
           D == {h}
<1>1. TypeOK /\ TypeOK' /\ version \in Nat /\ c.version \in Nat /\ newest \in Nat
  BY DEF Inv, TypeOK, CallType
<1>2. /\ version <= version' /\ h.version <= version' /\ \A d \in calls : d.version <= version
      /\ \A j \in Records : server'[j] = server[j]
      /\ \A j \in Records : server[j] = NoPlace => server'[j] = NoPlace
  BY <1>1 DEF ViewInv
<1>3. /\ c.kind = "fetch" => h.kind = "fetch"
      /\ c.kind = "read" /\ c.state = "sent" => Full(h) /\ h.version = version
      /\ \A j \in Records : Brings(c, j) => Brings(h, j) /\ h.version = c.version
  BY DEF Full, Brings
<1>4. ASSUME NEW j \in Records PROVE CallInv(born, h, j)' /\ AnswerInv(born, h, j)'
  <2>1. CallInv(born, c, j) /\ AnswerInv(born, c, j)  BY DEF ViewInv
  <2>2. CallInv(born, h, j)'  BY <2>1 DEF CallInv, Created
  <2>3. AnswerInv(born, h, j)'
    <3>1. SUFFICES ASSUME newest <= c.version, c.shot[j] # server[j], ~(c.version < born[j])
                   PROVE  News(j, h.version)'
      BY DEF AnswerInv
    <3>2. News(j, c.version)  BY <2>1, <3>1 DEF AnswerInv, Tells
    <3>3. PICK v \in Nat : v = c.version  BY <1>1
    <3>4. /\ K \in SUBSET calls /\ D \in SUBSET CallType /\ calls' = K \cup D
          /\ \A d \in calls \ K : d.kind = "read" /\ d.state = "sent" =>
                 \E e \in D : Full(e) /\ e.version = version
          /\ \A d \in calls \ K : Brings(d, j) =>
                 d.version <= newest' \/ \E e \in D : Brings(e, j) /\ e.version = d.version
          /\ News(j, v)
      BY <1>3, <3>2, <3>3
    <3> HIDE DEF K, D
    <3>5. News(j, v)' \/ v < newest'  BY <1>1, <1>2, <3>4, NewsStep
    <3> QED  BY <1>1, <3>1, <3>3, <3>5
  <2> QED  BY <2>2, <2>3
<1>5. ViewInv(born)'  BY <1>2, <1>3, <1>4, HandledView
<1>6. FollowInv'  BY DEF FollowInv, Busy
<1> QED  BY <1>5, <1>6

LEMMA ServeNamesView ==
    ASSUME Inv, Inv', NEW born \in Births, ViewInv(born), NEW c \in calls, ServeNames(c)
    PROVE  ViewInv(born)' /\ FollowInv'
<1>1. c \in CallType /\ c.kind = "names"  BY DEF Inv, TypeOK, ServeNames
<1>2. PICK s \in {"ok", "error"} : Handled(c, s, c.version, c.shot)  BY DEF ServeNames
<1> DEFINE h == [c EXCEPT !.state = s, !.version = c.version, !.shot = c.shot]
<1>3. calls' = (calls \ {c}) \cup {h}  BY <1>2 DEF Handled
<1>4. UNCHANGED <<server, shown, moveQueue, version, newest, wanted>>  BY DEF ServeNames, history
<1> HIDE DEF h
<1>5. /\ h \in CallType /\ h.kind = "names" /\ h.item = c.item /\ h.version = c.version
      /\ h.shot = c.shot
  BY <1>1 DEF h, CallType
<1>6. Full(c) /\ Full(h)  BY <1>1, <1>5 DEF Full
<1> QED  BY <1>3, <1>4, <1>5, <1>6, NamesView

LEMMA DataLoadedView ==
    ASSUME Inv, Inv', NEW born \in Births, ViewInv(born), NEW c \in calls, DataLoaded(c)
    PROVE  ViewInv(born)' /\ FollowInv'
<1> DEFINE h == [c EXCEPT !.kind = "names", !.state = "sent"]
<1>1. /\ c \in CallType /\ c.kind = "read" /\ c.state = "ok" /\ calls' = (calls \ {c}) \cup {h}
      /\ UNCHANGED <<server, shown, moveQueue, version, newest, wanted>>
  BY DEF Inv, TypeOK, DataLoaded, history
<1> HIDE DEF h
<1>2. /\ h \in CallType /\ h.kind = "names" /\ h.item = c.item /\ h.version = c.version
      /\ h.shot = c.shot
  BY <1>1 DEF h, CallType
<1>3. Full(c) /\ Full(h)  BY <1>1, <1>2 DEF Full
<1> QED  BY <1>1, <1>2, <1>3, NamesView

\* The page takes the answer c, and may read again.
LEMMA EndedView ==
    ASSUME Inv, Inv', NEW born \in Births, ViewInv(born), NEW c \in calls,
           NEW D \in SUBSET CallType, calls' = (calls \ {c}) \cup D,
           \A d \in D : d.kind = "read" /\ d.state = "sent" /\ d.version = 0,
           UNCHANGED <<server, moveQueue, version, wanted>>,
           newest' \in {newest, c.version}, newest <= newest', c.state # "sent",
           \A j \in Records : Brings(c, j) => c.version <= newest',
           \A j \in Records : shown'[j] # NoPlace => Created(born, j, newest)',
           \A j \in Records : c.kind = "fetch" /\ c.item = j => born[j] <= newest'
    PROVE  ViewInv(born)'
<1> DEFINE K == calls \ {c}
<1>1. TypeOK /\ TypeOK'  BY DEF Inv
<1>2. /\ version \in Nat /\ newest \in Nat /\ newest' \in Nat /\ newest <= version
      /\ c.version <= version /\ \A j \in Records : born[j] \in Nat
  BY <1>1 DEF ViewInv, TypeOK, Births
<1>3. newest' <= version' /\ version <= version'  BY <1>2
<1>4. \A j \in Records : wanted[j] # NoPlace =>
          /\ wanted'[j] # NoPlace /\ born[j] = born[j]
          /\ server[j] = NoPlace => server'[j] = NoPlace
  OBVIOUS
<1>5. ASSUME NEW j \in Records PROVE RecordInv(born, j)'
  <2>1. RecordInv(born, j)  BY DEF ViewInv
  <2>2. newest' < born[j] => newest < born[j]  BY <1>2
  <2>3. wanted[j] # NoPlace /\ newest' < born[j] => \E f \in calls' : f.kind = "fetch" /\ f.item = j
    <3>1. SUFFICES ASSUME wanted[j] # NoPlace, newest' < born[j]
                   PROVE  \E f \in calls' : f.kind = "fetch" /\ f.item = j
      OBVIOUS
    <3>2. PICK f \in calls : f.kind = "fetch" /\ f.item = j  BY <2>1, <2>2, <3>1 DEF RecordInv
    <3>3. f # c  BY <1>2, <3>1, <3>2
    <3> QED  BY <3>2, <3>3
  <2>4. born[j] <= newest => born[j] <= newest'  BY <1>2
  <2> QED  BY <2>1, <2>3, <2>4 DEF RecordInv, Created
<1>6. QueueInv(born)'
  <2>1. \A n \in DOMAIN moveQueue : born[moveQueue[n].item] <= newest => born[moveQueue[n].item] <= newest'
    BY <1>1, <1>2, QueueItems
  <2> QED  BY <2>1 DEF ViewInv, QueueInv, Created
<1>7. \A d \in D : d.version <= version'  BY <1>2
<1>8. ASSUME NEW d \in D, NEW j \in Records PROVE CallInv(born, d, j)' /\ AnswerInv(born, d, j)'
  <2>1. ~Full(d) /\ ~Tells(d, j) /\ d.kind = "read"  BY DEF Full, Tells
  <2> QED  BY <2>1 DEF CallInv, AnswerInv
<1>9. /\ \A j \in Records : RecordInv(born, j)'
      /\ \A j \in Records : server'[j] # server[j] =>
             version < born[j] \/ \A v \in Nat : v <= version => News(j, v)'
      /\ \A d \in D, j \in Records : CallInv(born, d, j)' /\ AnswerInv(born, d, j)'
  BY <1>5, <1>8
<1>10. /\ K \in SUBSET calls /\ calls' = K \cup D
       /\ \A d \in calls \ K : d.kind = "read" /\ d.state = "sent" =>
              \E e \in D : Full(e) /\ e.version = version
       /\ \A d \in calls \ K, j \in Records : Brings(d, j) =>
              d.version <= newest' \/ \E e \in D : Brings(e, j) /\ e.version = d.version
  OBVIOUS
<1> HIDE DEF K
<1> QED  BY <1>1, <1>3, <1>4, <1>6, <1>7, <1>9, <1>10, ViewStep

LEMMA MoveSavedView ==
    ASSUME Inv, Inv', NEW born \in Births, ViewInv(born), NEW c \in calls, MoveSaved(c)
    PROVE  ViewInv(born)' /\ FollowInv'
<1>1. /\ TypeOK /\ c \in CallType /\ IdsBounded /\ shown \in Picture
      /\ newest \in Nat /\ c.version \in Nat /\ c.batch \in 0..MaxUses
  BY DEF Inv, TypeOK, CallsInv, CallType
<1>2. /\ c.kind = "write" /\ c.state = "ok" /\ newest' = Max({newest, c.version})
      /\ shown' = [shown EXCEPT ![c.item] = c.place]
      /\ UNCHANGED <<server, moveQueue, version, wanted>>
  BY DEF MoveSaved
<1>3. newest' \in {newest, c.version} /\ newest <= newest' /\ c.version <= newest' /\ newest' \in Nat
  BY <1>1, <1>2, MaxOfTwo
<1>4. PICK D \in SUBSET CallType :
        /\ calls' = (calls \ {c}) \cup D
        /\ \A d \in D : d.kind = "read" /\ d.state = "sent" /\ d.version = 0
        /\ LastOf(c) /\ c.batch \notin broken => D # {}
  <2> DEFINE d == SearchRead(c.batch)
  <2>1. /\ d \in CallType /\ d.kind = "read" /\ d.state = "sent" /\ d.version = 0
    BY <1>1, ReadFields
  <2>2. calls' = (calls \ {c}) \cup (IF LastOf(c) /\ c.batch \notin broken THEN {d} ELSE {})
    BY DEF MoveSaved
  <2> HIDE DEF d
  <2>3. CASE LastOf(c) /\ c.batch \notin broken
    <3>1. {d} \in SUBSET CallType /\ \A e \in {d} : e = d  BY <2>1
    <3> QED  BY <2>1, <2>2, <2>3, <3>1
  <2>4. CASE ~(LastOf(c) /\ c.batch \notin broken)
    <3>1. {} \in SUBSET CallType /\ \A e \in {} : FALSE  OBVIOUS
    <3> QED  BY <2>2, <2>4, <3>1
  <2> QED  BY <2>3, <2>4
<1>5. ASSUME NEW j \in Records, shown'[j] # NoPlace PROVE Created(born, j, newest)'
  <2>1. RecordInv(born, j) /\ CallInv(born, c, j)  BY DEF ViewInv
  <2>2. Created(born, j, newest)
    <3>1. CASE c.item = j  BY <1>2, <2>1, <3>1 DEF CallInv
    <3>2. CASE c.item # j
      <4>1. shown'[j] = shown[j]  BY <1>1, <1>2, <3>2 DEF Picture
      <4> QED  BY <1>5, <2>1, <4>1 DEF RecordInv
    <3> QED  BY <3>1, <3>2
  <2>3. born[j] \in Nat  BY DEF Births
  <2> QED  BY <1>1, <1>2, <1>3, <2>2, <2>3 DEF Created
<1>6. c.kind # "fetch" /\ c.state # "sent" /\ \A j \in Records : Brings(c, j) => c.version <= newest'
  BY <1>2, <1>3
<1>7. ViewInv(born)'  BY <1>2, <1>3, <1>4, <1>5, <1>6, EndedView
<1>8. FollowInv'
  <2>1. SUFFICES ASSUME astray' = {} PROVE Busy'  BY DEF FollowInv
  <2>2. c.batch \notin broken  BY <2>1 DEF MoveSaved
  <2>3. CASE LastOf(c)
    <3>1. PICK d \in D : d.kind = "read"  BY <1>4, <2>2, <2>3
    <3> QED  BY <1>4, <3>1 DEF Busy
  <2>4. CASE ~LastOf(c)
    <3>1. PICK d \in calls \ {c} : d.kind = "write"  BY <2>4 DEF LastOf
    <3> QED  BY <1>4, <3>1 DEF Busy
  <2> QED  BY <2>3, <2>4
<1> QED  BY <1>7, <1>8

\* A call that is dropped.
LEMMA DroppedView ==
    ASSUME Inv, Inv', NEW born \in Births, ViewInv(born), NEW c \in calls, calls' = calls \ {c},
           UNCHANGED <<server, moveQueue, version, wanted>>,
           newest' \in {newest, c.version}, newest <= newest', c.state # "sent",
           \A j \in Records : Brings(c, j) => c.version <= newest',
           \A j \in Records : shown'[j] # NoPlace => Created(born, j, newest)',
           \A j \in Records : c.kind = "fetch" /\ c.item = j => born[j] <= newest'
    PROVE  ViewInv(born)'
<1> DEFINE D == {}
<1>1. /\ D \in SUBSET CallType /\ calls' = (calls \ {c}) \cup D
      /\ \A d \in D : d.kind = "read" /\ d.state = "sent" /\ d.version = 0
  OBVIOUS
<1> HIDE DEF D
<1> QED  BY <1>1, EndedView

LEMMA MoveFailedView ==
    ASSUME Inv, Inv', NEW born \in Births, ViewInv(born), NEW c \in calls, MoveFailed(c)
    PROVE  ViewInv(born)' /\ FollowInv'
<1>1. /\ c.kind = "write" /\ c.state = "error" /\ calls' = calls \ {c}
      /\ astray' = astray \cup {"skipped"}
      /\ UNCHANGED <<server, shown, moveQueue, version, newest, wanted>>
  BY DEF MoveFailed
<1>2. newest \in Nat /\ \A j \in Records : ~Brings(c, j)
  BY <1>1 DEF Inv, TypeOK, Brings, Full
<1>3. ASSUME NEW j \in Records, shown'[j] # NoPlace PROVE Created(born, j, newest)'
  BY <1>1, <1>3 DEF ViewInv, RecordInv, Created
<1>4. newest' \in {newest, c.version} /\ newest <= newest'  BY <1>1, <1>2
<1>5. ViewInv(born)'  BY <1>1, <1>2, <1>3, <1>4, DroppedView
<1>6. FollowInv'  BY <1>1 DEF FollowInv
<1> QED  BY <1>5, <1>6

LEMMA NamesFailedView ==
    ASSUME Inv, Inv', NEW born \in Births, ViewInv(born), NEW c \in calls, NamesFailed(c)
    PROVE  ViewInv(born)' /\ FollowInv'
<1>1. /\ c.kind = "names" /\ c.state = "error" /\ calls' = calls \ {c}
      /\ newest' = Max({newest, c.version}) /\ astray' = astray \cup {"aborted"}
      /\ UNCHANGED <<server, shown, moveQueue, version, wanted>>
  BY DEF NamesFailed
<1>2. newest \in Nat /\ c.version \in Nat  BY DEF Inv, TypeOK, CallType
<1>3. newest' \in {newest, c.version} /\ newest <= newest' /\ c.version <= newest' /\ newest' \in Nat
  BY <1>1, <1>2, MaxOfTwo
<1>4. ASSUME NEW j \in Records, shown'[j] # NoPlace PROVE Created(born, j, newest)'
  <2>1. Created(born, j, newest)  BY <1>1, <1>4 DEF ViewInv, RecordInv
  <2>2. born[j] \in Nat  BY DEF Births
  <2> QED  BY <1>1, <1>2, <1>3, <2>1, <2>2 DEF Created
<1>5. c.kind # "fetch" /\ c.state # "sent" /\ \A j \in Records : Brings(c, j) => c.version <= newest'
  BY <1>1, <1>3
<1>6. ViewInv(born)'  BY <1>1, <1>3, <1>4, <1>5, DroppedView
<1>7. FollowInv'  BY <1>1 DEF FollowInv
<1> QED  BY <1>6, <1>7

\* News is held by a call that keeps the page busy, or by the removal of the record.
LEMMA NewsHeld ==
    ASSUME NEW i \in Records, NEW v \in Nat, News(i, v)
    PROVE  \E d \in calls : /\ d.kind \in {"write", "read", "names"} \/
                                  (d.kind = "unlink" /\ d.state = "ok" /\ d.item = i)
                            /\ d.kind = "names" => v < d.version
<1>1. CASE \E d \in calls : d.kind = "read" /\ d.state = "sent"  BY <1>1
<1>2. CASE \E d \in calls : Brings(d, i) /\ v < d.version  BY <1>2 DEF Brings, Full
<1> QED  BY <1>1, <1>2 DEF News

LEMMA SetItemsView ==
    ASSUME Inv, Inv', NEW born \in Births, ViewInv(born), NEW c \in calls, SetItems(c)
    PROVE  ViewInv(born)' /\ FollowInv'
<1>1. /\ c.kind = "names" /\ c.state = "ok" /\ calls' = calls \ {c} /\ shown' = c.shot
      /\ newest' = Max({newest, c.version})
      /\ astray' = (IF c.version >= newest THEN {} ELSE {"late"})
      /\ UNCHANGED <<server, moveQueue, version, wanted>>
  BY DEF SetItems
<1>2. newest \in Nat /\ c.version \in Nat  BY DEF Inv, TypeOK, CallType
<1>3. newest' \in {newest, c.version} /\ newest <= newest' /\ c.version <= newest' /\ newest' \in Nat
  BY <1>1, <1>2, MaxOfTwo
<1>4. Full(c) /\ \A j \in Records : Tells(c, j)  BY <1>1 DEF Full, Tells
<1>5. \A j \in Records : born[j] \in Nat  BY DEF Births
<1>6. ASSUME NEW j \in Records, shown'[j] # NoPlace PROVE Created(born, j, newest)'
  <2>1. Created(born, j, c.version)  BY <1>1, <1>4, <1>6 DEF ViewInv, CallInv
  <2> QED  BY <1>1, <1>2, <1>3, <1>5, <2>1 DEF Created
<1>7. c.kind # "fetch" /\ c.state # "sent" /\ \A j \in Records : Brings(c, j) => c.version <= newest'
  BY <1>1, <1>3
<1>8. ViewInv(born)'  BY <1>1, <1>3, <1>6, <1>7, DroppedView
<1>9. FollowInv'
  <2>1. SUFFICES ASSUME astray' = {}, ~Busy', NEW j \in Records PROVE Follows(j)'
    BY DEF FollowInv
  <2>2. newest <= c.version  BY <1>1, <1>2, <2>1
  <2>3. AnswerInv(born, c, j) /\ CallInv(born, c, j) /\ RecordInv(born, j)  BY DEF ViewInv
  <2>4. CASE c.shot[j] = server[j]  BY <1>1, <2>4 DEF Follows
  <2>5. CASE News(j, c.version)
    <3>1. PICK v \in Nat : v = c.version  BY <1>2
    <3>2. PICK d \in calls : /\ d.kind \in {"write", "read", "names"} \/
                                  (d.kind = "unlink" /\ d.state = "ok" /\ d.item = j)
                             /\ d.kind = "names" => v < d.version
      BY <2>5, <3>1, NewsHeld
    <3>3. d \in calls'  BY <1>1, <1>2, <3>1, <3>2
    <3>4. d.kind = "unlink" /\ d.state = "ok" /\ d.item = j  BY <2>1, <3>2, <3>3 DEF Busy
    <3> QED  BY <3>3, <3>4 DEF Follows
  <2>6. CASE c.shot[j] # server[j] /\ c.version < born[j]
    <3>1. c.shot[j] = NoPlace  BY <1>2, <1>4, <1>5, <2>3, <2>6 DEF CallInv, Created
    <3>2. wanted[j] # NoPlace /\ newest < born[j]
      BY <1>2, <1>5, <2>2, <2>3, <2>6, <3>1 DEF RecordInv, Created
    <3>3. PICK f \in calls : f.kind = "fetch" /\ f.item = j  BY <2>3, <3>2 DEF RecordInv
    <3>4. CallInv(born, f, j)  BY DEF ViewInv
    <3>5. f.state # "error"  BY <1>2, <1>5, <3>2, <3>3, <3>4 DEF CallInv
    <3>6. f \in calls'  BY <1>1, <3>3
    <3> QED  BY <1>1, <3>1, <3>3, <3>5, <3>6 DEF Follows
  <2> QED  BY <1>4, <2>2, <2>3, <2>4, <2>5, <2>6 DEF AnswerInv
<1> QED  BY <1>8, <1>9

LEMMA RemoveCompletedView ==
    ASSUME Inv, Inv', NEW born \in Births, ViewInv(born), FollowInv, NEW c \in calls,
           RemoveCompleted(c)
    PROVE  ViewInv(born)' /\ FollowInv'
<1>1. /\ c.kind = "unlink" /\ c.state # "sent" /\ calls' = calls \ {c}
      /\ \/ c.state = "ok" /\ shown' = [shown EXCEPT ![c.item] = NoPlace]
            /\ newest' = Max({newest, c.version})
         \/ c.state # "ok" /\ shown' = shown /\ newest' = newest
      /\ UNCHANGED <<server, moveQueue, version, wanted, astray>>
  BY DEF RemoveCompleted
<1>2. newest \in Nat /\ c.version \in Nat /\ shown \in Picture  BY DEF Inv, TypeOK, CallType
<1>3. /\ newest' \in {newest, c.version} /\ newest <= newest' /\ newest' \in Nat
      /\ c.state = "ok" => c.version <= newest'
  BY <1>1, <1>2, MaxOfTwo
<1>4. /\ \A j \in Records : c.state = "ok" /\ j = c.item => shown'[j] = NoPlace
      /\ \A j \in Records : ~(c.state = "ok" /\ j = c.item) => shown'[j] = shown[j]
  BY <1>1, <1>2 DEF Picture
<1>5. \A j \in Records : born[j] \in Nat  BY DEF Births
<1>6. ASSUME NEW j \in Records, shown'[j] # NoPlace PROVE Created(born, j, newest)'
  <2>1. Created(born, j, newest)  BY <1>4, <1>6 DEF ViewInv, RecordInv
  <2> QED  BY <1>1, <1>2, <1>3, <1>5, <2>1 DEF Created
<1>7. /\ c.kind # "fetch" /\ c.state # "sent"
      /\ \A j \in Records : Brings(c, j) => c.version <= newest'
  BY <1>1, <1>3 DEF Brings, Full
<1>8. ViewInv(born)'  BY <1>1, <1>3, <1>6, <1>7, DroppedView
<1>9. FollowInv'
  <2>1. Busy => Busy'  BY <1>1 DEF Busy
  <2>2. ASSUME NEW j \in Records, Follows(j) PROVE Follows(j)'
    <3>1. CASE c.state = "ok" /\ c.item = j
      <4>1. server[j] = NoPlace  BY <1>1, <3>1 DEF ViewInv, CallInv
      <4> QED  BY <1>1, <1>4, <3>1, <4>1 DEF Follows
    <3>2. CASE ~(c.state = "ok" /\ c.item = j)
      <4>1. shown'[j] = shown[j]  BY <1>4, <3>2
      <4>2. \A d \in calls : d # c => d \in calls'  BY <1>1
      <4> QED  BY <1>1, <2>2, <3>2, <4>1, <4>2 DEF Follows
    <3> QED  BY <3>1, <3>2
  <2> QED  BY <1>1, <2>1, <2>2 DEF FollowInv
<1> QED  BY <1>8, <1>9

\* The new item is added, unless the view has it already or the record is gone.
LEMMA CreateCompletedView ==
    ASSUME Inv, Inv', NEW born \in Births, ViewInv(born), FollowInv, Drawn, NEW c \in calls,
           CreateCompleted(c)
    PROVE  ViewInv(born)' /\ FollowInv'
<1> DEFINE Added == c.state = "ok" /\ items[c.item] = NoPlace
<1>1. /\ c.kind = "fetch" /\ c.state # "sent" /\ calls' = calls \ {c}
      /\ UNCHANGED <<server, moveQueue, version, wanted>>
  BY DEF CreateCompleted
<1>2. Added => /\ shown' = [items EXCEPT ![c.item] = c.shot[c.item]]
               /\ newest' = Max({newest, c.version})
               /\ astray' = IF c.version >= newest THEN astray ELSE astray \cup {"late"}
  BY DEF CreateCompleted
<1>3. ~Added => UNCHANGED <<shown, newest, astray>>  BY DEF CreateCompleted
<1>4. /\ newest \in Nat /\ c.version \in Nat /\ items \in Picture
      /\ c.state \in {"sent", "ok", "error"}
  BY DEF Inv, TypeOK, CallType
<1>5. /\ newest' \in {newest, c.version} /\ newest <= newest' /\ newest' \in Nat
      /\ Added => c.version <= newest'
  BY <1>2, <1>3, <1>4, MaxOfTwo
<1>6. /\ \A j \in Records : Added /\ j = c.item => shown'[j] = c.shot[j]
      /\ \A j \in Records : ~(Added /\ j = c.item) =>
            /\ shown'[j] \in {items[j], shown[j]}
            /\ shown'[j] # NoPlace => shown[j] # NoPlace
  <2>1. CASE Added
    <3>1. shown' = [items EXCEPT ![c.item] = c.shot[c.item]]  BY <1>2, <2>1
    <3>2. ASSUME NEW j \in Records
          PROVE  shown'[j] = IF j = c.item THEN c.shot[j] ELSE items[j]
      BY <1>4, <3>1 DEF Picture
    <3> QED  BY <2>1, <3>2 DEF Drawn
  <2>2. CASE ~Added
    <3>1. shown' = shown  BY <1>3, <2>2
    <3> QED  BY <2>2, <3>1
  <2> QED  BY <2>1, <2>2
<1>7. \A j \in Records : born[j] \in Nat  BY DEF Births
<1>8. ASSUME NEW j \in Records, c.item = j PROVE born[j] <= newest' /\ wanted[j] # NoPlace
  <2>1. CallInv(born, c, j) /\ RecordInv(born, j)  BY DEF ViewInv
  <2>2. wanted[j] # NoPlace  BY <1>1, <1>8, <2>1 DEF CallInv
  <2>3. CASE Added
    <3>1. born[j] <= c.version  BY <1>1, <1>8, <2>1, <2>3 DEF CallInv
    <3> QED  BY <1>4, <1>5, <1>7, <2>2, <2>3, <3>1
  <2>4. CASE ~Added
    <3>1. born[j] <= newest
      <4>1. c.state = "ok" => shown[j] # NoPlace  BY <1>8, <2>4 DEF Drawn
      <4> QED  BY <1>1, <1>4, <1>8, <2>1, <4>1 DEF CallInv, RecordInv, Created
    <3> QED  BY <1>4, <1>5, <1>7, <2>2, <3>1
  <2> QED  BY <2>3, <2>4
<1> HIDE DEF Added
<1>9. ASSUME NEW j \in Records, shown'[j] # NoPlace PROVE Created(born, j, newest)'
  <2>1. CASE c.item = j  BY <1>1, <1>8, <2>1 DEF Created
  <2>2. CASE c.item # j
    <3>1. Created(born, j, newest)  BY <1>6, <1>9, <2>2 DEF ViewInv, RecordInv
    <3> QED  BY <1>1, <1>4, <1>5, <1>7, <3>1 DEF Created
  <2> QED  BY <2>1, <2>2
<1>10. \A j \in Records : Brings(c, j) => c.version <= newest'  BY <1>1 DEF Brings, Full
<1>11. \A j \in Records : c.kind = "fetch" /\ c.item = j => born[j] <= newest'  BY <1>8
<1>12. ViewInv(born)'  BY <1>1, <1>5, <1>9, <1>10, <1>11, DroppedView
<1>13. FollowInv'
  <2>1. Busy => Busy'  BY <1>1 DEF Busy
  <2>2. SUFFICES ASSUME astray' = {}, ~Busy, NEW j \in Records PROVE Follows(j)'
    BY <2>1 DEF FollowInv
  <2>3. astray = {} /\ (Added => newest <= c.version)
    <3>1. CASE Added  BY <1>2, <1>4, <2>2, <3>1
    <3>2. CASE ~Added  BY <1>3, <2>2, <3>2
    <3> QED  BY <3>1, <3>2
  <2>4. Follows(j)  BY <2>2, <2>3 DEF FollowInv
  <2>5. CASE Added /\ c.item = j
    <3>1. AnswerInv(born, c, j) /\ CallInv(born, c, j)  BY DEF ViewInv
    <3>2. c.state = "ok"  BY <2>5 DEF Added
    <3>3. CASE c.shot[j] = server[j]  BY <1>1, <1>6, <2>5, <3>3 DEF Follows
    <3>4. CASE c.shot[j] # server[j]
      <4>1. ~(c.version < born[j])  BY <1>1, <1>4, <1>7, <2>5, <3>1, <3>2 DEF CallInv
      <4>2. News(j, c.version)  BY <1>1, <2>3, <2>5, <3>1, <3>2, <3>4, <4>1 DEF AnswerInv, Tells
      <4>3. PICK v \in Nat : v = c.version  BY <1>4
      <4>4. PICK d \in calls : d.kind \in {"write", "read", "names"} \/
                                   (d.kind = "unlink" /\ d.state = "ok" /\ d.item = j)
        BY <4>2, <4>3, NewsHeld
      <4>5. d.kind = "unlink" /\ d.state = "ok" /\ d.item = j  BY <2>2, <4>4 DEF Busy
      <4>6. d \in calls'  BY <1>1, <4>5
      <4> QED  BY <4>5, <4>6 DEF Follows
    <3> QED  BY <3>3, <3>4
  <2>6. CASE ~(Added /\ c.item = j)
    <3>1. items = shown  BY <2>2, <2>3 DEF Drawn
    <3>2. shown'[j] = shown[j]  BY <1>6, <2>6, <3>1
    <3>3. c.item = j /\ shown[j] = NoPlace => c.state = "error"
      BY <1>1, <1>4, <2>6, <3>1 DEF Added
    <3>4. \A d \in calls : d # c => d \in calls'  BY <1>1
    <3> QED  BY <1>1, <2>4, <3>2, <3>3, <3>4 DEF Follows
  <2> QED  BY <2>5, <2>6
<1> QED  BY <1>12, <1>13

-----------------------------------------------------------------------------
(* The items of the data set, and all of it together *)

LEMMA DrawnStep == Inv /\ Drawn /\ [Next]_vars => Drawn'
<1> SUFFICES ASSUME Inv, Drawn, [Next]_vars PROVE Drawn'  OBVIOUS
<1> DEFINE Same == UNCHANGED <<shown, items>>
<1>1. shown \in Picture /\ items \in Picture  BY DEF Inv, TypeOK
<1>2. ASSUME Same, astray' = astray, Busy => Busy' PROVE Drawn'  BY <1>2 DEF Drawn
<1>3. ASSUME Same, Busy' PROVE Drawn'  BY <1>3 DEF Drawn
<1>4. CASE UNCHANGED vars  BY <1>2, <1>4 DEF vars, Busy
<1>5. CASE InternalMove
  <2>1. Len(moveQueue) \in Nat /\ Len(moveQueue) # 0 /\ DOMAIN moveQueue = 1..Len(moveQueue)
    BY <1>5 DEF InternalMove, Inv, TypeOK
  <2>2. Sent(1) \in calls' /\ Sent(1).kind = "write"
    <3>1. 1 \in DOMAIN moveQueue  BY <2>1
    <3>2. calls' = calls \cup {Sent(n) : n \in DOMAIN moveQueue}  BY <1>5 DEF InternalMove, Sent
    <3>3. Sent(1).kind = "write"  BY <1>5, <3>1, SentFields
    <3> QED  BY <3>1, <3>2, <3>3
  <2> QED  BY <1>3, <1>5, <2>2 DEF InternalMove, Busy
<1>6. ASSUME NEW i \in Records, OnRemove(i) PROVE Drawn'
  BY <1>2, <1>6 DEF OnRemove, Busy
<1>7. ASSUME NEW i \in Records, NEW p \in Places, OnMove(i, p) PROVE Drawn'
  <2>1. p # NoPlace /\ shown[i] # NoPlace /\ shown' = [shown EXCEPT ![i] = p] /\ items' = items
    BY <1>7, PlacesType DEF OnMove
  <2>2. moveQueue' # <<>>  BY <1>7 DEF OnMove, Inv, TypeOK
  <2> QED  BY <1>1, <2>1, <2>2 DEF Drawn, Busy, Picture
<1>8. ASSUME NEW i \in Records, NEW p \in Places, OnAdd(i, p) PROVE Drawn'
  BY <1>2, <1>8 DEF OnAdd, Busy
<1>9. ASSUME NEW i \in Records, NEW p \in Places, OnUpdate(i, p) PROVE Drawn'
  <2>1. SearchRead(0) \in calls' /\ SearchRead(0).kind = "read"
    BY <1>9 DEF OnUpdate, SearchRead, Call
  <2> QED  BY <1>3, <1>9, <2>1 DEF OnUpdate, Busy
<1>10. ASSUME NEW c \in calls, Serve(c) PROVE Drawn'
  <2>1. Same /\ astray' = astray /\ moveQueue' = moveQueue
    BY <1>10 DEF Serve, ServeWrite, ServeUnlink, ServeRead, ServeNames, history
  <2>2. PICK d : d.kind = c.kind /\ calls' = (calls \ {c}) \cup {d}
    <3>1. c \in CallType  BY DEF Inv, TypeOK
    <3>2. ASSUME NEW s, NEW v, NEW q PROVE [c EXCEPT !.state = s, !.version = v, !.shot = q].kind = c.kind
      BY <3>1 DEF CallType
    <3>3. \E s, v, q : Handled(c, s, v, q)
      BY <1>10 DEF Serve, ServeWrite, ServeUnlink, ServeRead, ServeNames
    <3> QED  BY <3>2, <3>3 DEF Handled
  <2> QED  BY <1>2, <2>1, <2>2 DEF Busy
<1>11. ASSUME NEW c \in calls, MoveSaved(c) PROVE Drawn'
  <2>1. /\ shown' = [shown EXCEPT ![c.item] = c.place]
        /\ items' = [items EXCEPT ![c.item] = c.place]
    BY <1>11 DEF MoveSaved
  <2>2. CASE c.batch \in broken
    BY <1>1, <1>11, <2>1, <2>2 DEF MoveSaved, Drawn, Picture
  <2>3. CASE c.batch \notin broken
    <3>1. Busy'
      <4>1. CASE LastOf(c)
        <5>1. SearchRead(c.batch) \in calls'  BY <1>11, <2>3, <4>1 DEF MoveSaved
        <5>2. SearchRead(c.batch).kind = "read"  BY DEF SearchRead, Call
        <5> QED  BY <5>1, <5>2 DEF Busy
      <4>2. CASE ~LastOf(c)
        BY <1>11, <2>3, <4>2 DEF MoveSaved, Busy, LastOf
      <4> QED  BY <4>1, <4>2
    <3> QED  BY <1>1, <2>1, <3>1 DEF Drawn, Picture
  <2> QED  BY <2>2, <2>3
<1>12. ASSUME NEW c \in calls, MoveFailed(c) PROVE Drawn'
  BY <1>12 DEF MoveFailed, Drawn
<1>13. ASSUME NEW c \in calls, DataLoaded(c) PROVE Drawn'
  <2>1. [c EXCEPT !.kind = "names", !.state = "sent"].kind = "names"  BY DEF Inv, TypeOK, CallType
  <2> QED  BY <1>3, <1>13, <2>1 DEF DataLoaded, Busy
<1>14. ASSUME NEW c \in calls, SetItems(c) PROVE Drawn'
  BY <1>14 DEF SetItems, Drawn
<1>15. ASSUME NEW c \in calls, NamesFailed(c) PROVE Drawn'
  BY <1>15 DEF NamesFailed, Drawn
<1>16. ASSUME NEW c \in calls, RemoveCompleted(c) PROVE Drawn'
  <2>1. /\ c.kind = "unlink" /\ calls' = calls \ {c} /\ astray' = astray
        /\ moveQueue' = moveQueue
    BY <1>16 DEF RemoveCompleted
  <2>2. Busy => Busy'  BY <2>1 DEF Busy
  <2>3. CASE Same  BY <1>2, <2>1, <2>2, <2>3
  <2>4. CASE /\ shown' = [shown EXCEPT ![c.item] = NoPlace]
             /\ items' = [items EXCEPT ![c.item] = NoPlace]
    BY <1>1, <2>1, <2>2, <2>4 DEF Drawn, Picture
  <2> QED  BY <1>16, <2>3, <2>4 DEF RemoveCompleted
<1>17. ASSUME NEW c \in calls, CreateCompleted(c) PROVE Drawn'
  <2>1. /\ c.kind = "fetch" /\ calls' = calls \ {c} /\ moveQueue' = moveQueue
    BY <1>17 DEF CreateCompleted
  <2>2. Busy => Busy'  BY <2>1 DEF Busy
  <2>3. CASE Same /\ astray' = astray  BY <1>2, <2>2, <2>3
  <2>4. CASE shown' = items'  BY <2>4 DEF Drawn
  <2> QED  BY <1>17, <2>3, <2>4 DEF CreateCompleted
<1> QED
  BY <1>4, <1>5, <1>6, <1>7, <1>8, <1>9, <1>10, <1>11, <1>12, <1>13, <1>14, <1>15, <1>16, <1>17
     DEF Next, User, Answer

Looks == FollowInv /\ Drawn /\ \E born \in Births : ViewInv(born)

LEMMA LooksInit == Init => Looks
<1> SUFFICES ASSUME Init PROVE Looks  OBVIOUS
<1> DEFINE home == [i \in Records |-> IF i \in Stored THEN Home ELSE NoPlace]
           first == [id |-> 1, kind |-> "names", item |-> NoRecord, place |-> NoPlace, batch |-> 0,
                     state |-> "sent", version |-> 0, shot |-> home]
           born == [i \in Records |-> 0]
<1>1. /\ server = home /\ shown = Nothing /\ items = Nothing /\ moveQueue = <<>> /\ calls = {first}
      /\ version = 0 /\ newest = 0 /\ wanted = home
  BY DEF Init
<1>2. born \in Births /\ \A i \in Records : born[i] = 0 /\ shown[i] = NoPlace
  BY <1>1 DEF Births, Nothing
<1> HIDE DEF home, born
<1>3. /\ first.kind = "names" /\ first.item = NoRecord /\ first.version = 0 /\ first.shot = home
  OBVIOUS
<1> HIDE DEF first
<1>4. \A i \in Records : RecordInv(born, i)  BY <1>1, <1>2 DEF RecordInv, Created
<1>5. QueueInv(born)  BY <1>1 DEF QueueInv
<1>6. \A i \in Records : i # NoRecord  BY RecordsType
<1>7. \A c \in calls, i \in Records : CallInv(born, c, i) /\ AnswerInv(born, c, i)
  BY <1>1, <1>2, <1>3, <1>6 DEF CallInv, AnswerInv, Created
<1>8. ViewInv(born)  BY <1>1, <1>3, <1>4, <1>5, <1>7 DEF ViewInv
<1>9. FollowInv /\ Drawn  BY <1>1, <1>3 DEF FollowInv, Drawn, Busy
<1> QED  BY <1>2, <1>8, <1>9 DEF Looks

LEMMA LooksStep == Inv /\ Inv' /\ Looks /\ [Next]_vars => Looks'
<1> SUFFICES ASSUME Inv, Inv', Looks, [Next]_vars PROVE Looks'  OBVIOUS
<1>1. PICK born \in Births : ViewInv(born)  BY DEF Looks
<1>2. FollowInv /\ Drawn /\ Drawn'  BY DrawnStep DEF Looks
<1>3. CASE UNCHANGED vars
  <2>1. /\ UNCHANGED <<server, shown, moveQueue, calls, version, newest, astray, wanted>>
    BY <1>3 DEF vars
  <2>2. FollowInv'  BY <1>2, <2>1 DEF FollowInv, Busy, Follows
  <2>3. ViewInv(born)'
    BY <1>1, <2>1 DEF ViewInv, RecordInv, QueueInv, CallInv, AnswerInv, Created, News
  <2> QED  BY <1>2, <2>2, <2>3 DEF Looks
<1>4. CASE User
  <2>1. CASE InternalMove  BY <1>1, <1>2, <2>1, SendView DEF Looks
  <2>2. ASSUME NEW i \in Records, OnRemove(i) PROVE Looks'
    BY <1>1, <1>2, <2>2, RemoveView DEF Looks
  <2>3. ASSUME NEW i \in Records, NEW p \in Places, OnMove(i, p) PROVE Looks'
    BY <1>1, <1>2, <2>3, MoveView DEF Looks
  <2>4. ASSUME NEW i \in Records, NEW p \in Places, OnAdd(i, p) PROVE Looks'
    BY <1>1, <1>2, <2>4, AddView DEF Looks
  <2>5. ASSUME NEW i \in Records, NEW p \in Places, OnUpdate(i, p) PROVE Looks'
    BY <1>1, <1>2, <2>5, UpdateView DEF Looks
  <2> QED  BY <1>4, <2>1, <2>2, <2>3, <2>4, <2>5 DEF User
<1>5. ASSUME NEW c \in calls, Serve(c) PROVE Looks'
  <2>1. CASE ServeWrite(c)  BY <1>1, <1>2, <2>1, ServeWriteView DEF Looks
  <2>2. CASE ServeUnlink(c)  BY <1>1, <1>2, <2>2, ServeUnlinkView DEF Looks
  <2>3. CASE ServeRead(c)  BY <1>1, <1>2, <2>3, ServeReadView DEF Looks
  <2>4. CASE ServeNames(c)  BY <1>1, <1>2, <2>4, ServeNamesView DEF Looks
  <2> QED  BY <1>5, <2>1, <2>2, <2>3, <2>4 DEF Serve
<1>6. ASSUME NEW c \in calls, Answer(c) PROVE Looks'
  <2>1. CASE MoveSaved(c)  BY <1>1, <1>2, <2>1, MoveSavedView DEF Looks
  <2>2. CASE MoveFailed(c)  BY <1>1, <1>2, <2>2, MoveFailedView DEF Looks
  <2>3. CASE DataLoaded(c)  BY <1>1, <1>2, <2>3, DataLoadedView DEF Looks
  <2>4. CASE SetItems(c)  BY <1>1, <1>2, <2>4, SetItemsView DEF Looks
  <2>5. CASE NamesFailed(c)  BY <1>1, <1>2, <2>5, NamesFailedView DEF Looks
  <2>6. CASE RemoveCompleted(c)  BY <1>1, <1>2, <2>6, RemoveCompletedView DEF Looks
  <2>7. CASE CreateCompleted(c)  BY <1>1, <1>2, <2>7, CreateCompletedView DEF Looks
  <2> QED  BY <1>6, <2>1, <2>2, <2>3, <2>4, <2>5, <2>6, <2>7 DEF Answer
<1> QED  BY <1>3, <1>4, <1>5, <1>6 DEF Next

\* When nothing is under way and none of the three accidents has happened since the
\* view was last up to date, it shows what the database has: an answer that is not
\* overtaken is the database's, up to changes whose own answers are still to come.
THEOREM ViewIsCurrent == Spec => []ViewSettles
<1>1. Inv /\ Looks => ViewSettles
  <2>1. SUFFICES ASSUME Inv, Looks, Quiet, astray = {} PROVE shown = server
    BY DEF ViewSettles
  <2>2. \A i \in Records : shown[i] = server[i]
    BY <2>1 DEF Looks, FollowInv, Busy, Follows, Quiet
  <2>3. shown \in Picture /\ server \in Picture  BY <2>1 DEF Inv, TypeOK
  <2> QED  BY <2>2, <2>3 DEF Picture
<1>2. Inv /\ [Next]_vars => Inv'  BY InvStep
<1>3. Spec => []Looks  BY <1>2, InvAlways, LooksInit, LooksStep, PTL DEF Spec
<1> QED  BY <1>1, <1>3, InvAlways, PTL

=============================================================================
