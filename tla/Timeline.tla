------------------------------ MODULE Timeline ------------------------------
(***************************************************************************)
(* The timeline view of web_timeline in one browser page: what the user    *)
(* moves, removes, adds and edits, the calls the page sends for it, which  *)
(* the server handles in any order and whose answers arrive in any order,  *)
(* and the items the view shows.                                           *)
(*                                                                         *)
(* Moves wait in a queue until the event loop is idle; then all of them    *)
(* are written at once, one call each, and when all have succeeded the     *)
(* records are read again and replace the items of the view.               *)
(***************************************************************************)
EXTENDS Naturals, Sequences, FiniteSetsExt

CONSTANTS
    Records,
    Stored,      \* the records that exist when the view is opened
    Places,      \* where an item can be: its dates and its group
    NoPlace,     \* the place of a record that does not exist, or is not shown
    NoRecord,
    Home,        \* the place of the stored records at first
    MaxUses      \* operations of the user (bound)

ASSUME RecordsType == Stored \subseteq Records /\ NoRecord \notin Records
ASSUME PlacesType == Home \in Places /\ NoPlace \notin Places
ASSUME MaxUsesType == MaxUses \in Nat

VARIABLES
    server,     \* where each record is in the database
    shown,      \* where the view shows its item
    items,      \* where itemsData has it: without what was dropped and is not saved
    moveQueue,  \* moves that are not sent yet
    calls,      \* remote calls: sent, or handled and not yet answered to the page
    batches,    \* the number of times the queue was sent
    broken,     \* the batches with a failed write
    version,    \* history: the number of changes of the database
    newest,     \* history: the newest version that the view has shown, or failed to
    reached,    \* history: the version of the latest write of each batch
    astray,     \* history: why the view may differ from the database
    wanted,     \* history: where the user has put each record last
    contested,  \* history: records whose last write may not be the one that counts
    uses        \* history: operations of the user

vars == <<server, shown, items, moveQueue, calls, batches, broken,
          version, newest, reached, astray, wanted, contested, uses>>

history == <<version, newest, reached, astray, wanted, contested, uses>>

Picture == [Records -> Places \cup {NoPlace}]
Batches == 1..MaxUses

\* A remote call.  "batch" is 0 when it does not belong to one; "version" and
\* "shot" are the database, or the place, when it was handled.
CallType ==
    [id : Nat, kind : {"write", "read", "names", "unlink", "fetch"},
     item : Records \cup {NoRecord}, place : Places \cup {NoPlace}, batch : 0..MaxUses,
     state : {"sent", "ok", "error"}, version : Nat, shot : Picture]

TypeOK ==
    /\ server \in Picture
    /\ shown \in Picture
    /\ items \in Picture
    /\ moveQueue \in Seq([item : Records, place : Places])
    /\ calls \subseteq CallType
    /\ batches \in Nat
    /\ broken \subseteq Batches
    /\ version \in Nat /\ newest \in Nat
    /\ reached \in [Batches -> Nat]
    /\ astray \subseteq {"late", "skipped", "aborted"}
    /\ wanted \in Picture
    /\ contested \subseteq Records
    /\ uses \in Nat

Nothing == [i \in Records |-> NoPlace]
Top     == Max({c.id : c \in calls} \cup {0})

Call(kind, i, p, b) ==
    [id |-> Top + 1, kind |-> kind, item |-> i, place |-> p, batch |-> b,
     state |-> "sent", version |-> 0, shot |-> Nothing]

\* update(): search_read for everything; its answer goes to on_data_loaded.
SearchRead(b) == Call("read", NoRecord, NoPlace, b)

Use == uses < MaxUses /\ uses' = uses + 1

Writing(i) ==
    \/ \E c \in calls : c.kind = "write" /\ c.item = i
    \/ \E n \in DOMAIN moveQueue : moveQueue[n].item = i

\* The user wants record i at p.
Want(i, p) ==
    /\ wanted' = [wanted EXCEPT ![i] = p]
    /\ contested' = IF Writing(i) THEN contested \cup {i} ELSE contested

-----------------------------------------------------------------------------
(* The user *)

\* An item is dropped at another place, where the view shows it from then on;
\* onMove puts the move into the queue and starts the timer of the debounced call.
OnMove(i, p) ==
    /\ shown[i] \notin {NoPlace, p}
    /\ Use
    /\ shown' = [shown EXCEPT ![i] = p]
    /\ moveQueue' = Append(moveQueue, [item |-> i, place |-> p])
    /\ Want(i, p)
    /\ UNCHANGED <<server, items, calls, batches, broken, version, newest, reached, astray>>

\* Mutant: only the last move of the queue is sent.
InternalMoveLast ==
    /\ moveQueue # <<>>
    /\ batches' = batches + 1
    /\ calls' = calls \cup
           {[Call("write", moveQueue[n].item, moveQueue[n].place, batches + 1)
                EXCEPT !.id = Top + n] : n \in {Len(moveQueue)}}
    /\ moveQueue' = <<>>
    /\ UNCHANGED <<server, shown, items, broken, history>>

\* Mutant: the queue is not emptied.
InternalMoveKept ==
    /\ moveQueue # <<>>
    /\ batches' = batches + 1
    /\ calls' = calls \cup
           {[Call("write", moveQueue[n].item, moveQueue[n].place, batches + 1)
                EXCEPT !.id = Top + n] : n \in DOMAIN moveQueue}
    /\ UNCHANGED <<server, shown, items, moveQueue, broken, history>>

\* internalMove: a write for each move of the queue, all at once.
InternalMove ==
    /\ moveQueue # <<>>
    /\ batches' = batches + 1
    /\ calls' = calls \cup
           {[Call("write", moveQueue[n].item, moveQueue[n].place, batches + 1)
                EXCEPT !.id = Top + n] : n \in DOMAIN moveQueue}
    /\ moveQueue' = <<>>
    /\ UNCHANGED <<server, shown, items, broken, history>>

\* onRemove, and the user confirms.
OnRemove(i) ==
    /\ shown[i] # NoPlace
    /\ Use
    /\ calls' = calls \cup {Call("unlink", i, NoPlace, 0)}
    /\ UNCHANGED <<server, shown, items, moveQueue, batches, broken,
                   version, newest, reached, astray, wanted, contested>>

\* onAdd: the form is saved, and create_completed reads the new record.
OnAdd(i, p) ==
    /\ i \notin Stored /\ wanted[i] = NoPlace
    /\ Use
    /\ server' = [server EXCEPT ![i] = p]
    /\ version' = version + 1
    /\ calls' = calls \cup {Call("fetch", i, p, 0)}
    /\ Want(i, p)
    /\ UNCHANGED <<shown, items, moveQueue, batches, broken, newest, reached, astray>>

\* onUpdate: the form of an item is saved, and everything is read again.
OnUpdate(i, p) ==
    /\ shown[i] # NoPlace /\ server[i] \notin {NoPlace, p}
    /\ Use
    /\ server' = [server EXCEPT ![i] = p]
    /\ version' = version + 1
    /\ calls' = calls \cup {SearchRead(0)}
    /\ Want(i, p)
    /\ UNCHANGED <<shown, items, moveQueue, batches, broken, newest, reached, astray>>

-----------------------------------------------------------------------------
(* The server *)

Handled(c, state, v, shot) ==
    calls' = (calls \ {c}) \cup
                 {[c EXCEPT !.state = state, !.version = v, !.shot = shot]}

\* write: refused when the record is gone, and possibly by a rule of its model.
ServeWrite(c) ==
    /\ c.kind = "write" /\ c.state = "sent"
    /\ \/ /\ server[c.item] # NoPlace
          /\ server' = [server EXCEPT ![c.item] = c.place]
          /\ version' = version + 1
          /\ reached' = [reached EXCEPT ![c.batch] = version + 1]
          /\ Handled(c, "ok", version + 1, c.shot)
          /\ UNCHANGED contested
       \/ /\ Handled(c, "error", version, c.shot)
          /\ contested' = contested \cup {c.item}
          /\ UNCHANGED <<server, version, reached>>
    /\ UNCHANGED <<shown, items, moveQueue, batches, broken, newest, astray, wanted, uses>>

ServeUnlink(c) ==
    /\ c.kind = "unlink" /\ c.state = "sent"
    /\ IF server[c.item] # NoPlace
         THEN /\ server' = [server EXCEPT ![c.item] = NoPlace]
              /\ version' = version + 1
              /\ Handled(c, "ok", version + 1, c.shot)
         ELSE /\ \E state \in {"ok", "error"} : Handled(c, state, version, c.shot)
              /\ UNCHANGED <<server, version>>
    /\ UNCHANGED <<shown, items, moveQueue, batches, broken,
                   newest, reached, astray, wanted, contested, uses>>

\* search_read of all records, read of a new one: nothing changes.
ServeRead(c) ==
    /\ c.kind \in {"read", "fetch"} /\ c.state = "sent"
    /\ IF c.kind = "fetch" /\ server[c.item] = NoPlace
         THEN Handled(c, "error", version, c.shot)
         ELSE Handled(c, "ok", version, server)
    /\ UNCHANGED <<server, shown, items, moveQueue, batches, broken, history>>

\* name_get of the records that were read; it fails when one of them is gone.
ServeNames(c) ==
    /\ c.kind = "names" /\ c.state = "sent"
    /\ LET gone == \E i \in Records : c.shot[i] # NoPlace /\ server[i] = NoPlace IN
       Handled(c, IF gone THEN "error" ELSE "ok", c.version, c.shot)
    /\ UNCHANGED <<server, shown, items, moveQueue, batches, broken, history>>

-----------------------------------------------------------------------------
(* Answers that arrive in the page *)

\* Mutant: each write reads the records again.
LastOfEach(c) == TRUE

LastOf(c) == ~\E d \in calls \ {c} : d.kind = "write" /\ d.batch = c.batch

\* A write has succeeded: the callback updates the item, or adds it again when the
\* view does not have it; $.when(...).done reads the records after the last one
\* when all have succeeded.
MoveSaved(c) ==
    /\ c.kind = "write" /\ c.state = "ok"
    /\ shown' = [shown EXCEPT ![c.item] = c.place]
    /\ items' = [items EXCEPT ![c.item] = c.place]
    /\ calls' = (calls \ {c}) \cup
           (IF LastOf(c) /\ c.batch \notin broken THEN {SearchRead(c.batch)} ELSE {})
    /\ newest' = Max({newest, c.version})
    /\ astray' = IF c.batch \in broken THEN astray \cup {"skipped"} ELSE astray
    /\ UNCHANGED <<server, moveQueue, batches, broken, version, reached, wanted, contested, uses>>

\* A write has failed: the item stays where it was dropped, and the batch does not
\* read the records again.
MoveFailed(c) ==
    /\ c.kind = "write" /\ c.state = "error"
    /\ calls' = calls \ {c}
    /\ broken' = broken \cup {c.batch}
    /\ astray' = astray \cup {"skipped"}
    /\ UNCHANGED <<server, shown, items, moveQueue, batches,
                   version, newest, reached, wanted, contested, uses>>

\* on_data_loaded asks for the names of the records.
DataLoaded(c) ==
    /\ c.kind = "read" /\ c.state = "ok"
    /\ calls' = (calls \ {c}) \cup {[c EXCEPT !.kind = "names", !.state = "sent"]}
    /\ UNCHANGED <<server, shown, items, moveQueue, batches, broken, history>>

\* on_data_loaded_2: setItems replaces all items.
SetItems(c) ==
    /\ c.kind = "names" /\ c.state = "ok"
    /\ calls' = calls \ {c}
    /\ shown' = c.shot /\ items' = c.shot
    /\ newest' = Max({newest, c.version})
    /\ astray' = IF c.version >= newest THEN {} ELSE {"late"}
    /\ UNCHANGED <<server, moveQueue, batches, broken, version, reached, wanted, contested, uses>>

\* The names could not be read: the items stay as they are.
NamesFailed(c) ==
    /\ c.kind = "names" /\ c.state = "error"
    /\ calls' = calls \ {c}
    /\ newest' = Max({newest, c.version})
    /\ astray' = astray \cup {"aborted"}
    /\ UNCHANGED <<server, shown, items, moveQueue, batches, broken,
                   version, reached, wanted, contested, uses>>

\* Mutant: the callback is forgotten, and the item stays in the view.
RemoveKept(c) ==
    /\ c.kind = "unlink" /\ c.state # "sent"
    /\ calls' = calls \ {c}
    /\ UNCHANGED <<server, shown, items, moveQueue, batches, broken, history>>

\* remove_completed: the callback takes the item away.
RemoveCompleted(c) ==
    /\ c.kind = "unlink" /\ c.state # "sent"
    /\ calls' = calls \ {c}
    /\ IF c.state = "ok"
         THEN /\ shown' = [shown EXCEPT ![c.item] = NoPlace]
              /\ items' = [items EXCEPT ![c.item] = NoPlace]
              /\ newest' = Max({newest, c.version})
         ELSE UNCHANGED <<shown, items, newest>>
    /\ UNCHANGED <<server, moveQueue, batches, broken,
                   version, reached, astray, wanted, contested, uses>>

\* create_completed: the new item is added, unless it is there already, and setItems
\* draws all of them again, at the places they have in itemsData.  The reload that
\* follows has no parameters, and reads nothing.
CreateCompleted(c) ==
    /\ c.kind = "fetch" /\ c.state # "sent"
    /\ calls' = calls \ {c}
    /\ IF c.state = "ok" /\ items[c.item] = NoPlace
         THEN /\ items' = [items EXCEPT ![c.item] = c.shot[c.item]]
              /\ shown' = items'
              /\ newest' = Max({newest, c.version})
              /\ astray' = IF c.version >= newest THEN astray ELSE astray \cup {"late"}
         ELSE UNCHANGED <<shown, items, newest, astray>>
    /\ UNCHANGED <<server, moveQueue, batches, broken,
                   version, reached, wanted, contested, uses>>

-----------------------------------------------------------------------------
\* The model has read the stored records, and on_data_loaded has asked for their
\* names.
Init ==
    LET home == [i \in Records |-> IF i \in Stored THEN Home ELSE NoPlace] IN
    /\ server = home
    /\ shown = Nothing /\ items = Nothing
    /\ moveQueue = <<>>
    /\ calls = {[id |-> 1, kind |-> "names", item |-> NoRecord, place |-> NoPlace, batch |-> 0,
                 state |-> "sent", version |-> 0, shot |-> home]}
    /\ batches = 0
    /\ broken = {}
    /\ version = 0 /\ newest = 0
    /\ reached = [b \in Batches |-> 0]
    /\ astray = {}
    /\ wanted = home
    /\ contested = {}
    /\ uses = 0

User ==
    \/ InternalMove
    \/ \E i \in Records :
           OnRemove(i) \/ \E p \in Places : OnMove(i, p) \/ OnAdd(i, p) \/ OnUpdate(i, p)

Serve(c)  == ServeWrite(c) \/ ServeUnlink(c) \/ ServeRead(c) \/ ServeNames(c)
Answer(c) == \/ MoveSaved(c) \/ MoveFailed(c) \/ DataLoaded(c) \/ SetItems(c)
             \/ NamesFailed(c) \/ RemoveCompleted(c) \/ CreateCompleted(c)

Next == User \/ \E c \in calls : Serve(c) \/ Answer(c)

Spec == Init /\ [][Next]_vars

-----------------------------------------------------------------------------
(* Properties *)

Quiet == moveQueue = <<>> /\ calls = {}

\* When nothing is under way, the view shows what the database has, whatever was
\* moved, removed, added and edited and in whatever order calls were handled and
\* answered, or one of three things has happened since the view was last up to
\* date: an answer that was overtaken was shown, a batch with a failed write was
\* not followed by a read, or the names could not be read because a record of the
\* answer was removed.
ViewSettles == Quiet /\ astray = {} => shown = server

\* Each move reaches the database: those made while others are under way are
\* neither lost nor overwritten by older ones.  Where the user wrote a record again
\* before the last write was answered, or a write was refused, nothing is promised.
MovesKept ==
    Quiet => \A i \in Records \ contested : server[i] \in {NoPlace, wanted[i]}

\* The view does not flicker when several items are moved at once: the items that
\* the read after a batch puts into the view are at least as new as every write of
\* the batch.
NoFlicker ==
    [][\A c \in calls : c.kind = "names" /\ c.batch # 0 /\ c \notin calls' /\ shown' # shown =>
           /\ ~\E d \in calls : d.kind = "write" /\ d.batch = c.batch
           /\ c.state = "ok" => c.version >= reached[c.batch]]_vars
=============================================================================
