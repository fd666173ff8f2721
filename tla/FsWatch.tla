------------------------------- MODULE FsWatch -------------------------------
(***************************************************************************)
(* fs.watch (sandbox-daemon/internal/fs/handler.go): one fsnotify watcher  *)
(* for the whole daemon, a table of subscriptions by connection and path,  *)
(* and a reference count for each directory handed to fsnotify.  Other     *)
(* programs create and remove directories while the handler, holding its   *)
(* mutex wmu, walks the tree.                                              *)
(*                                                                         *)
(* A directory is the sequence of its names from the workspace root.  The  *)
(* kernel forgets the watch of a directory that is removed and fsnotify    *)
(* with it; events come out of fsnotify in order, and a full queue drops   *)
(* what is reported to it.                                                 *)
(***************************************************************************)
EXTENDS Naturals, Sequences, FiniteSets, SequencesExt

CONSTANTS
    Conns,
    Dirs,                \* directories that may exist; the root is <<>>
    maxWatchesPerConn,
    maxQueued,           \* the kernel's fs.inotify.max_queued_events
    MaxChanges,          \* bound: changes made to the tree
    MaxRequests          \* bound: fs.watch requests made

ASSUME WatchAssumption ==
    /\ IsFiniteSet(Conns)
    /\ <<>> \in Dirs /\ Dirs \subseteq Seq(STRING)
    /\ \A d \in Dirs : \A n \in 0..Len(d) : SubSeq(d, 1, n) \in Dirs
    /\ {maxWatchesPerConn, maxQueued, MaxChanges, MaxRequests} \subseteq Nat

VARIABLES
    exists,    \* the directories there are
    changes,   \* changes made so far
    inotify,   \* the directories the kernel watches
    queue,     \* events fsnotify has not delivered yet
    requests,  \* fs.watch requests made so far
    watches,   \* Handler.watches: the subscriptions of each connection
    watched,   \* Handler.watched: the reference counts
    watcher,   \* the fsnotify watcher and its event loop
    pump,      \* the connection: "open", "closed" (its pump), "gone"
    walker,    \* the connection whose Watch is walking the tree
    walk,      \* the directories that walk still has to add or to read
    event,     \* the event being handled, if any
    rounds,    \* walks its handling still has to start
    stripped,  \* directories a leaving connection stopped watching
    lost       \* directories whose creation a full queue dropped

tree == <<exists, changes>>
table == <<requests, watches, watched, watcher>>
busy == <<walker, walk, event, rounds>>
ghosts == <<stripped, lost>>
vars == <<tree, inotify, queue, table, pump, busy, ghosts>>

NoConn == "none"
NoEvent == [op |-> "none", path |-> <<>>]

Init ==
    /\ exists \in {E \in SUBSET Dirs :
                     /\ <<>> \in E
                     /\ \A d \in E, a \in Dirs : IsPrefix(a, d) => a \in E}
    /\ changes = 0
    /\ inotify = {} /\ queue = <<>>
    /\ requests = 0
    /\ watches = [c \in Conns |-> {}]
    /\ watched = [d \in Dirs |-> 0]
    /\ watcher = "none"
    /\ pump = [c \in Conns |-> "open"]
    /\ walker = NoConn /\ walk = {} /\ event = NoEvent /\ rounds = 0
    /\ stripped = {} /\ lost = {}

(* wmu is held across a walk and across the handling of an event.          *)
Unlocked == walk = {} /\ event = NoEvent

Covers(entry, path) == entry.recursive /\ IsPrefix(entry.path, path)

-----------------------------------------------------------------------------
(* Other programs change the tree; fsnotify queues what the kernel reports *)
(* to it.  When the queue is full the event is gone: the event loop only   *)
(* logs the error it gets instead.                                         *)
Report(op, path, seen) ==
    /\ queue' = IF seen /\ Len(queue) < maxQueued
                THEN Append(queue, [op |-> op, path |-> path]) ELSE queue
    /\ lost' = IF seen /\ op = "created" /\ Len(queue) >= maxQueued
               THEN lost \cup {path} ELSE lost

Change ==
    /\ changes < MaxChanges
    /\ changes' = changes + 1
    /\ UNCHANGED <<table, pump, busy, stripped>>

Mkdir(d) ==
    /\ d \notin exists /\ Front(d) \in exists
    /\ exists' = exists \cup {d}
    /\ Report("created", d, Front(d) \in inotify)
    /\ Change
    /\ UNCHANGED inotify

Rmdir(d) ==
    /\ d \in exists \ {<<>>}
    /\ \A e \in exists : IsPrefix(d, e) => e = d
    /\ exists' = exists \ {d}
    /\ inotify' = inotify \ {d}
    /\ Report("deleted", d, {d, Front(d)} \cap inotify # {})
    /\ Change

(* A file in d is written.                                                 *)
Touch(d) ==
    /\ d \in exists
    /\ Report("modified", Append(d, "file"), d \in inotify)
    /\ Change
    /\ UNCHANGED <<exists, inotify>>

-----------------------------------------------------------------------------
(* Mutant of AddPath: what the walk found is taken to be there still.      *)
AddPathUnchecked(d) ==
    /\ watched' = [watched EXCEPT ![d] = @ + 1]
    /\ inotify' = inotify \cup {d}

(* addPathLocked: only the first reference reaches fsnotify, which refuses *)
(* a path that does not exist; the error is ignored.  So is that of the    *)
(* kernel's limit on watches, which is taken not to be reached: it would   *)
(* leave one more count without a watch.                                   *)
AddPath(d) ==
    /\ watched' = [watched EXCEPT ![d] = @ + 1]
    /\ inotify' = IF watched[d] = 0 /\ d \in exists THEN inotify \cup {d}
                                                    ELSE inotify

(* removePathLocked, for each path of P.                                   *)
RemovePaths(P) ==
    /\ watched' = [d \in Dirs |-> IF d \in P /\ watched[d] > 0
                                  THEN watched[d] - 1 ELSE watched[d]]
    /\ inotify' = inotify \ {d \in P : watched[d] <= 1}

(* addRecursiveLocked: WalkDir hands a directory to addPathLocked before   *)
(* it reads its entries, and visits the entries it has read.               *)
StartWalk(d) == walk' = IF d \in exists THEN {[dir |-> d, step |-> "add"]}
                                        ELSE {}

WalkAdd ==
    /\ \E w \in walk :
        /\ w.step = "add"
        /\ AddPath(w.dir)
        /\ walk' = (walk \ {w}) \cup {[w EXCEPT !.step = "read"]}
    /\ UNCHANGED <<tree, queue, requests, watches, watcher, pump, walker, event,
                   rounds, ghosts>>

WalkRead ==
    /\ \E w \in walk :
        /\ w.step = "read"
        /\ walk' = (walk \ {w}) \cup
             {[dir |-> d, step |-> "add"] :
                d \in {e \in exists \ {<<>>} : Front(e) = w.dir}}
    /\ walker' = IF walk' = {} THEN NoConn ELSE walker
    /\ UNCHANGED <<tree, inotify, queue, table, pump, event, rounds, ghosts>>

-----------------------------------------------------------------------------
(* fs.watch.  A second request for the same path replaces the entry.       *)
(* found: the path existed when the request was served.                    *)
Watch(c, path, recursive) ==
    /\ Unlocked /\ pump[c] = "open" /\ watcher \in {"none", "running"}
    /\ requests < MaxRequests /\ requests' = requests + 1
    /\ Cardinality(watches[c]) < maxWatchesPerConn
    /\ watcher' = "running"
    /\ watches' = [watches EXCEPT ![c] =
                     {e \in @ : e.path # path} \cup
                       {[path |-> path, recursive |-> recursive,
                         found |-> path \in exists]}]
    /\ IF recursive
         THEN /\ StartWalk(path)
              /\ walker' = IF walk' = {} THEN NoConn ELSE c
              /\ UNCHANGED <<watched, inotify>>
         ELSE AddPath(path) /\ UNCHANGED <<walk, walker>>
    /\ UNCHANGED <<tree, queue, pump, event, rounds, ghosts>>

(* fsnotify.NewWatcher fails: remembered, never retried.                   *)
WatcherFails ==
    /\ Unlocked /\ watcher = "none"
    /\ watcher' = "failed"
    /\ UNCHANGED <<tree, inotify, queue, requests, watches, watched, pump, busy,
                   ghosts>>

(* runConn's cleanup closes the pump, then calls OnDisconnect.             *)
ClosePump(c) ==
    /\ pump[c] = "open" /\ walker # c
    /\ pump' = [pump EXCEPT ![c] = "closed"]
    /\ UNCHANGED <<tree, inotify, queue, table, busy, ghosts>>

OnDisconnect(c) ==
    /\ pump[c] = "closed" /\ Unlocked
    /\ pump' = [pump EXCEPT ![c] = "gone"]
    /\ RemovePaths({e.path : e \in watches[c]})
    /\ watches' = [watches EXCEPT ![c] = {}]
    /\ stripped' = stripped \cup {d \in Dirs : watched[d] > 0 /\ watched'[d] = 0}
    /\ UNCHANGED <<tree, queue, requests, watcher, busy, lost>>

-----------------------------------------------------------------------------
(* handleFsEvent: a new directory is walked once for every connection with *)
(* a recursive watch over it, then the event is published, which changes   *)
(* the pumps of its receivers (WritePump) and nothing here: Publish does   *)
(* not block.                                                              *)
Recursive(path) ==
    {c \in Conns : \E e \in watches[c] : Covers(e, path)}

(* Mutant of ReceiveEvent: a new directory is not walked.                  *)
ReceiveEventOnly ==
    /\ watcher = "running" /\ Unlocked /\ queue # <<>>
    /\ event' = Head(queue)
    /\ queue' = Tail(queue)
    /\ rounds' = 0
    /\ UNCHANGED <<tree, inotify, table, pump, walker, walk, ghosts>>

ReceiveEvent ==
    /\ watcher = "running" /\ Unlocked /\ queue # <<>>
    /\ event' = Head(queue)
    /\ queue' = Tail(queue)
    /\ rounds' = IF event'.op = "created" /\ event'.path \in exists
                 THEN Cardinality(Recursive(event'.path)) ELSE 0
    /\ UNCHANGED <<tree, inotify, table, pump, walker, walk, ghosts>>

StartRound ==
    /\ rounds > 0 /\ walk = {}
    /\ rounds' = rounds - 1
    /\ StartWalk(event.path)
    /\ UNCHANGED <<tree, inotify, queue, table, pump, walker, event, ghosts>>

(* Mutant of PublishEvent: an early return that keeps wmu locked.          *)
PublishEventLocked ==
    /\ event # NoEvent /\ rounds = 0 /\ walk = {}
    /\ UNCHANGED vars

PublishEvent ==
    /\ event # NoEvent /\ rounds = 0 /\ walk = {}
    /\ event' = NoEvent
    /\ UNCHANGED <<tree, inotify, queue, table, pump, walker, walk, rounds,
                   ghosts>>

(* Stop, at the daemon's shutdown: the watcher is closed with everything   *)
(* it watched, and the event loop ends.                                    *)
Stop ==
    /\ Unlocked /\ watcher \notin {"stopping", "stopped"}
    /\ watcher' = IF watcher = "running" THEN "stopping" ELSE "stopped"
    /\ watches' = [c \in Conns |-> {}]
    /\ watched' = [d \in Dirs |-> 0]
    /\ inotify' = {} /\ queue' = <<>>
    /\ UNCHANGED <<tree, requests, pump, busy, ghosts>>

LoopStops ==
    /\ watcher = "stopping"
    /\ watcher' = "stopped"
    /\ UNCHANGED <<tree, inotify, queue, requests, watches, watched, pump, busy,
                   ghosts>>

-----------------------------------------------------------------------------
HandlerStep == WalkAdd \/ WalkRead \/ ReceiveEvent \/ StartRound
                 \/ PublishEvent \/ LoopStops

Next ==
    \/ \E d \in Dirs : Mkdir(d) \/ Rmdir(d) \/ Touch(d)
    \/ \E c \in Conns :
        \/ \E path \in Dirs, recursive \in BOOLEAN : Watch(c, path, recursive)
        \/ ClosePump(c) \/ OnDisconnect(c)
    \/ WatcherFails \/ Stop
    \/ HandlerStep

Spec == Init /\ [][Next]_vars

(* The event loop and a walk are goroutines that run; wmu is a sync.Mutex, *)
(* which hands itself to a goroutine that has waited long enough.          *)
FairSpec ==
    /\ Spec
    /\ WF_vars(HandlerStep)
    /\ \A c \in Conns : SF_vars(OnDisconnect(c))

-----------------------------------------------------------------------------
TypeOK ==
    /\ <<>> \in exists /\ exists \subseteq Dirs
    /\ changes \in 0..MaxChanges
    /\ inotify \subseteq exists
    /\ Len(queue) <= maxQueued
    /\ \A c \in Conns :
        /\ Cardinality(watches[c]) <= maxWatchesPerConn
        /\ Cardinality({e.path : e \in watches[c]}) = Cardinality(watches[c])
    /\ watched \in [Dirs -> Nat] /\ requests \in 0..MaxRequests
    /\ watcher \in {"none", "failed", "running", "stopping", "stopped"}
    /\ pump \in [Conns -> {"open", "closed", "gone"}]
    /\ walker \in Conns \cup {NoConn}
    /\ walk \subseteq [dir : Dirs, step : {"add", "read"}]
    /\ rounds \in 0..Cardinality(Conns)

(* Nothing is in flight: no change waits to be seen or handled.            *)
Quiet == Unlocked /\ queue = <<>> /\ watcher = "running"

(* A count without a watch: the directory was removed, or was counted      *)
(* before it existed.  addPathLocked will never hand it to fsnotify again. *)
Stale == {d \in Dirs \ inotify : watched[d] > 0}

(* "Recursive watches walk the directory tree at setup time and re-add new *)
(* subdirectories as they appear" (watch.json): the race of the walk with  *)
(* mkdir is won by adding a directory before reading it, so once things    *)
(* are quiet a recursive subscription has every directory below it         *)
(* watched.  Four exceptions: its path did not exist when it was made (it  *)
(* is acknowledged and its walk finds nothing), or the directory is, or is *)
(* below, one whose count is stale, one that a leaving connection stopped  *)
(* watching, or one whose creation a full queue dropped.                   *)
NewDirsCovered ==
    Quiet => \A c \in Conns : \A e \in watches[c], d \in exists \ inotify :
                e.found /\ Covers(e, d)
                  => \E a \in Stale \cup stripped \cup lost : IsPrefix(a, d)

(* A connection's cleanup gets the mutex and ends, whatever the event loop *)
(* is doing.                                                               *)
DisconnectCompletes == \A c \in Conns : pump[c] = "closed" ~> pump[c] = "gone"
=============================================================================
