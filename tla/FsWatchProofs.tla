---------------------------- MODULE FsWatchProofs ----------------------------
(***************************************************************************)
(* Theorems about FsWatch, for every finite set of connections, every set  *)
(* of directories closed under prefixes and every bound on watches,        *)
(* requests and changes.                                                   *)
(***************************************************************************)
EXTENDS FsWatch, FiniteSetTheorems, TLAPS

-----------------------------------------------------------------------------
(* Prefixes of directories.                                                *)
LEMMA DirFacts ==
    ASSUME NEW d \in Dirs
    PROVE  /\ d \in Seq(STRING) /\ Len(d) \in Nat
           /\ \A n \in 0..Len(d) : SubSeq(d, 1, n) \in Dirs
BY WatchAssumption

LEMMA SameSeq ==
    ASSUME NEW s \in Seq(STRING), NEW t \in Seq(STRING), Len(s) = Len(t),
           \A i \in 1..Len(s) : s[i] = t[i]
    PROVE  s = t
OBVIOUS

LEMMA InitialSeq ==
    ASSUME NEW d \in Seq(STRING), NEW n \in 0..Len(d)
    PROVE  /\ SubSeq(d, 1, n) \in Seq(STRING) /\ Len(SubSeq(d, 1, n)) = n
           /\ \A i \in 1..n : SubSeq(d, 1, n)[i] = d[i]
OBVIOUS

LEMMA PrefixIff ==
    ASSUME NEW d \in Seq(STRING), NEW a \in Seq(STRING)
    PROVE  IsPrefix(a, d) <=> /\ Len(a) <= Len(d)
                              /\ \A i \in 1..Len(a) : a[i] = d[i]
<1>1. CASE Len(a) <= Len(d)
  <2>1. PICK n \in 0..Len(a) : n = Len(a)
    OBVIOUS
  <2>2. n \in 0..Len(d)
    BY <1>1, <2>1
  <2>3. PICK s : s = SubSeq(a, 1, n)
    OBVIOUS
  <2>4. PICK t : t = SubSeq(d, 1, n)
    OBVIOUS
  <2>5. s \in Seq(STRING) /\ Len(s) = n /\ \A i \in 1..n : s[i] = a[i]
    BY <2>3, InitialSeq
  <2>6. t \in Seq(STRING) /\ Len(t) = n /\ \A i \in 1..n : t[i] = d[i]
    BY <2>2, <2>4, InitialSeq
  <2>7. s = t <=> \A i \in 1..n : a[i] = d[i]
    BY <2>5, <2>6, SameSeq
  <2> QED BY <1>1, <2>1, <2>3, <2>4, <2>7 DEF IsPrefix
<1>2. CASE ~(Len(a) <= Len(d))
  BY <1>2 DEF IsPrefix
<1> QED BY <1>1, <1>2

LEMMA PrefixOrder ==
    ASSUME NEW d \in Dirs, NEW b \in Dirs, NEW a \in Dirs
    PROVE  /\ IsPrefix(d, d)
           /\ IsPrefix(b, d) /\ IsPrefix(a, b) => IsPrefix(a, d)
<1>1. /\ d \in Seq(STRING) /\ b \in Seq(STRING) /\ a \in Seq(STRING)
      /\ Len(d) \in Nat /\ Len(b) \in Nat /\ Len(a) \in Nat
  BY DirFacts
<1>2. IsPrefix(d, d)
  BY <1>1, PrefixIff
<1>3. ASSUME IsPrefix(b, d), IsPrefix(a, b) PROVE IsPrefix(a, d)
  <2>1. Len(b) <= Len(d) /\ \A i \in 1..Len(b) : b[i] = d[i]
    BY <1>1, <1>3, PrefixIff
  <2>2. Len(a) <= Len(b) /\ \A i \in 1..Len(a) : a[i] = b[i]
    BY <1>1, <1>3, PrefixIff
  <2>3. Len(a) <= Len(d) /\ \A i \in 1..Len(a) : a[i] = d[i]
    BY <1>1, <2>1, <2>2
  <2> QED BY <1>1, <2>3, PrefixIff
<1> QED BY <1>2, <1>3

(* The directory above another, and the one a step from it to what is below.*)
LEMMA FrontFacts ==
    ASSUME NEW d \in Dirs, d # <<>>
    PROVE  /\ Front(d) \in Dirs /\ IsPrefix(Front(d), d)
           /\ \A a \in Dirs : IsPrefix(a, d) /\ a # d => IsPrefix(a, Front(d))
<1>1. Len(d) \in Nat \ {0} /\ d \in Seq(STRING)
  BY DirFacts
<1>2. PICK n \in 0..Len(d) : n = Len(d) - 1
  BY <1>1
<1>3. PICK f \in Dirs : f = SubSeq(d, 1, n)
  BY <1>2, DirFacts
<1>4. f \in Seq(STRING) /\ Len(f) = n /\ \A i \in 1..n : f[i] = d[i]
  BY <1>1, <1>2, <1>3, InitialSeq
<1>5. Front(d) = f
  BY <1>2, <1>3 DEF Front
<1>6. IsPrefix(f, d)
  BY <1>1, <1>2, <1>4, PrefixIff
<1>7. ASSUME NEW a \in Dirs, IsPrefix(a, d), a # d PROVE IsPrefix(a, f)
  <2>1. a \in Seq(STRING) /\ Len(a) \in Nat
    BY DirFacts
  <2>2. Len(a) <= Len(d) /\ \A i \in 1..Len(a) : a[i] = d[i]
    BY <1>1, <1>7, <2>1, PrefixIff
  <2>3. Len(a) # Len(d)
    BY <1>1, <1>7, <2>1, <2>2, SameSeq
  <2>4. Len(a) <= Len(f) /\ \A i \in 1..Len(a) : a[i] = f[i]
    BY <1>1, <1>2, <1>4, <2>1, <2>2, <2>3
  <2> QED BY <1>4, <2>1, <2>4, PrefixIff
<1> QED BY <1>5, <1>6, <1>7

LEMMA ChildToward ==
    ASSUME NEW d \in Dirs, NEW a \in Dirs, IsPrefix(a, d), a # d
    PROVE  \E k \in Dirs : k # <<>> /\ Front(k) = a /\ IsPrefix(k, d)
<1>1. /\ d \in Seq(STRING) /\ Len(d) \in Nat /\ a \in Seq(STRING) /\ Len(a) \in Nat
  BY DirFacts
<1>2. Len(a) <= Len(d) /\ \A i \in 1..Len(a) : a[i] = d[i]
  BY <1>1, PrefixIff
<1>3. Len(a) < Len(d)
  BY <1>1, <1>2, SameSeq
<1>4. PICK n \in 0..Len(d) : n = Len(a) + 1
  <2>1. Len(a) + 1 \in 0..Len(d)
    BY <1>1, <1>3
  <2> QED BY <2>1
<1>5. PICK k \in Dirs : k = SubSeq(d, 1, n)
  BY <1>4, DirFacts
<1>6. k \in Seq(STRING) /\ Len(k) = n /\ \A i \in 1..n : k[i] = d[i]
  BY <1>1, <1>5, InitialSeq
<1>7. IsPrefix(k, d)
  BY <1>1, <1>4, <1>6, PrefixIff
<1>8. PICK m \in 0..Len(k) : m = Len(a)
  <2>1. Len(a) \in 0..Len(k)
    BY <1>1, <1>4, <1>6
  <2> QED BY <2>1
<1>9. PICK u : u = SubSeq(k, 1, m)
  OBVIOUS
<1>10. u \in Seq(STRING) /\ Len(u) = m /\ \A i \in 1..m : u[i] = k[i]
  BY <1>6, <1>9, InitialSeq
<1>11. \A i \in 1..m : u[i] = a[i]
  BY <1>2, <1>4, <1>6, <1>8, <1>10
<1>12. u = a
  BY <1>1, <1>8, <1>10, <1>11, SameSeq
<1>13. Len(k) - 1 = m /\ k # <<>>
  BY <1>1, <1>4, <1>6, <1>8
<1> QED BY <1>7, <1>9, <1>12, <1>13 DEF Front

-----------------------------------------------------------------------------
(* Type correctness.  TypeOK is inductive with what it does not say: the   *)
(* directories are a tree, fsnotify watches only what is counted, a queued *)
(* event is a change that was made, and a connection has one entry a path. *)
Paths == Dirs \cup {Append(d, "file") : d \in Dirs}
Events == [op : {"none", "created", "deleted", "modified"}, path : Paths]
Entries == [path : Dirs, recursive : BOOLEAN, found : BOOLEAN]
Walking == [dir : Dirs, step : {"add", "read"}]

Closed(E) == \A d \in E, a \in Dirs : IsPrefix(a, d) => a \in E

TableOK(W) ==
    /\ W \subseteq Entries /\ IsFiniteSet(W)
    /\ Cardinality(W) <= maxWatchesPerConn
    /\ \A e, f \in W : e.path = f.path => e = f

TypeInv ==
    /\ <<>> \in exists /\ exists \subseteq Dirs /\ Closed(exists)
    /\ changes \in 0..MaxChanges
    /\ inotify \subseteq exists
    /\ queue \in Seq(Events) /\ Len(queue) <= maxQueued
    /\ DOMAIN watches = Conns /\ \A c \in Conns : TableOK(watches[c])
    /\ watched \in [Dirs -> Nat] /\ \A d \in inotify : watched[d] > 0
    /\ requests \in 0..MaxRequests
    /\ watcher \in {"none", "failed", "running", "stopping", "stopped"}
    /\ pump \in [Conns -> {"open", "closed", "gone"}]
    /\ walker \in Conns \cup {NoConn}
    /\ walk \subseteq Walking
    /\ event \in Events
    /\ rounds \in 0..Cardinality(Conns)

LEMMA Bounds ==
    /\ IsFiniteSet(Conns) /\ Cardinality(Conns) \in Nat
    /\ maxWatchesPerConn \in Nat /\ maxQueued \in Nat
    /\ MaxChanges \in Nat /\ MaxRequests \in Nat
    /\ <<>> \in Dirs /\ Dirs \subseteq Seq(STRING)
BY WatchAssumption, FS_CardinalityType

LEMMA TableEmpty == TableOK({})
BY Bounds, FS_EmptySet DEF TableOK

LEMMA TypeInit == Init => TypeInv
<1> SUFFICES ASSUME Init PROVE TypeInv
  OBVIOUS
<1>1. <<>> \in exists /\ exists \subseteq Dirs /\ Closed(exists)
  BY DEF Init, Closed
<1>2. NoEvent \in Events /\ <<>> \in Seq(Events) /\ Len(<<>>) = 0
  BY Bounds DEF NoEvent, Events, Paths
<1>3. DOMAIN watches = Conns /\ \A c \in Conns : TableOK(watches[c])
  BY TableEmpty DEF Init
<1>4. 0 \in 0..MaxChanges /\ 0 \in 0..MaxRequests /\ 0 \in 0..Cardinality(Conns)
  BY Bounds
<1>5. queue = <<>> /\ Len(queue) <= maxQueued
  BY <1>2, Bounds DEF Init
<1> QED BY <1>1, <1>2, <1>3, <1>4, <1>5 DEF Init, TypeInv, tree, table, busy

(* Replacing the entry for a path.                                         *)
LEMMA TableReplace ==
    ASSUME NEW W, TableOK(W), Cardinality(W) < maxWatchesPerConn,
           NEW n \in Entries
    PROVE  TableOK({e \in W : e.path # n.path} \cup {n})
<1> DEFINE V == {e \in W : e.path # n.path}
<1>1. IsFiniteSet(V) /\ Cardinality(V) <= Cardinality(W) /\ V \subseteq W
  BY FS_Subset DEF TableOK
<1>2. Cardinality(V) \in Nat /\ Cardinality(W) \in Nat
  BY <1>1, FS_CardinalityType DEF TableOK
<1>3. \A e \in V : e.path # n.path
  OBVIOUS
<1> HIDE DEF V
<1>4. IsFiniteSet(V \cup {n}) /\ Cardinality(V \cup {n}) <= maxWatchesPerConn
  <2>1. IsFiniteSet(V \cup {n}) /\ Cardinality(V \cup {n}) =
           IF n \in V THEN Cardinality(V) ELSE Cardinality(V) + 1
    BY <1>1, FS_AddElement
  <2> QED BY <1>1, <1>2, <2>1, Bounds
<1>5. TableOK(V \cup {n})
  BY <1>1, <1>3, <1>4 DEF TableOK
<1> QED BY <1>5 DEF V

LEMMA QueueAppend ==
    ASSUME TypeInv, NEW op \in {"created", "deleted", "modified"},
           NEW path \in Paths, NEW seen, Report(op, path, seen), Change
    PROVE  /\ queue' \in Seq(Events) /\ Len(queue') <= maxQueued
           /\ changes' \in 0..MaxChanges
<1>1. [op |-> op, path |-> path] \in Events
  BY DEF Events
<1>2. /\ changes' = changes + 1 /\ changes < MaxChanges /\ changes \in Nat
      /\ Len(queue) \in Nat /\ queue \in Seq(Events) /\ Len(queue) <= maxQueued
  BY DEF Change, TypeInv
<1>3. CASE queue' = queue
  BY <1>2, <1>3, Bounds
<1>4. CASE /\ Len(queue) < maxQueued
           /\ queue' = Append(queue, [op |-> op, path |-> path])
  <2>1. queue' \in Seq(Events) /\ Len(queue') = Len(queue) + 1
    BY <1>1, <1>2, <1>4
  <2> QED BY <1>2, <1>4, <2>1, Bounds
<1> QED BY <1>3, <1>4 DEF Report

(* Another program's change to the tree.                                   *)
LEMMA TypeTree ==
    ASSUME TypeInv, NEW d \in Dirs, Mkdir(d) \/ Rmdir(d) \/ Touch(d)
    PROVE  TypeInv'
<1>a. /\ <<>> \in exists /\ exists \subseteq Dirs /\ Closed(exists)
      /\ inotify \subseteq exists /\ d \in Seq(STRING)
      /\ \A x \in inotify : watched[x] > 0
  BY Bounds DEF TypeInv
<1>1. UNCHANGED <<watches, watched, requests, watcher, pump, walker, walk, event,
                  rounds>>
  BY DEF Mkdir, Rmdir, Touch, Change, table, busy
<1>2. CASE Mkdir(d)
  <2>1. /\ d # <<>> /\ Front(d) \in exists /\ exists' = exists \cup {d}
        /\ inotify' = inotify
    BY <1>a, <1>2 DEF Mkdir
  <2>2. Closed(exists')
    BY <1>a, <2>1, FrontFacts DEF Closed
  <2>3. queue' \in Seq(Events) /\ Len(queue') <= maxQueued
        /\ changes' \in 0..MaxChanges
    BY <1>a, <1>2, QueueAppend DEF Mkdir, Paths
  <2> QED BY <1>a, <1>1, <2>1, <2>2, <2>3 DEF TypeInv
<1>3. CASE Rmdir(d)
  <2>1. /\ d # <<>> /\ \A e \in exists : IsPrefix(d, e) => e = d
        /\ exists' = exists \ {d} /\ inotify' = inotify \ {d}
    BY <1>3 DEF Rmdir
  <2>2. Closed(exists')
    BY <1>a, <2>1 DEF Closed
  <2>3. queue' \in Seq(Events) /\ Len(queue') <= maxQueued
        /\ changes' \in 0..MaxChanges
    BY <1>a, <1>3, QueueAppend DEF Rmdir, Paths
  <2> QED BY <1>a, <1>1, <2>1, <2>2, <2>3 DEF TypeInv
<1>4. CASE Touch(d)
  <2>1. exists' = exists /\ inotify' = inotify
    BY <1>4 DEF Touch
  <2>2. Append(d, "file") \in Paths
    BY DEF Paths
  <2>3. queue' \in Seq(Events) /\ Len(queue') <= maxQueued
        /\ changes' \in 0..MaxChanges
    BY <1>4, <2>2, QueueAppend DEF Touch
  <2> QED BY <1>a, <1>1, <2>1, <2>3 DEF TypeInv
<1> QED BY <1>2, <1>3, <1>4

(* What addPathLocked and removePathLocked do to the counts.               *)
LEMMA AddPathFacts ==
    ASSUME TypeInv, NEW d \in Dirs, AddPath(d)
    PROVE  /\ watched' \in [Dirs -> Nat] /\ watched'[d] > 0
           /\ \A x \in Dirs : watched'[x] >= watched[x]
           /\ inotify \subseteq inotify' /\ inotify' \subseteq inotify \cup {d}
           /\ inotify' \subseteq exists /\ \A x \in inotify' : watched'[x] > 0
           /\ d \in inotify' \/ watched[d] > 0 \/ d \notin exists
           /\ watched[d] > 0 => inotify' = inotify
<1>1. /\ watched \in [Dirs -> Nat] /\ watched' = [watched EXCEPT ![d] = @ + 1]
      /\ inotify \subseteq exists /\ exists \subseteq Dirs
      /\ \A x \in inotify : watched[x] > 0
      /\ inotify' = IF watched[d] = 0 /\ d \in exists THEN inotify \cup {d}
                                                      ELSE inotify
  BY DEF TypeInv, AddPath
<1>2. /\ watched' \in [Dirs -> Nat] /\ watched'[d] = watched[d] + 1
      /\ watched[d] \in Nat
      /\ \A x \in Dirs \ {d} : watched'[x] = watched[x]
      /\ \A x \in Dirs : watched[x] \in Nat
  BY <1>1
<1> QED BY <1>1, <1>2

LEMMA RemovePathsFacts ==
    ASSUME TypeInv, NEW P, RemovePaths(P)
    PROVE  /\ watched' \in [Dirs -> Nat]
           /\ inotify' \subseteq inotify /\ \A x \in inotify' : watched'[x] > 0
           /\ \A x \in Dirs : watched'[x] <= watched[x]
           /\ \A x \in inotify \ inotify' : watched[x] > 0 /\ watched'[x] = 0
<1>1. /\ watched \in [Dirs -> Nat] /\ inotify \subseteq Dirs
      /\ \A x \in inotify : watched[x] > 0
      /\ watched' = [d \in Dirs |-> IF d \in P /\ watched[d] > 0
                                    THEN watched[d] - 1 ELSE watched[d]]
      /\ inotify' = inotify \ {d \in P : watched[d] <= 1}
  BY DEF TypeInv, RemovePaths
<1>2. /\ watched' \in [Dirs -> Nat]
      /\ \A x \in Dirs : watched[x] \in Nat /\
            watched'[x] = IF x \in P /\ watched[x] > 0 THEN watched[x] - 1
                                                       ELSE watched[x]
  BY <1>1
<1> QED BY <1>1, <1>2

LEMMA StartWalkType ==
    ASSUME TypeInv, NEW d, StartWalk(d)
    PROVE  walk' \subseteq Walking
BY DEF StartWalk, TypeInv, Walking

(* The steps of the handler.                                               *)
LEMMA TypeWatch ==
    ASSUME TypeInv, NEW c \in Conns, NEW path \in Dirs, NEW recursive \in BOOLEAN,
           Watch(c, path, recursive)
    PROVE  TypeInv'
<1>1. PICK n : n = [path |-> path, recursive |-> recursive,
                    found |-> path \in exists]
  OBVIOUS
<1>2. n \in Entries /\ n.path = path
  BY <1>1 DEF Entries
<1>3. /\ UNCHANGED <<exists, changes, queue, pump, event, rounds>>
      /\ watches' = [watches EXCEPT ![c] = {e \in @ : e.path # n.path} \cup {n}]
      /\ Cardinality(watches[c]) < maxWatchesPerConn /\ watcher' = "running"
      /\ requests < MaxRequests /\ requests' = requests + 1
  BY <1>1, <1>2 DEF Watch, tree
<1>4. DOMAIN watches' = Conns /\ \A b \in Conns : TableOK(watches'[b])
  BY <1>2, <1>3, TableReplace DEF TypeInv
<1>5. requests' \in 0..MaxRequests
  BY <1>3, Bounds DEF TypeInv
<1>6. CASE recursive
  <2>1. /\ StartWalk(path) /\ walker' \in {NoConn, c}
        /\ UNCHANGED <<watched, inotify>>
    BY <1>6 DEF Watch
  <2> QED BY <1>3, <1>4, <1>5, <2>1, StartWalkType DEF TypeInv
<1>7. CASE ~recursive
  <2>1. AddPath(path) /\ UNCHANGED <<walk, walker>>
    BY <1>7 DEF Watch
  <2> QED BY <1>3, <1>4, <1>5, <2>1, AddPathFacts DEF TypeInv
<1> QED BY <1>6, <1>7

LEMMA TypeDisconnect ==
    ASSUME TypeInv, NEW c \in Conns, OnDisconnect(c)
    PROVE  TypeInv'
<1>1. /\ UNCHANGED <<exists, changes, queue, requests, watcher, walker, walk,
                     event, rounds>>
      /\ watches' = [watches EXCEPT ![c] = {}]
      /\ pump' = [pump EXCEPT ![c] = "gone"]
      /\ RemovePaths({e.path : e \in watches[c]})
  BY DEF OnDisconnect, tree, busy
<1>2. DOMAIN watches' = Conns /\ \A b \in Conns : TableOK(watches'[b])
  BY <1>1, TableEmpty DEF TypeInv
<1>3. /\ watched' \in [Dirs -> Nat] /\ inotify' \subseteq inotify
      /\ \A x \in inotify' : watched'[x] > 0
  BY <1>1, RemovePathsFacts
<1>4. pump' \in [Conns -> {"open", "closed", "gone"}]
  BY <1>1 DEF TypeInv
<1> QED BY <1>1, <1>2, <1>3, <1>4 DEF TypeInv

LEMMA TypeWalk ==
    ASSUME TypeInv, WalkAdd \/ WalkRead
    PROVE  TypeInv'
<1>1. CASE WalkAdd
  <2>1. PICK w \in walk : /\ w.step = "add" /\ AddPath(w.dir)
                          /\ walk' = (walk \ {w}) \cup {[w EXCEPT !.step = "read"]}
    BY <1>1 DEF WalkAdd
  <2>2. w \in Walking /\ w.dir \in Dirs /\ walk \subseteq Walking
    BY <2>1 DEF TypeInv, Walking
  <2>3. walk' \subseteq Walking
    BY <2>1, <2>2 DEF Walking
  <2>4. UNCHANGED <<exists, changes, queue, requests, watches, watcher, pump,
                    walker, event, rounds>>
    BY <1>1 DEF WalkAdd, tree
  <2> QED BY <2>1, <2>2, <2>3, <2>4, AddPathFacts DEF TypeInv
<1>2. CASE WalkRead
  <2>1. walk' \subseteq Walking
    BY <1>2 DEF WalkRead, TypeInv, Walking
  <2>2. /\ UNCHANGED <<exists, changes, queue, requests, watches, watcher, pump,
                       inotify, watched, event, rounds>>
        /\ walker' \in {NoConn, walker}
    BY <1>2 DEF WalkRead, tree, table
  <2> QED BY <2>1, <2>2 DEF TypeInv
<1> QED BY <1>1, <1>2

LEMMA RecursiveCount ==
    ASSUME NEW path
    PROVE  /\ Cardinality(Recursive(path)) \in 0..Cardinality(Conns)
           /\ Recursive(path) # {} => Cardinality(Recursive(path)) > 0
<1>1. Recursive(path) \in SUBSET Conns
  BY DEF Recursive
<1>2. /\ IsFiniteSet(Recursive(path))
      /\ Cardinality(Recursive(path)) <= Cardinality(Conns)
  BY <1>1, Bounds, FS_Subset
<1>3. Cardinality(Recursive(path)) \in Nat
  BY <1>2, FS_CardinalityType
<1>4. Cardinality(Recursive(path)) = 0 <=> Recursive(path) = {}
  BY <1>2, FS_EmptySet
<1> QED BY <1>2, <1>3, <1>4, Bounds

LEMMA TypeEvent ==
    ASSUME TypeInv, ReceiveEvent \/ StartRound \/ PublishEvent
    PROVE  TypeInv'
<1>1. CASE ReceiveEvent
  <2>1. /\ queue # <<>> /\ event' = Head(queue) /\ queue' = Tail(queue)
        /\ UNCHANGED <<exists, changes, inotify, requests, watches, watched,
                       watcher, pump, walker, walk>>
    BY <1>1 DEF ReceiveEvent, tree, table
  <2>2. queue \in Seq(Events) /\ Len(queue) <= maxQueued /\ maxQueued \in Nat
    BY Bounds DEF TypeInv
  <2>3. /\ event' \in Events /\ queue' \in Seq(Events)
        /\ Len(queue') = Len(queue) - 1 /\ Len(queue) \in Nat
    BY <2>1, <2>2
  <2>4. PICK p : p = event'.path
    OBVIOUS
  <2>5. rounds' \in 0..Cardinality(Conns)
    <3>1. rounds' = 0 \/ rounds' = Cardinality(Recursive(p))
      BY <1>1, <2>4 DEF ReceiveEvent
    <3> QED BY <3>1, RecursiveCount, Bounds
  <2> QED BY <2>1, <2>2, <2>3, <2>5 DEF TypeInv
<1>2. CASE StartRound
  <2>1. /\ rounds > 0 /\ rounds' = rounds - 1 /\ StartWalk(event.path)
        /\ UNCHANGED <<exists, changes, inotify, queue, requests, watches,
                       watched, watcher, pump, walker, event>>
    BY <1>2 DEF StartRound, tree, table
  <2>2. rounds' \in 0..Cardinality(Conns)
    BY <2>1, Bounds DEF TypeInv
  <2>3. walk' \subseteq Walking
    BY <2>1, StartWalkType
  <2> QED BY <2>1, <2>2, <2>3 DEF TypeInv
<1>3. CASE PublishEvent
  <2>1. /\ event' = NoEvent
        /\ UNCHANGED <<exists, changes, inotify, queue, requests, watches,
                       watched, watcher, pump, walker, walk, rounds>>
    BY <1>3 DEF PublishEvent, tree, table
  <2>2. NoEvent \in Events
    BY Bounds DEF NoEvent, Events, Paths
  <2> QED BY <2>1, <2>2 DEF TypeInv
<1> QED BY <1>1, <1>2, <1>3

LEMMA TypeStop ==
    ASSUME TypeInv,
           WatcherFails \/ Stop \/ LoopStops \/ \E c \in Conns : ClosePump(c)
    PROVE  TypeInv'
<1>1. CASE WatcherFails \/ LoopStops
  BY <1>1 DEF WatcherFails, LoopStops, tree, busy, TypeInv
<1>2. CASE Stop
  <2>1. DOMAIN watches' = Conns /\ \A b \in Conns : TableOK(watches'[b])
    BY <1>2, TableEmpty DEF Stop
  <2>2. queue' \in Seq(Events) /\ Len(queue') <= maxQueued /\ inotify' = {}
    BY <1>2, Bounds DEF Stop
  <2>3. watched' \in [Dirs -> Nat]
    BY <1>2 DEF Stop
  <2>4. /\ UNCHANGED <<exists, changes, requests, pump, walker, walk, event,
                       rounds>>
        /\ watcher' \in {"stopping", "stopped"}
    BY <1>2 DEF Stop, tree, busy
  <2> QED BY <2>1, <2>2, <2>3, <2>4 DEF TypeInv
<1>3. ASSUME NEW c \in Conns, ClosePump(c) PROVE TypeInv'
  <2>1. pump' \in [Conns -> {"open", "closed", "gone"}]
    BY <1>3 DEF ClosePump, TypeInv
  <2> QED BY <1>3, <2>1 DEF ClosePump, tree, table, busy, TypeInv
<1> QED BY <1>1, <1>2, <1>3

LEMMA TypeStep == TypeInv /\ [Next]_vars => TypeInv'
<1> SUFFICES ASSUME TypeInv, [Next]_vars PROVE TypeInv'
  OBVIOUS
<1>1. CASE UNCHANGED vars
  BY <1>1 DEF vars, tree, table, busy, TypeInv
<1> QED
  BY <1>1, TypeTree, TypeWatch, TypeDisconnect, TypeWalk, TypeEvent, TypeStop
  DEF Next, HandlerStep

(* One entry a path: there are as many paths as entries.                   *)
LEMMA TablePaths ==
    ASSUME NEW W, TableOK(W)
    PROVE  Cardinality({e.path : e \in W}) = Cardinality(W)
<1> DEFINE f == [e \in W |-> e.path]
<1>1. f \in Bijection(W, {e.path : e \in W})
  BY DEF TableOK, Bijection, Injection, Surjection, IsInjective
<1>2. ExistsBijection(W, {e.path : e \in W})
  BY <1>1 DEF ExistsBijection
<1> QED BY <1>2, FS_Bijection DEF TableOK

LEMMA TypeInvTypeOK == TypeInv => TypeOK
<1> SUFFICES ASSUME TypeInv PROVE TypeOK
  OBVIOUS
<1>1. \A c \in Conns :
        /\ Cardinality(watches[c]) <= maxWatchesPerConn
        /\ Cardinality({e.path : e \in watches[c]}) = Cardinality(watches[c])
  BY TablePaths DEF TypeInv, TableOK
<1> QED BY <1>1 DEF TypeInv, TypeOK, Walking

(* fsnotify watches only directories there are, and no connection has more *)
(* subscriptions than its cap, nor two for one path, however requests, the *)
(* walks, events, disconnects and other programs interleave.               *)
THEOREM TypeCorrect == Spec => []TypeOK
<1> QED BY TypeInit, TypeStep, TypeInvTypeOK, PTL DEF Spec
-----------------------------------------------------------------------------
(* NewDirsCovered.  At every moment each directory fsnotify does not watch *)
(* below a recursive subscription is excused, by itself or by a directory  *)
(* above it: its count is stale, a leaving connection stopped watching it, *)
(* its creation was dropped by a full queue, the walk has still to add it  *)
(* or to read it, or its creation is still to be handled and a walk from   *)
(* it to be started.                                                       *)
ToAdd(a) == [dir |-> a, step |-> "add"] \in walk
ToRead(a) == [dir |-> a, step |-> "read"] \in walk
Created(a) == [op |-> "created", path |-> a]
Queued(a) == \E i \in DOMAIN queue : queue[i] = Created(a)
Handled(a) == event = Created(a) /\ rounds > 0

Excuses(a, d, top) ==
    \/ a \in Stale \/ a \in stripped \/ a \in lost
    \/ ToAdd(a)
    \/ ToRead(a) /\ a # d
    \/ IsPrefix(top, a) /\ (Handled(a) \/ Queued(a))

Excused(d, top) == \E a \in Dirs : IsPrefix(a, d) /\ Excuses(a, d, top)

(* The subscription's own directory was counted, or is about to be.        *)
Rooted(p) == watched[p] > 0 \/ p \in stripped \/ ToAdd(p)

Kept(p) ==
    /\ Rooted(p)
    /\ \A d \in exists \ inotify : IsPrefix(p, d) => Excused(d, p)

Covered ==
    \A c \in Conns : \A e \in watches[c] : e.recursive /\ e.found => Kept(e.path)

CoverInv == TypeInv /\ Covered

(* What other programs do to the tree, and to fsnotify's queue, excuses no *)
(* less; a new directory is reported, or its parent was excused.           *)
LEMMA ExcusesTree ==
    ASSUME TypeInv, NEW x \in Dirs, Mkdir(x) \/ Rmdir(x) \/ Touch(x),
           NEW a \in Dirs, NEW d \in Dirs, NEW p \in Dirs, Excuses(a, d, p)
    PROVE  Excuses(a, d, p)'
<1>1. /\ UNCHANGED <<watched, stripped, walk, event, rounds>>
      /\ inotify' \subseteq inotify /\ lost \subseteq lost'
  BY DEF Mkdir, Rmdir, Touch, Change, Report, table, busy
<1>2. a \in Stale => a \in Stale'
  BY <1>1 DEF Stale
<1>3. Queued(a) => Queued(a)'
  <2>1. queue \in Seq(Events)
    BY DEF TypeInv
  <2>2. \E ev : queue' \in {queue, Append(queue, ev)}
    BY DEF Mkdir, Rmdir, Touch, Report
  <2>3. PICK ev : queue' \in {queue, Append(queue, ev)}
    BY <2>2
  <2>4. ASSUME NEW i \in DOMAIN queue
        PROVE  i \in DOMAIN queue' /\ queue'[i] = queue[i]
    BY <2>1, <2>3, <2>4
  <2> QED BY <2>4 DEF Queued, Created
<1> QED BY <1>1, <1>2, <1>3 DEF Excuses, ToAdd, ToRead, Handled, Created

LEMMA KeptTree ==
    ASSUME TypeInv, NEW x \in Dirs, Mkdir(x) \/ Rmdir(x) \/ Touch(x),
           NEW p \in Dirs, Kept(p)
    PROVE  Kept(p)'
<1>1. UNCHANGED <<watched, stripped, walk>>
  BY DEF Mkdir, Rmdir, Touch, Change, table, busy
<1>2. Rooted(p)'
  BY <1>1 DEF Kept, Rooted, ToAdd
<1>3. ASSUME NEW d \in exists, d \notin inotify, IsPrefix(p, d)
      PROVE  Excused(d, p)'
  <2>1. d \in Dirs
    BY DEF TypeInv
  <2>2. PICK a \in Dirs : IsPrefix(a, d) /\ Excuses(a, d, p)
    BY <1>3 DEF Kept, Excused
  <2>3. Excuses(a, d, p)'
    BY <2>1, <2>2, ExcusesTree
  <2> QED BY <2>2, <2>3 DEF Excused
<1>4. CASE Mkdir(x)
  <2>1. /\ x \notin exists /\ Front(x) \in exists /\ exists' = exists \cup {x}
        /\ inotify' = inotify /\ Report("created", x, Front(x) \in inotify)
        /\ Len(queue) \in Nat /\ maxQueued \in Nat
        /\ inotify \subseteq exists /\ exists \subseteq Dirs /\ Closed(exists)
        /\ x # <<>> /\ queue \in Seq(Events)
    BY <1>4, Bounds DEF Mkdir, TypeInv
  <2>2. ASSUME IsPrefix(p, x) PROVE Excused(x, p)'
    <3>1. CASE Front(x) \in inotify
      <4>1. PICK ev : ev = Created(x)
        OBVIOUS
      <4>2. CASE Len(queue) < maxQueued
        <5>1. queue' = Append(queue, ev)
          BY <2>1, <3>1, <4>1, <4>2 DEF Report, Created
        <5>2. Len(queue') \in DOMAIN queue' /\ queue'[Len(queue')] = ev
          BY <2>1, <5>1
        <5>3. Queued(x)'
          BY <4>1, <5>2 DEF Queued, Created
        <5> QED BY <2>1, <2>2, <5>3, PrefixOrder DEF Excused, Excuses
      <4>3. CASE ~(Len(queue) < maxQueued)
        <5>1. x \in lost'
          BY <2>1, <3>1, <4>3 DEF Report
        <5> QED BY <5>1, PrefixOrder DEF Excused, Excuses
      <4> QED BY <4>2, <4>3
    <3>2. CASE Front(x) \notin inotify /\ x # p
      <4>1. Front(x) \in Dirs /\ IsPrefix(p, Front(x)) /\ IsPrefix(Front(x), x)
        BY <2>1, <2>2, <3>2, FrontFacts
      <4>2. PICK a \in Dirs : IsPrefix(a, Front(x)) /\ Excuses(a, Front(x), p)
        BY <2>1, <3>2, <4>1 DEF Kept, Excused
      <4>3. IsPrefix(a, x) /\ a # x
        BY <2>1, <4>1, <4>2, PrefixOrder DEF Closed
      <4>4. Excuses(a, x, p)
        BY <4>2, <4>3 DEF Excuses
      <4>5. Excuses(a, x, p)'
        BY <1>4, <4>4, ExcusesTree
      <4> QED BY <4>3, <4>5 DEF Excused
    <3>3. CASE x = p
      <4>1. Excuses(x, x, p)'
        BY <1>2, <2>1, <3>3 DEF Rooted, Excuses, Stale
      <4> QED BY <4>1, PrefixOrder DEF Excused
    <3> QED BY <3>1, <3>2, <3>3
  <2> QED BY <1>2, <1>3, <2>1, <2>2 DEF Kept
<1>5. CASE Rmdir(x)
  <2>1. exists' = exists \ {x} /\ inotify' = inotify \ {x}
    BY <1>5 DEF Rmdir
  <2> QED BY <1>2, <1>3, <2>1 DEF Kept
<1>6. CASE Touch(x)
  <2>1. exists' = exists /\ inotify' = inotify
    BY <1>6 DEF Touch
  <2> QED BY <1>2, <1>3, <2>1 DEF Kept
<1> QED BY <1>4, <1>5, <1>6

(* addPathLocked: what it does not hand to fsnotify it leaves with a count.*)
LEMMA KeptAdd ==
    ASSUME TypeInv, WalkAdd, NEW p \in Dirs, Kept(p)
    PROVE  Kept(p)'
<1>1. PICK w \in walk : /\ w.step = "add" /\ AddPath(w.dir)
                        /\ walk' = (walk \ {w}) \cup {[w EXCEPT !.step = "read"]}
  BY DEF WalkAdd
<1>2. PICK x \in Dirs : w = [dir |-> x, step |-> "add"] /\ AddPath(x)
  BY <1>1 DEF TypeInv, Walking
<1>3. walk' = (walk \ {w}) \cup {[dir |-> x, step |-> "read"]}
  BY <1>1, <1>2
<1>4. UNCHANGED <<exists, queue, stripped, lost, event, rounds>>
  BY DEF WalkAdd, tree, ghosts
<1>5. /\ inotify \subseteq inotify' /\ inotify' \subseteq inotify \cup {x}
      /\ watched'[x] > 0
      /\ watched[x] > 0 => inotify' = inotify
      /\ \A y \in Dirs : watched'[y] >= watched[y]
      /\ watched \in [Dirs -> Nat] /\ watched' \in [Dirs -> Nat]
  BY <1>2, AddPathFacts DEF TypeInv
<1>6. ASSUME NEW a \in Dirs, ToAdd(a), a # x PROVE ToAdd(a)'
  BY <1>2, <1>3, <1>6 DEF ToAdd
<1>7. Rooted(p)'
  <2>1. watched[p] > 0 => watched'[p] > 0
    BY <1>5
  <2> QED BY <1>4, <1>5, <1>6, <2>1 DEF Kept, Rooted
<1>8. ASSUME NEW a \in Dirs, a \in Stale PROVE a \in Stale'
  <2>1. a \notin inotify /\ watched[a] > 0 /\ watched'[a] > 0
    BY <1>5, <1>8 DEF Stale
  <2>2. a \notin inotify'
    BY <1>5, <2>1
  <2> QED BY <2>1, <2>2 DEF Stale
<1>9. ASSUME NEW d \in exists, d \notin inotify', IsPrefix(p, d)
      PROVE  Excused(d, p)'
  <2>1. d \in Dirs /\ d \notin inotify
    BY <1>5, <1>9 DEF TypeInv
  <2>2. PICK a \in Dirs : IsPrefix(a, d) /\ Excuses(a, d, p)
    BY <1>9, <2>1 DEF Kept, Excused
  <2>3. CASE ToAdd(a)
    <3>1. CASE a # x
      BY <1>6, <2>2, <2>3, <3>1 DEF Excused, Excuses
    <3>2. CASE a = x /\ a = d
      <4>1. a \in Stale'
        BY <1>5, <1>9, <3>2 DEF Stale
      <4> QED BY <2>2, <4>1 DEF Excused, Excuses
    <3>3. CASE a = x /\ a # d
      <4>1. ToRead(a)'
        BY <1>3, <3>3 DEF ToRead
      <4> QED BY <2>2, <3>3, <4>1 DEF Excused, Excuses
    <3> QED BY <3>1, <3>2, <3>3
  <2>4. CASE ~ToAdd(a)
    <3>1. ToRead(a) => ToRead(a)'
      BY <1>2, <1>3 DEF ToRead
    <3>2. (Handled(a) => Handled(a)') /\ (Queued(a) => Queued(a)')
      BY <1>4 DEF Handled, Queued, Created
    <3>3. Excuses(a, d, p)'
      BY <1>4, <1>8, <2>2, <2>4, <3>1, <3>2 DEF Excuses
    <3> QED BY <2>2, <3>3 DEF Excused
  <2> QED BY <2>3, <2>4
<1> QED BY <1>4, <1>7, <1>9 DEF Kept

(* WalkDir reads a directory after adding it, so an entry it does not see  *)
(* is one fsnotify reports.                                                *)
LEMMA KeptRead ==
    ASSUME TypeInv, WalkRead, NEW p \in Dirs, Kept(p)
    PROVE  Kept(p)'
<1>1. PICK w \in walk :
        /\ w.step = "read"
        /\ walk' = (walk \ {w}) \cup
             {[dir |-> d, step |-> "add"] :
                d \in {e \in exists \ {<<>>} : Front(e) = w.dir}}
  BY DEF WalkRead
<1>2. PICK x \in Dirs : w = [dir |-> x, step |-> "read"]
  BY <1>1 DEF TypeInv, Walking
<1>3. UNCHANGED <<exists, inotify, queue, watched, stripped, lost, event, rounds>>
  BY DEF WalkRead, tree, table, ghosts
<1>4. ASSUME NEW a \in Dirs PROVE ToAdd(a) => ToAdd(a)'
  BY <1>1, <1>2 DEF ToAdd
<1>5. ASSUME NEW a \in Dirs, a # x PROVE ToRead(a) => ToRead(a)'
  BY <1>1, <1>2, <1>5 DEF ToRead
<1>6. Rooted(p)'
  BY <1>3, <1>4 DEF Kept, Rooted
<1>7. ASSUME NEW d \in exists, d \notin inotify, IsPrefix(p, d)
      PROVE  Excused(d, p)'
  <2>1. d \in Dirs /\ Closed(exists)
    BY <1>7 DEF TypeInv
  <2>2. PICK a \in Dirs : IsPrefix(a, d) /\ Excuses(a, d, p)
    BY <1>7 DEF Kept, Excused
  <2>3. CASE ToRead(a) /\ a # d /\ a = x
    <3>1. PICK k \in Dirs : k # <<>> /\ Front(k) = a /\ IsPrefix(k, d)
      BY <2>1, <2>2, <2>3, ChildToward
    <3>2. k \in exists
      BY <1>7, <2>1, <3>1 DEF Closed
    <3>3. ToAdd(k)'
      BY <1>1, <1>2, <2>3, <3>1, <3>2 DEF ToAdd
    <3> QED BY <3>1, <3>3 DEF Excused, Excuses
  <2>4. CASE ~(ToRead(a) /\ a # d /\ a = x)
    <3>1. a \in Stale => a \in Stale'
      BY <1>3 DEF Stale
    <3>2. (Handled(a) => Handled(a)') /\ (Queued(a) => Queued(a)')
      BY <1>3 DEF Handled, Queued, Created
    <3>3. Excuses(a, d, p)'
      BY <1>3, <1>4, <1>5, <2>2, <2>4, <3>1, <3>2 DEF Excuses
    <3> QED BY <2>2, <3>3 DEF Excused
  <2> QED BY <2>3, <2>4
<1> QED BY <1>3, <1>6, <1>7 DEF Kept
(* fs.watch itself: its walk, or the count it adds.                        *)
LEMMA ExcusesWatch ==
    ASSUME TypeInv, NEW c \in Conns, NEW path \in Dirs, NEW recursive \in BOOLEAN,
           Watch(c, path, recursive),
           NEW a \in Dirs, NEW d \in Dirs, NEW p \in Dirs, Excuses(a, d, p)
    PROVE  Excuses(a, d, p)'
<1>1. walk = {} /\ event = NoEvent /\ UNCHANGED <<queue, stripped, lost>>
  BY DEF Watch, Unlocked, ghosts
<1>2. ~ToAdd(a) /\ ~ToRead(a) /\ ~Handled(a)
  BY <1>1 DEF ToAdd, ToRead, Handled, Created, NoEvent
<1>3. Queued(a) => Queued(a)'
  BY <1>1 DEF Queued, Created
<1>4. a \in Stale => a \in Stale'
  <2>1. CASE recursive
    BY <2>1 DEF Watch, Stale
  <2>2. CASE ~recursive
    <3>1. AddPath(path)
      BY <2>2 DEF Watch
    <3>2. /\ inotify' \subseteq inotify \cup {path}
          /\ watched[path] > 0 => inotify' = inotify
          /\ \A y \in Dirs : watched'[y] >= watched[y]
          /\ watched \in [Dirs -> Nat] /\ watched' \in [Dirs -> Nat]
      BY <3>1, AddPathFacts DEF TypeInv
    <3>3. ASSUME a \in Stale PROVE a \notin inotify' /\ watched'[a] > 0
      <4>1. watched[a] > 0 /\ a \notin inotify
        BY <3>3 DEF Stale
      <4> QED BY <3>2, <4>1
    <3> QED BY <3>3 DEF Stale
  <2> QED BY <2>1, <2>2
<1> QED BY <1>1, <1>2, <1>3, <1>4 DEF Excuses

LEMMA CoveredWatch ==
    ASSUME CoverInv, NEW c \in Conns, NEW path \in Dirs, NEW recursive \in BOOLEAN,
           Watch(c, path, recursive)
    PROVE  Covered'
<1>1. /\ TypeInv /\ Covered /\ walk = {} /\ UNCHANGED <<exists, stripped, lost>>
      /\ exists \subseteq Dirs
  BY DEF CoverInv, TypeInv, Watch, Unlocked, tree, ghosts
<1>2. /\ inotify \subseteq inotify' /\ \A y \in Dirs : watched[y] > 0 => watched'[y] > 0
  <2>1. CASE recursive
    BY <2>1 DEF Watch
  <2>2. CASE ~recursive
    <3>1. AddPath(path)
      BY <2>2 DEF Watch
    <3>2. /\ inotify \subseteq inotify' /\ \A y \in Dirs : watched'[y] >= watched[y]
          /\ watched \in [Dirs -> Nat] /\ watched' \in [Dirs -> Nat]
      BY <1>1, <3>1, AddPathFacts DEF TypeInv
    <3> QED BY <3>2
  <2> QED BY <2>1, <2>2
<1>3. ASSUME NEW p \in Dirs, Kept(p) PROVE Kept(p)'
  <2>1. Rooted(p)'
    BY <1>1, <1>2, <1>3 DEF Kept, Rooted, ToAdd
  <2>2. ASSUME NEW d \in exists, d \notin inotify', IsPrefix(p, d)
        PROVE  Excused(d, p)'
    <3>1. d \in Dirs /\ d \notin inotify
      BY <1>1, <1>2, <2>2
    <3>2. PICK a \in Dirs : IsPrefix(a, d) /\ Excuses(a, d, p)
      BY <1>3, <2>2, <3>1 DEF Kept, Excused
    <3>3. Excuses(a, d, p)'
      BY <1>1, <3>1, <3>2, ExcusesWatch
    <3> QED BY <3>2, <3>3 DEF Excused
  <2> QED BY <1>1, <2>1, <2>2 DEF Kept
<1>4. ASSUME recursive, path \in exists PROVE Kept(path)'
  <2>1. ToAdd(path)'
    BY <1>4 DEF Watch, StartWalk, ToAdd
  <2> QED BY <1>1, <2>1 DEF Kept, Rooted, Excused, Excuses
<1>5. ASSUME NEW b \in Conns, NEW e \in watches'[b], e.recursive, e.found
      PROVE  Kept(e.path)'
  <2>1. PICK n : n = [path |-> path, recursive |-> recursive,
                      found |-> path \in exists]
    OBVIOUS
  <2>2. e \in watches[b] \/ e = n
    BY <1>1, <1>5, <2>1 DEF Watch, TypeInv
  <2>3. CASE e \in watches[b]
    <3>1. PICK p \in Dirs : p = e.path
      BY <1>1, <2>3 DEF TypeInv, TableOK, Entries
    <3>2. Kept(p)
      BY <1>1, <1>5, <2>3, <3>1 DEF Covered
    <3>3. Kept(p)'
      BY <1>3, <3>2
    <3> QED BY <3>1, <3>3
  <2>4. CASE e = n
    BY <1>4, <1>5, <2>1, <2>4
  <2> QED BY <2>2, <2>3, <2>4
<1> QED BY <1>5 DEF Covered

(* A connection that leaves strips what it alone counted.                  *)
LEMMA KeptDisconnect ==
    ASSUME TypeInv, NEW c \in Conns, OnDisconnect(c), NEW p \in Dirs, Kept(p)
    PROVE  Kept(p)'
<1>1. UNCHANGED <<exists, queue, lost, walk, event, rounds>>
  BY DEF OnDisconnect, tree, busy
<1>2. /\ watched \in [Dirs -> Nat] /\ watched' \in [Dirs -> Nat]
      /\ inotify' \subseteq inotify
      /\ \A x \in inotify \ inotify' : watched[x] > 0 /\ watched'[x] = 0
  BY RemovePathsFacts DEF OnDisconnect, TypeInv
<1>3. stripped' = stripped \cup {d \in Dirs : watched[d] > 0 /\ watched'[d] = 0}
  BY DEF OnDisconnect
<1>4. ASSUME NEW a \in Dirs, watched[a] > 0
      PROVE  watched'[a] > 0 \/ a \in stripped'
  BY <1>2, <1>3, <1>4
<1>5. Rooted(p)'
  BY <1>1, <1>3, <1>4 DEF Kept, Rooted, ToAdd
<1>6. ASSUME NEW d \in exists, d \notin inotify', IsPrefix(p, d)
      PROVE  Excused(d, p)'
  <2>1. d \in Dirs
    BY DEF TypeInv
  <2>2. CASE d \in inotify
    <3>1. d \in stripped'
      BY <1>2, <1>3, <1>6, <2>1, <2>2
    <3> QED BY <2>1, <3>1, PrefixOrder DEF Excused, Excuses
  <2>3. CASE d \notin inotify
    <3>1. PICK a \in Dirs : IsPrefix(a, d) /\ Excuses(a, d, p)
      BY <1>6, <2>3 DEF Kept, Excused
    <3>2. a \in Stale => a \in Stale' \/ a \in stripped'
      BY <1>2, <1>4 DEF Stale
    <3>3. Excuses(a, d, p)'
      BY <1>1, <1>3, <3>1, <3>2
      DEF Excuses, ToAdd, ToRead, Handled, Queued, Created
    <3> QED BY <3>1, <3>3 DEF Excused
  <2> QED BY <2>2, <2>3
<1> QED BY <1>1, <1>5, <1>6 DEF Kept

(* The event loop: a creation it takes up has walks to start as long as    *)
(* there is a recursive subscription above it.                             *)
LEMMA KeptReceive ==
    ASSUME TypeInv, ReceiveEvent, NEW c \in Conns, NEW e \in watches[c],
           e.recursive, NEW p \in Dirs, p = e.path, Kept(p)
    PROVE  Kept(p)'
<1>1. /\ queue # <<>> /\ event' = Head(queue) /\ queue' = Tail(queue)
      /\ event = NoEvent
      /\ UNCHANGED <<exists, inotify, watched, stripped, lost, walk>>
  BY DEF ReceiveEvent, Unlocked, tree, table, ghosts
<1>2. queue \in Seq(Events) /\ Closed(exists) /\ exists \subseteq Dirs
  BY DEF TypeInv
<1>3. Rooted(p)'
  BY <1>1 DEF Kept, Rooted, ToAdd
<1>4. ASSUME NEW d \in exists, d \notin inotify, IsPrefix(p, d)
      PROVE  Excused(d, p)'
  <2>1. PICK a \in Dirs : IsPrefix(a, d) /\ Excuses(a, d, p)
    BY <1>4 DEF Kept, Excused
  <2>2. ~Handled(a)
    BY <1>1 DEF Handled, Created, NoEvent
  <2>3. ASSUME Queued(a), IsPrefix(p, a) PROVE Queued(a)' \/ Handled(a)'
    <3>1. PICK i \in DOMAIN queue : queue[i] = Created(a)
      BY <2>3 DEF Queued
    <3>2. CASE i = 1
      <4>1. event' = Created(a)
        BY <1>1, <1>2, <3>1, <3>2
      <4>2. a \in exists
        BY <1>2, <1>4, <2>1 DEF Closed
      <4>3. c \in Recursive(a)
        BY <2>3 DEF Recursive, Covers
      <4>4. rounds' = Cardinality(Recursive(a))
        BY <4>1, <4>2 DEF ReceiveEvent, Created
      <4>5. rounds' > 0
        BY <4>3, <4>4, RecursiveCount
      <4> QED BY <4>1, <4>5 DEF Handled, Created
    <3>3. CASE i # 1
      <4>1. i - 1 \in DOMAIN queue' /\ queue'[i - 1] = queue[i]
        BY <1>1, <1>2, <3>1, <3>3
      <4> QED BY <3>1, <4>1 DEF Queued, Created
    <3> QED BY <3>2, <3>3
  <2>4. a \in Stale => a \in Stale'
    BY <1>1 DEF Stale
  <2>5. Excuses(a, d, p)'
    BY <1>1, <2>1, <2>2, <2>3, <2>4 DEF Excuses, ToAdd, ToRead
  <2> QED BY <2>1, <2>5 DEF Excused
<1> QED BY <1>1, <1>3, <1>4 DEF Kept

LEMMA KeptRound ==
    ASSUME TypeInv, StartRound \/ PublishEvent, NEW p \in Dirs, Kept(p)
    PROVE  Kept(p)'
<1>1. UNCHANGED <<exists, inotify, queue, watched, stripped, lost>> /\ walk = {}
  BY DEF StartRound, PublishEvent, tree, table, ghosts
<1>2. Closed(exists) /\ exists \subseteq Dirs
  BY DEF TypeInv
<1>3. Rooted(p)'
  BY <1>1 DEF Kept, Rooted, ToAdd
<1>4. ASSUME NEW d \in exists, d \notin inotify, IsPrefix(p, d)
      PROVE  Excused(d, p)'
  <2>1. PICK a \in Dirs : IsPrefix(a, d) /\ Excuses(a, d, p)
    BY <1>4 DEF Kept, Excused
  <2>2. ~ToAdd(a) /\ ~ToRead(a)
    BY <1>1 DEF ToAdd, ToRead
  <2>3. ASSUME Handled(a) PROVE ToAdd(a)'
    <3>1. StartRound /\ event.path = a
      BY <2>3 DEF PublishEvent, Handled, Created
    <3>2. a \in exists
      BY <1>2, <1>4, <2>1 DEF Closed
    <3> QED BY <3>1, <3>2 DEF StartRound, StartWalk, ToAdd
  <2>4. (a \in Stale => a \in Stale') /\ (Queued(a) => Queued(a)')
    BY <1>1 DEF Stale, Queued, Created
  <2>5. Excuses(a, d, p)'
    BY <1>1, <2>1, <2>2, <2>3, <2>4 DEF Excuses
  <2> QED BY <2>1, <2>5 DEF Excused
<1> QED BY <1>1, <1>3, <1>4 DEF Kept

LEMMA KeptRest ==
    ASSUME TypeInv, WatcherFails \/ LoopStops \/ UNCHANGED vars
                      \/ (\E c \in Conns : ClosePump(c)),
           NEW p \in Dirs, Kept(p)
    PROVE  Kept(p)'
<1>1. UNCHANGED <<exists, inotify, queue, watched, stripped, lost, walk, event,
                  rounds>>
  BY DEF WatcherFails, LoopStops, ClosePump, vars, tree, table, busy, ghosts
<1>2. (\A a \in Dirs : a \in Stale => a \in Stale') /\ (Rooted(p) => Rooted(p)')
  BY <1>1 DEF Stale, Rooted, ToAdd
<1>3. ASSUME NEW d \in exists, d \notin inotify, IsPrefix(p, d)
      PROVE  Excused(d, p)'
  <2>1. PICK a \in Dirs : IsPrefix(a, d) /\ Excuses(a, d, p)
    BY <1>3 DEF Kept, Excused
  <2>2. Excuses(a, d, p)'
    BY <1>1, <1>2, <2>1
    DEF Excuses, ToAdd, ToRead, Handled, Queued, Created
  <2> QED BY <2>1, <2>2 DEF Excused
<1> QED BY <1>1, <1>2, <1>3 DEF Kept

(* Every step that adds no entry keeps what its entries stand for.         *)
LEMMA CoverStep == CoverInv /\ [Next]_vars => CoverInv'
<1> SUFFICES ASSUME CoverInv, [Next]_vars PROVE CoverInv'
  OBVIOUS
<1>1. TypeInv /\ Covered /\ TypeInv'
  BY TypeStep DEF CoverInv
<1>2. CASE \E c \in Conns, path \in Dirs, recursive \in BOOLEAN :
             Watch(c, path, recursive)
  BY <1>1, <1>2, CoveredWatch DEF CoverInv
<1>3. CASE Stop
  BY <1>1, <1>3 DEF Stop, Covered, CoverInv
<1>4. CASE ~Stop /\ ~\E c \in Conns, path \in Dirs, recursive \in BOOLEAN :
             Watch(c, path, recursive)
  <2>1. ASSUME NEW c \in Conns PROVE watches'[c] \subseteq watches[c]
    BY <1>1, <1>4
    DEF Next, HandlerStep, Mkdir, Rmdir, Touch, Change, ClosePump, OnDisconnect,
        WatcherFails, WalkAdd, WalkRead, ReceiveEvent, StartRound, PublishEvent,
        LoopStops, vars, table, TypeInv
  <2>2. ASSUME NEW c \in Conns, NEW e \in watches'[c], e.recursive, e.found
        PROVE  Kept(e.path)'
    <3>1. e \in watches[c]
      BY <2>1, <2>2
    <3>2. PICK p \in Dirs : p = e.path
      BY <1>1, <3>1 DEF TypeInv, TableOK, Entries
    <3>3. Kept(p)
      BY <1>1, <2>2, <3>1, <3>2 DEF Covered
    <3>4. Kept(p)'
      BY <1>1, <1>4, <2>2, <3>1, <3>2, <3>3, KeptTree, KeptAdd, KeptRead,
         KeptDisconnect, KeptReceive, KeptRound, KeptRest
      DEF Next, HandlerStep
    <3> QED BY <3>2, <3>4
  <2> QED BY <1>1, <2>2 DEF Covered, CoverInv
<1> QED BY <1>2, <1>3, <1>4

LEMMA CoverInit == Init => CoverInv
BY TypeInit DEF Init, Covered, CoverInv, table

(* In a quiet state only the excuses that nothing will answer are left.    *)
LEMMA QuietCovered == CoverInv => NewDirsCovered
<1> SUFFICES ASSUME CoverInv, Quiet, NEW c \in Conns, NEW e \in watches[c],
                    NEW d \in exists \ inotify, e.found, Covers(e, d)
             PROVE  \E a \in Stale \cup stripped \cup lost : IsPrefix(a, d)
  BY DEF NewDirsCovered
<1>1. Kept(e.path) /\ d \in exists \ inotify /\ IsPrefix(e.path, d)
  BY DEF CoverInv, Covered, Covers
<1>2. PICK a \in Dirs : IsPrefix(a, d) /\ Excuses(a, d, e.path)
  BY <1>1 DEF Kept, Excused
<1>3. walk = {} /\ event = NoEvent /\ queue = <<>>
  BY DEF Quiet, Unlocked
<1>4. ~ToAdd(a) /\ ~ToRead(a) /\ ~Handled(a) /\ ~Queued(a)
  BY <1>3 DEF ToAdd, ToRead, Handled, Queued, Created, NoEvent
<1> QED BY <1>2, <1>4 DEF Excuses

(* The race between a walk and other programs' mkdir is won: once nothing  *)
(* is in flight, every directory below a recursive subscription is         *)
(* watched, except below one with a stale count, one that a leaving        *)
(* connection stopped watching or one whose creation a full queue dropped, *)
(* and except for a subscription whose path did not exist when it was made.*)
THEOREM NewDirectoriesCovered == Spec => []NewDirsCovered
<1> QED BY CoverInit, CoverStep, QuietCovered, PTL DEF Spec
=============================================================================
