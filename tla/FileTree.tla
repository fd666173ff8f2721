------------------------------ MODULE FileTree ------------------------------
(***************************************************************************)
(* The file tree of the workspace page: FileTree.tsx, the list query and   *)
(* the mutations of hooks/useFs.ts, over one connection whose requests the *)
(* daemon serves in order.                                                 *)
(*                                                                         *)
(* Every expanded directory mounts a Node that observes the list query of  *)
(* its path; the cache keeps a list after its Node is gone, so what is     *)
(* shown for a path may come from another directory that had that path.    *)
(* A step is one JavaScript task with the React effects it leads to, or    *)
(* one request served.  A fetch that is cancelled is taken off the wire.   *)
(* A call in flight when the connection breaks is never answered.  The     *)
(* tree changes only through this page; the editor is in Editor.           *)
(***************************************************************************)
EXTENDS QueryClient

CONSTANTS
    Names,     \* what an entry may be called
    Paths,     \* sequences of names below the workspace root <<>>
    Trees,     \* bound: what the workspace may hold at first
    Retries    \* how often the query client repeats a failed fetch

Root == <<>>
Kinds == {"none", "file", "dir"}

(* Directories are made only where there is room below.                    *)
Dirs == {d \in Paths : \E p \in Paths \ {Root} : Front(p) = d}

ASSUME FileTreeAssumption ==
    /\ Root \in Dirs /\ Paths \subseteq Seq(Names)
    /\ \A p \in Paths \ {Root} : Front(p) \in Paths
    /\ \A t \in Trees :
        /\ t \in [Paths -> Kinds] /\ t[Root] = "dir"
        /\ \A p \in Paths \ {Root} :
             /\ t[p] # "none" => t[Front(p)] = "dir"
             /\ t[p] = "dir" => p \in Dirs
    /\ Retries \in Nat

(* disk has the kind of each path, cache the list of each, or NoList.      *)
VARIABLES
    invalid,  \* the lists that were invalidated since they were fetched
    open,     \* the mounted Nodes that are expanded
    unseen,   \* directories changed without a word to their list
    lost      \* lists whose fetch a break of the connection has taken

listQueries == <<cache, invalid, fetching, failed>>
history == <<unseen, lost>>
treeVars == <<disk, ready, wire, listQueries, open, history, bounds>>

NoList == [n \in {} |-> "none"]

Parent(p) == IF p = Root THEN Root ELSE Front(p)
Child(d, n) == Append(d, n)
Below(p) == {d \in Dirs : IsPrefix(p, d)}
IsDir(p) == disk[p] = "dir"
List(d) == [n \in Names |-> IF Child(d, n) \in Paths THEN disk[Child(d, n)]
                                                     ELSE "none"]

TreeInit ==
    /\ disk \in Trees
    /\ ready = FALSE /\ up = <<>> /\ down = <<>>
    /\ cache = [d \in Dirs |-> NoList] /\ invalid = {}
    /\ fetching = {} /\ failed = {}
    /\ open = {Root} /\ unseen = {} /\ lost = {}
    /\ asked = 0 /\ drops = 0

-----------------------------------------------------------------------------
(* What is mounted.  A Node exists while its parent is expanded and lists  *)
(* it as a directory; one that is unmounted forgets that it was open.      *)
NodeMounted(d, opened, lists) ==
    \A i \in 1..Len(d) :
        LET above == SubSeq(d, 1, i - 1)
        IN  above \in opened /\ lists[above] # NoList
              /\ lists[above][d[i]] = "dir"

StillOpen(opened, lists) == {d \in opened : NodeMounted(d, opened, lists)}

Shown(p) ==
    p # Root =>
        /\ Front(p) \in open /\ cache[Front(p)] # NoList
        /\ cache[Front(p)][Last(p)] # "none"

KindShown(p) == IF p = Root THEN "dir" ELSE cache[Front(p)][Last(p)]

-----------------------------------------------------------------------------
(* The query cache.                                                        *)
FetchList(d) == [op |-> "list", path |-> d, to |-> d, recursive |-> FALSE,
             failures |-> 0]
IsList(r, d) == r.op = "list" /\ r.path = d
OnWire(d) == \/ \E i \in DOMAIN up : IsList(up[i], d)
             \/ \E i \in DOMAIN down : IsList(down[i].to, d)

(* The lists of ds are fetched; their order is immaterial.                 *)
Start(ds) ==
    /\ up' = up \o SetToSeq({FetchList(d) : d \in ds})
    /\ fetching' = fetching \cup ds
    /\ failed' = failed \ {d \in ds : cache[d] = NoList}

(* Observers of the lists of ds appear or are enabled: a list is fetched   *)
(* if there is none, if it was invalidated or if it is older than 5 s,     *)
(* unless a fetch is in progress, alive or not.                            *)
ObserveLists(ds) ==
    IF ready'
      THEN \E old \in SUBSET ds :
             Start({d \in ds \ fetching :
                      cache[d] = NoList \/ d \in invalid \cup old})
      ELSE UNCHANGED <<up, fetching, failed>>

(* Mutant of InvalidateLists: the list of the parent alone.                *)
InvalidateParent(r) ==
    LET again == {d \in open \cap {Parent(r.path)} :
                    d \notin fetching \/ cache[d] # NoList}
        kept(q) == \A d \in again : ~IsList(q, d)
    IN  /\ up' = Keep(up, {i \in DOMAIN up : kept(up[i])})
                   \o SetToSeq({FetchList(d) : d \in again})
        /\ down' = Keep(down, {i \in 2..Len(down) : kept(down[i].to)})
        /\ fetching' = fetching \cup again
        /\ invalid' = invalid \cup {Parent(r.path)}
        /\ UNCHANGED failed

(* onSuccess of a change r: the lists of all paths are invalidated, those  *)
(* observed are fetched again.  A fetch in progress is cancelled if there  *)
(* is a list already, joined if there is none.                             *)
InvalidateLists(r) ==
    LET again == {d \in open : d \notin fetching \/ cache[d] # NoList}
        kept(q) == \A d \in again : ~IsList(q, d)
    IN  /\ up' = Keep(up, {i \in DOMAIN up : kept(up[i])})
                   \o SetToSeq({FetchList(d) : d \in again})
        /\ down' = Keep(down, {i \in 2..Len(down) : kept(down[i].to)})
        /\ fetching' = fetching \cup again
        /\ invalid' = Dirs
        /\ UNCHANGED failed

-----------------------------------------------------------------------------
(* The user.  A click on a directory toggles it.                           *)
Toggle(d) ==
    /\ Shown(d) /\ KindShown(d) = "dir"
    /\ UNCHANGED <<disk, ready, down, cache, invalid, history, bounds>>
    /\ IF d \in open
         THEN /\ open' = StillOpen(open \ {d}, cache)
              /\ UNCHANGED <<up, fetching, failed>>
         ELSE /\ open' = open \cup {d}
              /\ ObserveLists({d})

(* The items of the context menu, whose target is taken from what is shown *)
(* when one is chosen.  Only what a call to a ready connection sends is    *)
(* kept; without a daemon it fails at once.                                *)
Ask(op, p, q, recursive) ==
    /\ ready /\ asked < MaxAsks /\ asked' = asked + 1
    /\ Len(up) + Len(down) < MaxWire
    /\ q \in Paths
    /\ up' = Append(up, [op |-> op, path |-> p, to |-> q,
                         recursive |-> recursive, failures |-> 0])
    /\ UNCHANGED <<disk, ready, down, listQueries, open, history, drops>>

(* createEmptyFile and handleNewDir.  The name may be taken.               *)
NewFile(d, n) ==
    /\ Shown(d) /\ KindShown(d) = "dir"
    /\ Ask("write", Child(d, n), Child(d, n), FALSE)

NewDir(d, n) ==
    /\ Shown(d) /\ KindShown(d) = "dir" /\ Child(d, n) \in Dirs
    /\ Ask("mkdir", Child(d, n), Child(d, n), FALSE)

(* handleRename; the root has this item too, which asks to move "." into   *)
(* itself.                                                                 *)
Rename(p, n) ==
    /\ Shown(p) /\ (p # Root => Last(p) # n)
    /\ Ask("move", p, Child(Parent(p), n), FALSE)

(* handleDelete; the root has this item too.                               *)
Delete(p) ==
    /\ Shown(p)
    /\ \E recursive \in {FALSE, KindShown(p) = "dir"} :
          Ask("delete", p, p, recursive)

-----------------------------------------------------------------------------
(* The daemon (FsOps has its handlers step by step).                       *)
CanMove(p, q) ==
    disk[p] # "none" /\ disk[q] = "none" /\ IsDir(Parent(q)) /\ ~IsPrefix(p, q)

Moved(p, q) ==
    [x \in Paths |->
       IF IsPrefix(q, x)
         THEN LET old == p \o SubSeq(x, Len(q) + 1, Len(x))
              IN  IF old \in Paths THEN disk[old] ELSE "none"
       ELSE IF IsPrefix(p, x) THEN "none" ELSE disk[x]]

CanDelete(r) ==
    /\ disk[r.path] # "none"
    /\ r.recursive \/ \A n \in Names : List(r.path)[n] = "none"

(* What a request changes the tree to, if it succeeds.                     *)
Result(r) ==
    CASE r.op = "list" -> disk
      [] r.op = "write" -> [disk EXCEPT ![r.path] = "file"]
      [] r.op = "mkdir" -> [disk EXCEPT ![r.path] = "dir"]
      [] r.op = "move" -> Moved(r.path, r.to)
      [] r.op = "delete" -> [x \in Paths |->
                               IF IsPrefix(r.path, x) THEN "none" ELSE disk[x]]

Succeeds(r) ==
    CASE r.op = "list" -> IsDir(r.path)
      [] r.op = "write" -> ~IsDir(r.path) /\ IsDir(Parent(r.path))
      [] r.op = "mkdir" -> disk[r.path] # "file" /\ IsDir(Parent(r.path))
      [] r.op = "move" -> CanMove(r.path, r.to)
      [] r.op = "delete" -> CanDelete(r)

ServeTree ==
    /\ up # <<>>
    /\ LET r == Head(up) ok == Succeeds(r)
       IN  /\ disk' = IF ok THEN Result(r) ELSE disk
           /\ up' = Tail(up)
           /\ down' = Append(down,
                [to |-> r, ok |-> ok,
                 list |-> IF ok /\ r.op = "list" THEN List(r.path) ELSE NoList])
    /\ UNCHANGED <<ready, listQueries, open, history, bounds>>

-----------------------------------------------------------------------------
(* Answers.                                                                *)
Answered(ops, ok) ==
    down # <<>> /\ Head(down).to.op \in ops /\ Head(down).ok = ok

ListReturns ==
    LET a == Head(down) d == a.to.path
    IN  /\ Answered({"list"}, TRUE)
        /\ cache' = [cache EXCEPT ![d] = a.list]
        /\ open' = StillOpen(open, cache')
        /\ invalid' = invalid \ {d} /\ unseen' = unseen \ {d}
        /\ fetching' = fetching \ {d} /\ failed' = failed \ {d}
        /\ down' = Tail(down)
        /\ UNCHANGED <<disk, ready, up, lost, bounds>>

(* Mutant of ListFails: the retry is counted and not sent.                 *)
ListFailsForgotten ==
    /\ Answered({"list"}, FALSE)
    /\ down' = Tail(down)
    /\ IF Head(down).to.failures < Retries
         THEN UNCHANGED <<fetching, failed>>
         ELSE /\ fetching' = fetching \ {Head(down).to.path}
              /\ failed' = failed \cup {Head(down).to.path}
    /\ UNCHANGED <<disk, ready, up, cache, invalid, open, history, bounds>>

(* Mutant of ListFails: one retry too many.                                *)
ListFailsOnceMore ==
    LET r == Head(down).to
    IN  /\ Answered({"list"}, FALSE)
        /\ down' = Tail(down)
        /\ IF r.failures <= Retries
             THEN /\ up' = Append(up, [r EXCEPT !.failures = @ + 1])
                  /\ UNCHANGED <<fetching, failed>>
             ELSE /\ fetching' = fetching \ {r.path}
                  /\ failed' = failed \cup {r.path}
                  /\ UNCHANGED up
        /\ UNCHANGED <<disk, ready, cache, invalid, open, history, bounds>>

(* The fetch is repeated, or the query is in error and keeps its list.     *)
ListFails ==
    LET r == Head(down).to
    IN  /\ Answered({"list"}, FALSE)
        /\ down' = Tail(down)
        /\ IF r.failures < Retries
             THEN /\ up' = Append(up, [r EXCEPT !.failures = @ + 1])
                  /\ UNCHANGED <<fetching, failed>>
             ELSE /\ fetching' = fetching \ {r.path}
                  /\ failed' = failed \cup {r.path}
                  /\ UNCHANGED up
        /\ UNCHANGED <<disk, ready, cache, invalid, open, history, bounds>>

(* onSuccess of useFsMkdir, useFsMove and useFsDelete.                     *)
ChangeReturns ==
    /\ Answered({"mkdir", "move", "delete"}, TRUE)
    /\ InvalidateLists(Head(down).to)
    /\ lost' = lost \ {d \in open : cache[d] # NoList}
    /\ UNCHANGED <<disk, ready, cache, open, unseen, bounds>>

(* createEmptyFile after its await: it does nothing more.                  *)
NewFileReturns ==
    /\ Answered({"write"}, TRUE)
    /\ unseen' = unseen \cup {Parent(Head(down).to.path)}
    /\ down' = Tail(down)
    /\ UNCHANGED <<disk, ready, up, listQueries, open, lost, bounds>>

(* An error is shown.                                                      *)
ChangeFails ==
    /\ Answered({"write", "mkdir", "move", "delete"}, FALSE)
    /\ down' = Tail(down)
    /\ UNCHANGED <<disk, ready, up, listQueries, open, history, bounds>>

-----------------------------------------------------------------------------
(* The connection.  The answer to a change may be lost after the change.   *)
Affected(r) == {Parent(r.path), Parent(r.to)} \cup Below(r.path) \cup Below(r.to)
IsChange(a) == a.ok /\ a.to.op # "list"

TreeDrop ==
    /\ ready /\ drops < MaxDrops
    /\ ready' = FALSE /\ drops' = drops + 1
    /\ up' = <<>> /\ down' = <<>>
    /\ unseen' = unseen \cup UNION {Affected(down[i].to) :
                                      i \in {j \in DOMAIN down : IsChange(down[j])}}
    /\ lost' = fetching
    /\ UNCHANGED <<disk, listQueries, open, asked>>

TreeReady ==
    /\ ~ready /\ ready' = TRUE
    /\ ObserveLists(open)
    /\ UNCHANGED <<disk, down, cache, invalid, open, history, bounds>>

Answer == ListReturns \/ ListFails \/ ChangeReturns \/ NewFileReturns
            \/ ChangeFails

TreeNext ==
    \/ \E d \in Dirs : Toggle(d) \/ \E n \in Names : NewFile(d, n) \/ NewDir(d, n)
    \/ \E p \in Paths : Delete(p) \/ \E n \in Names : Rename(p, n)
    \/ ServeTree \/ Answer
    \/ TreeDrop \/ TreeReady

TreeSpec == TreeInit /\ [][TreeNext]_treeVars

-----------------------------------------------------------------------------
(* Properties                                                              *)

(* Every variable holds a value of its type.                               *)
TreeTypeOK ==
    /\ disk \in [Paths -> Kinds] /\ ready \in BOOLEAN
    /\ \A i \in DOMAIN up : up[i].path \in Paths /\ up[i].failures \in 0..Retries
    /\ \A i \in DOMAIN down : down[i].to.path \in Paths
    /\ cache \in [Dirs -> [Names -> Kinds] \cup {NoList}]
    /\ invalid \subseteq Dirs /\ fetching \subseteq Dirs
    /\ failed \subseteq Dirs /\ unseen \subseteq Dirs /\ lost \subseteq fetching
    /\ open = StillOpen(open, cache)
    /\ asked \in 0..MaxAsks /\ drops \in 0..MaxDrops

(* Every expanded directory shows what it holds, once the answers on their *)
(* way have arrived and its list is not being fetched or in error, even if *)
(* it was collapsed, moved or replaced by another of the same path since   *)
(* it was read; excepted are a file made by "New File" and changes whose   *)
(* answer was lost.                                                        *)
TreeCatchesUp ==
    ready /\ (\A i \in DOMAIN down : ~IsChange(down[i])) =>
        \A d \in open : \/ d \in fetching \cup failed \cup unseen
                        \/ cache[d] = List(d)

(* "loading..." ends in a list or an error, whatever is done to the        *)
(* directory meanwhile: every fetch in progress has its request or its     *)
(* answer on the wire.  Excepted are those a break of the connection has   *)
(* taken, which nobody answers and only a change made later sends again.   *)
ListsArrive == \A d \in fetching \ lost : OnWire(d)
=============================================================================
