-------------------------------- MODULE FsOps --------------------------------
(***************************************************************************)
(* The fs.* requests of the sandbox daemon                                 *)
(* (sandbox-daemon/internal/fs/handler.go): each handler looks at the tree *)
(* and then changes it, one system call after another, while the handlers  *)
(* of other connections do the same.  A connection serves one request at a *)
(* time.  System calls are atomic; so are WriteFile, MkdirAll, RemoveAll   *)
(* and ReadDir, whose own steps this module leaves out.                    *)
(***************************************************************************)
EXTENDS Naturals, Sequences, FiniteSets, SequencesExt

CONSTANTS
    Conns,
    Paths,        \* sequences of names below the workspace root <<>>
    MaxRequests   \* bound: requests each connection makes

ASSUME FsAssumption ==
    /\ <<>> \in Paths /\ Paths \subseteq Seq(STRING)
    /\ \A p \in Paths : \A n \in 0..Len(p) : SubSeq(p, 1, n) \in Paths
    /\ MaxRequests \in Nat

VARIABLES
    node,      \* what there is at each path
    op,        \* the request each connection is serving, and its next step
    changed,   \* has that request changed the tree
    raced,     \* has another one changed it since that request began
    answer,    \* its answer, once given
    requests   \* requests made on each connection

vars == <<node, op, changed, raced, answer, requests>>

(* File contents are told apart by the request that wrote them: the nth of *)
(* who's, to path.                                                         *)
Absent == [kind |-> "absent"]
Dir == [kind |-> "dir"]
File(who, nth, path) ==
    [kind |-> "file", by |-> who, nth |-> nth, at |-> path]

Is(path, kind) == node[path].kind = kind
HasParent(path) == path = <<>> \/ Is(Front(path), "dir")
Children(path) == {p \in Paths \ {<<>>} : Front(p) = path /\ ~Is(p, "absent")}

(* What stat says of a path that is not there.                             *)
StatError(path) ==
    IF \E p \in Paths : IsStrictPrefix(p, path) /\ Is(p, "file")
    THEN "io" ELSE "not_found"

(* A tree: whatever is above something is a directory.                     *)
WellFormed(tree) ==
    /\ tree[<<>>] = Dir
    /\ \A p, q \in Paths :
          IsStrictPrefix(q, p) /\ tree[p] # Absent => tree[q] = Dir

Idle == [verb |-> "none", path |-> <<>>, to |-> <<>>, recursive |-> FALSE,
         step |-> "idle"]
NoAnswer == [verb |-> "none", code |-> "none", self |-> FALSE]

Init ==
    /\ node \in {t \in [Paths -> {Absent, Dir} \cup
                          {File("init", 0, p) : p \in Paths}] :
                   /\ WellFormed(t)
                   /\ \A p \in Paths : t[p].kind = "file" => t[p].at = p}
    /\ op = [c \in Conns |-> Idle]
    /\ changed = [c \in Conns |-> FALSE]
    /\ raced = [c \in Conns |-> FALSE]
    /\ answer = [c \in Conns |-> NoAnswer]
    /\ requests = [c \in Conns |-> 0]

At(c, verb, step) == op[c].verb = verb /\ op[c].step = step

Goto(c, step) ==
    /\ op' = [op EXCEPT ![c].step = step]
    /\ UNCHANGED <<answer, requests>>

Answer(c, code) ==
    /\ op' = [op EXCEPT ![c] = Idle]
    /\ answer' = [answer EXCEPT ![c] =
                    [verb |-> op[c].verb, code |-> code,
                     self |-> op[c].path = op[c].to]]
    /\ UNCHANGED requests

Look == UNCHANGED <<node, changed, raced>>

(* A system call that succeeds.  It need not change anything: rename(p, p) *)
(* and RemoveAll of what is gone do not.                                   *)
Change(c, tree) ==
    /\ node' = tree
    /\ changed' = [changed EXCEPT ![c] = @ \/ tree # node]
    /\ raced' = [d \in Conns |->
                   raced[d] \/ (tree # node /\ d # c /\ op[d] # Idle)]

(* A system call that fails: the tree is as it was.                        *)
Fail(c, code) == Look /\ Answer(c, code)

-----------------------------------------------------------------------------
(* A request that passed resolve(); move alone has a second path.          *)
Request(c, verb, path, to, recursive) ==
    /\ op[c] = Idle /\ requests[c] < MaxRequests
    /\ op' = [op EXCEPT ![c] = [verb |-> verb, path |-> path, to |-> to,
                                recursive |-> recursive, step |-> "stat"]]
    /\ changed' = [changed EXCEPT ![c] = FALSE]
    /\ raced' = [raced EXCEPT ![c] = FALSE]
    /\ answer' = [answer EXCEPT ![c] = NoAnswer]
    /\ requests' = [requests EXCEPT ![c] = @ + 1]
    /\ UNCHANGED node

(* fs.read and fs.list.                                                    *)
ReadFile(c, path) ==
    \/ /\ At(c, "read", "stat") /\ Look
       /\ CASE Is(path, "absent") -> Answer(c, StatError(path))
            [] Is(path, "dir") -> Answer(c, "invalid_path")
            [] OTHER -> Goto(c, "read")
    \/ /\ At(c, "read", "read")
       /\ Fail(c, IF Is(path, "file") THEN "ok" ELSE "io")

ListDir(c, path) ==
    \/ /\ At(c, "list", "stat") /\ Look
       /\ CASE Is(path, "absent") -> Answer(c, StatError(path))
            [] Is(path, "file") -> Answer(c, "invalid_path")
            [] OTHER -> Goto(c, "read")
    \/ /\ At(c, "list", "read")
       /\ Fail(c, IF Is(path, "dir") THEN "ok" ELSE "io")

(* Mutant of PostStat: a path that is gone again is reported as missing.   *)
PostStatMissing(c, path) ==
    /\ op[c].step = "post"
    /\ Fail(c, IF Is(path, "absent") THEN StatError(path) ELSE "ok")

(* The stat that ends write, mkdir and move, for the response's metadata.  *)
PostStat(c, path) ==
    /\ op[c].step = "post"
    /\ Fail(c, IF Is(path, "absent") THEN "io" ELSE "ok")

(* fs.write.                                                               *)
WriteFile(c, path) ==
    \/ /\ At(c, "write", "stat") /\ Look
       /\ IF Is(path, "dir") THEN Answer(c, "invalid_path")
                             ELSE Goto(c, "write")
    \/ /\ At(c, "write", "write")
       /\ IF HasParent(path) /\ ~Is(path, "dir")
            THEN /\ Change(c, [node EXCEPT ![path] = File(c, requests[c], path)])
                 /\ Goto(c, "post")
            ELSE Fail(c, IF Is(path, "dir") THEN "io" ELSE StatError(path))

(* fs.mkdir.                                                               *)
MakeDir(c, path) ==
    \/ /\ At(c, "mkdir", "stat") /\ Look
       /\ CASE Is(path, "dir") -> Answer(c, "ok")
            [] Is(path, "file") -> Answer(c, "exists")
            [] OTHER -> Goto(c, IF op[c].recursive THEN "all" ELSE "make")
    \/ /\ At(c, "mkdir", "all")
       /\ IF \E p \in Paths : IsPrefix(p, path) /\ Is(p, "file")
            THEN Fail(c, "io")
            ELSE /\ Change(c, [p \in Paths |-> IF IsPrefix(p, path)
                                               THEN Dir ELSE node[p]])
                 /\ Goto(c, "post")
    \/ /\ At(c, "mkdir", "make")
       /\ CASE ~Is(path, "absent") -> Fail(c, "exists")
            [] ~HasParent(path) -> Fail(c, StatError(path))
            [] OTHER -> Change(c, [node EXCEPT ![path] = Dir])
                          /\ Goto(c, "post")

-----------------------------------------------------------------------------
(* rename(2): it replaces a file by a file and an empty directory by a     *)
(* directory, moves a directory with all that is below, and leaves a path  *)
(* renamed to itself alone.                                                *)
MayRename(from, to) ==
    /\ ~Is(from, "absent")
    /\ \/ from = to
       \/ /\ to # <<>> /\ Is(Front(to), "dir") /\ ~IsPrefix(from, to)
          /\ \/ Is(to, "absent")
             \/ Is(to, "file") /\ Is(from, "file")
             \/ Is(to, "dir") /\ Is(from, "dir") /\ Children(to) = {}

(* The path below `to` that corresponds to one below `from`.               *)
Rebase(path, from, to) == to \o SubSeq(path, Len(from) + 1, Len(path))

Renamed(from, to) ==
    IF from = to THEN node
    ELSE [p \in Paths |->
            IF IsPrefix(to, p)
            THEN IF Rebase(p, to, from) \in Paths
                 THEN node[Rebase(p, to, from)] ELSE Absent
            ELSE IF IsPrefix(from, p) THEN Absent ELSE node[p]]

(* fs.move.  Workspaces in which it would leave Paths are out of scope.    *)
Fits(from, to) ==
    \A p \in Paths : IsPrefix(from, p) /\ ~Is(p, "absent")
        => Rebase(p, from, to) \in Paths

(* Mutant of MoveDest: the destination is not looked at.                   *)
MoveDestUnchecked(c, to) == At(c, "move", "dest") /\ Look /\ Goto(c, "parent")

MoveDest(c, to) ==
    /\ At(c, "move", "dest") /\ Look
    /\ IF Is(to, "absent") THEN Goto(c, "parent") ELSE Answer(c, "exists")

Move(c, from, to) ==
    \/ /\ At(c, "move", "stat") /\ Look
       /\ IF Is(from, "absent") THEN Answer(c, StatError(from))
                                ELSE Goto(c, "dest")
    \/ MoveDest(c, to)
    \/ /\ At(c, "move", "parent") /\ Look
       /\ IF HasParent(to) THEN Goto(c, "rename") ELSE Answer(c, "not_found")
    \/ /\ At(c, "move", "rename") /\ Fits(from, to)
       /\ IF MayRename(from, to)
            THEN Change(c, Renamed(from, to)) /\ Goto(c, "post")
            ELSE Fail(c, "io")

(* Mutant of Without: what is below a directory stays.                     *)
WithoutAlone(path) == [node EXCEPT ![path] = Absent]

(* fs.delete.                                                              *)
Without(path) == [p \in Paths |-> IF IsPrefix(path, p) THEN Absent ELSE node[p]]

DeleteEmpty(c, path) ==
    /\ At(c, "delete", "empty") /\ Look
    /\ CASE ~Is(path, "dir") -> Answer(c, "io")
         [] Children(path) # {} -> Answer(c, "not_empty")
         [] OTHER -> Goto(c, "all")

(* RemoveAll: a path that is gone is removed already, a file above it is   *)
(* an error.                                                               *)
DeleteAll(c, path) ==
    /\ At(c, "delete", "all")
    /\ IF Is(path, "absent") /\ StatError(path) = "io"
         THEN Fail(c, "io")
         ELSE Change(c, Without(path)) /\ Answer(c, "ok")

DeleteFile(c, path) ==
    /\ At(c, "delete", "remove")
    /\ IF Is(path, "absent") \/ Children(path) # {}
         THEN Fail(c, "io")
         ELSE Change(c, Without(path)) /\ Answer(c, "ok")

Delete(c, path) ==
    \/ /\ At(c, "delete", "stat") /\ Look
       /\ CASE Is(path, "absent") -> Answer(c, StatError(path))
            [] Is(path, "file") -> Goto(c, "remove")
            [] OTHER -> Goto(c, IF op[c].recursive THEN "all" ELSE "empty")
    \/ DeleteEmpty(c, path)
    \/ DeleteAll(c, path)
    \/ DeleteFile(c, path)

-----------------------------------------------------------------------------
Target(c) == IF op[c].verb = "move" THEN op[c].to ELSE op[c].path

Serve(c) ==
    \/ ReadFile(c, op[c].path)
    \/ ListDir(c, op[c].path)
    \/ WriteFile(c, op[c].path)
    \/ MakeDir(c, op[c].path)
    \/ Move(c, op[c].path, op[c].to)
    \/ Delete(c, op[c].path)
    \/ PostStat(c, Target(c))

Verbs == {"read", "list", "write", "mkdir", "move", "delete"}

(* The workspace root itself is neither moved nor deleted here.            *)
Next ==
    \E c \in Conns :
        \/ Serve(c)
        \/ \E verb \in Verbs, path \in Paths \ {<<>>} :
             \/ verb \in {"mkdir", "delete"}
                  /\ \E r \in BOOLEAN : Request(c, verb, path, <<>>, r)
             \/ verb \in {"read", "list", "write"}
                  /\ Request(c, verb, path, <<>>, FALSE)
             \/ verb = "move"
                  /\ \E to \in Paths : Request(c, verb, path, to, FALSE)

Spec == Init /\ [][Next]_vars

-----------------------------------------------------------------------------
Codes == {"none", "ok", "io", "not_found", "invalid_path", "exists",
          "not_empty"}
Steps == {"idle", "stat", "read", "write", "all", "make", "dest", "parent",
          "rename", "empty", "remove", "post"}

TypeOK ==
    /\ DOMAIN node = Paths
    /\ \A p \in Paths : node[p].kind \in {"absent", "dir", "file"}
    /\ WellFormed(node)
    /\ \A c \in Conns :
        /\ op[c].verb \in Verbs \cup {"none"} /\ op[c].step \in Steps
        /\ op[c].path \in Paths /\ op[c].to \in Paths
        /\ op[c].recursive \in BOOLEAN
        /\ changed[c] \in BOOLEAN /\ raced[c] \in BOOLEAN
        /\ answer[c].verb \in Verbs \cup {"none"} /\ answer[c].code \in Codes
        /\ answer[c].self \in BOOLEAN
        /\ requests[c] \in 0..MaxRequests

(* What a client may conclude from an answer other than fs.io, whatever    *)
(* the other connections did between the checks and the change.  A refusal *)
(* means that its request left the tree as it was; a granted write or move *)
(* that it changed the tree, a move onto itself excepted; but a granted    *)
(* delete only that it removed something or another connection changed the *)
(* tree meanwhile: RemoveAll does not say that there was nothing left, so  *)
(* that of two deletions of one directory both may be granted.             *)
AnswersAreTrue ==
    \A c \in Conns :
        /\ answer[c].code \in {"not_found", "invalid_path", "exists", "not_empty"}
             => ~changed[c]
        /\ answer[c].code = "ok" /\ answer[c].verb = "write" => changed[c]
        /\ answer[c].code = "ok" /\ answer[c].verb = "move"
             => changed[c] \/ answer[c].self
        /\ answer[c].code = "ok" /\ answer[c].verb = "delete"
             => changed[c] \/ raced[c]

(* The contents of the files there are.                                    *)
Contents == {node[p] : p \in {q \in Paths : Is(q, "file")}}

Took(c, verb, step) == At(c, verb, step) /\ op'[c].step # step

(* "If 'to' already exists the operation fails (fs.exists)", "without      *)
(* recursive ... the operation fails with fs.not_empty": a move loses no   *)
(* file and a plain delete of a directory takes none with it, unless       *)
(* another connection changed the tree between the check and the change.   *)
OnlyRacesDestroy ==
    [][\A c \in Conns :
        /\ ~raced[c]
        /\ \/ Took(c, "move", "rename")
           \/ Took(c, "delete", "all") /\ ~op[c].recursive
        => Contents \subseteq Contents']_vars
=============================================================================
