------------------------------- MODULE Editor -------------------------------
(***************************************************************************)
(* The editor of the workspace page over one connection: MonacoImpl        *)
(* (components/editor/monaco-impl.tsx) and the query and the mutations of  *)
(* hooks/useFs.ts it uses.  FileTree has the tree that selects, creates    *)
(* and deletes the files.                                                  *)
(*                                                                         *)
(* A step is one JavaScript task with the React effects it leads to, or    *)
(* one request served by the daemon, which serves those of a connection in *)
(* order.  The query cache is TanStack's: one query for each file, a fetch *)
(* at a time for each; a fetch that is cancelled is taken off the wire,    *)
(* since reading changes nothing.  The data of a file carry its mtime, so  *)
(* that every write gives new data.  A call in flight when the connection  *)
(* breaks is never answered.  Monaco shows the buffer it is given, and no  *)
(* query stays unobserved for the five minutes after which the cache       *)
(* forgets it.                                                             *)
(***************************************************************************)
EXTENDS QueryClient

CONSTANTS
    Files,     \* paths of the workspace; each stands for its first text
    NoFile,    \* no file is selected; stands for the welcome text as well
    MaxClock   \* bound: texts typed and writes to the disk

ASSUME EditorAssumption == NoFile \notin Files /\ MaxClock \in Nat

(* disk and cache have each file's text and mtime, or Absent.              *)
VARIABLES
    clock,    \* gives texts and mtimes
    mounted,  \* the IDE view is shown, with the editor in it
    selected, \* selectedFile of the connection store
    target,   \* selectedFile as the Cmd+S command captured it
    text,     \* what the editor shows
    dirty,    \* its "modified" mark
    written,  \* the text of the last answered save of this editor
    floor     \* the mtime given by each file's last answered save

fileQueries == <<cache, fetching, failed>>
buffer == <<text, dirty>>
view == <<mounted, selected, target>>
saves == <<written, floor>>
editorVars ==
    <<disk, clock, ready, wire, fileQueries, view, buffer, saves, bounds>>

Texts == Files \cup {NoFile} \cup 0..MaxClock
Absent == [data |-> NoFile, mtime |-> 0]

EditorInit ==
    /\ disk = [f \in Files |-> [data |-> f, mtime |-> 0]]
    /\ clock = 0 /\ ready = FALSE /\ up = <<>> /\ down = <<>>
    /\ cache = [f \in Files |-> Absent] /\ fetching = {} /\ failed = {}
    /\ mounted = TRUE /\ selected = NoFile /\ target = NoFile
    /\ text = NoFile /\ dirty = FALSE
    /\ written = NoFile /\ floor = [f \in Files |-> 0]
    /\ asked = 0 /\ drops = 0

-----------------------------------------------------------------------------
(* The query cache.                                                        *)

(* The query the editor observes.                                          *)
Active == IF mounted THEN {selected} \ {NoFile} ELSE {}

FetchFile(f) == [op |-> "read", path |-> f, text |-> NoFile, live |-> FALSE]
IsRead(r, f) == r.op = "read" /\ r.path = f

(* The editor mounts, its file changes or the hooks get a daemon: the file *)
(* is fetched, being always stale, unless a fetch is in progress, alive or *)
(* not.                                                                    *)
ObserveFiles(fs) ==
    IF ready'
      THEN LET new == fs \ fetching
           IN  /\ up' = up \o SetToSeq({FetchFile(f) : f \in new})
               /\ fetching' = fetching \cup new
               /\ failed' = failed \ {f \in new : cache[f] = Absent}
      ELSE UNCHANGED <<up, fetching, failed>>

(* Mutant of InvalidateFile: the key of the file is left out.              *)
InvalidateNothing(f) == down' = Tail(down) /\ UNCHANGED <<up, fetching, failed>>

(* invalidateQueries for f, called for the answer at the head of `down`:   *)
(* the query is fetched again if it is observed, and a fetch in progress   *)
(* is cancelled if the query has data, joined if it has none.              *)
InvalidateFile(f) ==
    LET again == {q \in Active \cap {f} : q \notin fetching \/ cache[q] # Absent}
        kept(r) == \A q \in again : ~IsRead(r, q)
    IN  /\ up' = Keep(up, {i \in DOMAIN up : kept(up[i])})
                   \o SetToSeq({FetchFile(q) : q \in again})
        /\ down' = Keep(down, {i \in 2..Len(down) : kept(down[i].to)})
        /\ fetching' = fetching \cup again
        /\ UNCHANGED failed

-----------------------------------------------------------------------------
(* The editor.                                                             *)

(* The effect on [selectedFile, data]: new data replace the buffer.        *)
Load(file, data) ==
    IF file = NoFile
      THEN text' = NoFile /\ dirty' = FALSE
      ELSE IF data # Absent THEN text' = data.data /\ dirty' = FALSE
                            ELSE UNCHANGED buffer

(* Mutant of SelectFile: the effect does not depend on the selection.      *)
SelectWithoutLoad(f) ==
    /\ f # selected
    /\ selected' = f
    /\ UNCHANGED <<disk, clock, ready, down, cache, mounted, target, buffer,
                   saves, bounds>>
    /\ ObserveFiles(IF mounted THEN {f} ELSE {})

(* A click on a file of the tree, which may be gone by now.                *)
SelectFile(f) ==
    /\ f # selected
    /\ selected' = f
    /\ UNCHANGED <<disk, clock, ready, down, cache, mounted, target, saves,
                   bounds>>
    /\ ObserveFiles(IF mounted THEN {f} ELSE {})
    /\ IF mounted THEN Load(f, cache[f]) ELSE UNCHANGED buffer

(* The funnel view replaces the IDE view: the editor unmounts and its      *)
(* state is gone; what a pending save would set is not there any more.     *)
EditorUnmounts ==
    LET forget(r) == [r EXCEPT !.live = FALSE]
        forgetAnswer(a) == [a EXCEPT !.to = forget(@)]
    IN  /\ mounted /\ mounted' = FALSE
        /\ up' = [i \in DOMAIN up |-> forget(up[i])]
        /\ down' = [i \in DOMAIN down |-> forgetAnswer(down[i])]
        /\ target' = NoFile /\ text' = NoFile /\ dirty' = FALSE
        /\ written' = NoFile
        /\ UNCHANGED <<disk, clock, ready, fileQueries, selected, floor,
                       bounds>>

(* The editor mounts again.  handleMount registers Cmd+S once, with the    *)
(* save() of this first render.                                            *)
EditorMounts ==
    /\ ~mounted /\ mounted' = TRUE
    /\ target' = selected
    /\ UNCHANGED <<disk, clock, ready, down, cache, selected, saves, bounds>>
    /\ ObserveFiles({selected} \ {NoFile})
    /\ IF selected = NoFile \/ cache[selected] = Absent
         THEN UNCHANGED buffer
         ELSE Load(selected, cache[selected])

ReadOnly ==
    selected # NoFile /\ selected \in fetching /\ cache[selected] = Absent

(* onChange.                                                               *)
Type ==
    /\ mounted /\ ~ReadOnly /\ clock < MaxClock
    /\ clock' = clock + 1 /\ text' = clock + 1 /\ dirty' = TRUE
    /\ UNCHANGED <<disk, ready, wire, fileQueries, view, saves, bounds>>

-----------------------------------------------------------------------------
(* Calls that change the tree.  Without a daemon they fail at once.        *)
Call(op, f, t, live) ==
    /\ ready /\ asked < MaxAsks /\ asked' = asked + 1
    /\ Len(up) + Len(down) < MaxWire
    /\ up' = Append(up, [op |-> op, path |-> f, text |-> t, live |-> live])
    /\ UNCHANGED <<disk, clock, ready, down, fileQueries, view, buffer, saves,
                   drops>>

(* Mutant of Save: `if (!selectedFile) return` is missing.                 *)
SaveWelcome == mounted /\ Call("write", target, text, TRUE)

(* save(), up to its await, run by Cmd+S.                                  *)
Save == mounted /\ target # NoFile /\ Call("write", target, text, TRUE)

(* handleDelete of the tree.                                               *)
DeleteFile(f) == Call("delete", f, NoFile, FALSE)

-----------------------------------------------------------------------------
(* The daemon and other programs.                                          *)
Reply(file, ok) ==
    /\ up' = Tail(up)
    /\ down' = Append(down, [to |-> Head(up), file |-> file, ok |-> ok])

Rewrite(f, t) ==
    /\ clock < MaxClock /\ clock' = clock + 1
    /\ disk' = [disk EXCEPT ![f] = [data |-> t, mtime |-> clock + 1]]

(* The daemon serves the next request; a write may fail.                   *)
ServeFile ==
    /\ up # <<>>
    /\ LET r == Head(up)
       IN  \/ /\ r.op = "read"
              /\ Reply(disk[r.path], disk[r.path] # Absent)
              /\ UNCHANGED <<disk, clock>>
           \/ /\ r.op = "write"
              /\ Rewrite(r.path, r.text) /\ Reply(disk'[r.path], TRUE)
           \/ /\ r.op = "write"
              /\ Reply(Absent, FALSE) /\ UNCHANGED <<disk, clock>>
           \/ /\ r.op = "delete"
              /\ Reply(Absent, disk[r.path] # Absent)
              /\ disk' = [disk EXCEPT ![r.path] = Absent]
              /\ UNCHANGED clock
    /\ UNCHANGED <<ready, fileQueries, view, buffer, saves, bounds>>

(* Another program, an agent in a terminal say, writes a file, or the      *)
(* tree's "New File" does, of which the read query hears nothing either.   *)
Outside(f) ==
    /\ Rewrite(f, clock + 1)
    /\ UNCHANGED <<ready, wire, fileQueries, view, buffer, saves, bounds>>

-----------------------------------------------------------------------------
(* Answers.                                                                *)
AnswerTo(op) == down # <<>> /\ Head(down).to.op = op

(* Mutant of ReadReturns: the buffer is reset by every answer.             *)
ReadAlwaysLoads ==
    LET a == Head(down) f == a.to.path
    IN  /\ AnswerTo("read") /\ a.ok
        /\ cache' = [cache EXCEPT ![f] = a.file]
        /\ fetching' = fetching \ {f} /\ failed' = failed \ {f}
        /\ down' = Tail(down)
        /\ IF mounted /\ f = selected THEN Load(f, a.file) ELSE UNCHANGED buffer
        /\ UNCHANGED <<disk, clock, ready, up, view, saves, bounds>>

(* fs.read succeeds.  Data equal to those in the cache keep their identity,*)
(* and the editor's effect does not run.                                   *)
ReadReturns ==
    LET a == Head(down) f == a.to.path
    IN  /\ AnswerTo("read") /\ a.ok
        /\ cache' = [cache EXCEPT ![f] = a.file]
        /\ fetching' = fetching \ {f} /\ failed' = failed \ {f}
        /\ down' = Tail(down)
        /\ IF mounted /\ f = selected /\ a.file # cache[f]
             THEN Load(f, a.file)
             ELSE UNCHANGED buffer
        /\ UNCHANGED <<disk, clock, ready, up, view, saves, bounds>>

(* fs.read fails: it is tried again (how often is left open), or the query *)
(* is in error and keeps the data it had.                                  *)
ReadFails ==
    LET f == Head(down).to.path
    IN  /\ AnswerTo("read") /\ ~Head(down).ok
        /\ down' = Tail(down)
        /\ \/ up' = Append(up, FetchFile(f)) /\ UNCHANGED <<fetching, failed>>
           \/ /\ fetching' = fetching \ {f} /\ failed' = failed \cup {f}
              /\ UNCHANGED up
        /\ UNCHANGED <<disk, clock, ready, cache, view, buffer, saves, bounds>>

(* useFsWrite's onSuccess, then save() after its await, if the editor that *)
(* called it is still mounted.                                             *)
SaveReturns ==
    LET a == Head(down) f == a.to.path
    IN  /\ AnswerTo("write") /\ a.ok
        /\ InvalidateFile(f)
        /\ floor' = [floor EXCEPT ![f] = a.file.mtime]
        /\ IF a.to.live
             THEN text' = a.to.text /\ dirty' = FALSE /\ written' = a.to.text
             ELSE UNCHANGED <<buffer, written>>
        /\ UNCHANGED <<disk, clock, ready, cache, view, bounds>>

(* useFsDelete's onSuccess.                                                *)
DeleteReturns ==
    /\ AnswerTo("delete") /\ Head(down).ok
    /\ InvalidateFile(Head(down).to.path)
    /\ UNCHANGED <<disk, clock, ready, cache, view, buffer, saves, bounds>>

(* An error is shown or logged.                                            *)
CallFails ==
    /\ down # <<>> /\ Head(down).to.op \in {"write", "delete"}
    /\ ~Head(down).ok
    /\ down' = Tail(down)
    /\ UNCHANGED <<disk, clock, ready, up, fileQueries, view, buffer, saves,
                   bounds>>

-----------------------------------------------------------------------------
(* The connection (DaemonConnection): the hooks have a daemon or none.     *)
EditorDrop ==
    /\ ready /\ drops < MaxDrops
    /\ ready' = FALSE /\ drops' = drops + 1
    /\ up' = <<>> /\ down' = <<>>
    /\ UNCHANGED <<disk, clock, fileQueries, view, buffer, saves, asked>>

(* The query is enabled.                                                   *)
EditorReady ==
    /\ ~ready /\ ready' = TRUE
    /\ ObserveFiles(Active)
    /\ UNCHANGED <<disk, clock, down, cache, view, buffer, saves, bounds>>

EditorNext ==
    \/ \E f \in Files : SelectFile(f) \/ DeleteFile(f) \/ Outside(f)
    \/ EditorUnmounts \/ EditorMounts \/ Type \/ Save
    \/ ServeFile
    \/ ReadReturns \/ ReadFails \/ SaveReturns \/ DeleteReturns \/ CallFails
    \/ EditorDrop \/ EditorReady

EditorSpec == EditorInit /\ [][EditorNext]_editorVars

-----------------------------------------------------------------------------
(* Properties                                                              *)

(* Every variable holds a value of its type.                               *)
EditorTypeOK ==
    /\ DOMAIN disk = Files
    /\ \A f \in Files : disk[f].data \in Texts /\ disk[f].mtime \in 0..MaxClock
    /\ clock \in 0..MaxClock /\ ready \in BOOLEAN
    /\ \A i \in DOMAIN up : up[i].path \in Files /\ up[i].text \in Texts
    /\ \A i \in DOMAIN down : down[i].to.path \in Files
    /\ DOMAIN cache = Files /\ fetching \subseteq Files
    /\ failed \subseteq Files
    /\ mounted \in BOOLEAN /\ {selected, target} \subseteq Files \cup {NoFile}
    /\ text \in Texts /\ dirty \in BOOLEAN /\ written \in Texts
    /\ floor \in [Files -> 0..MaxClock]
    /\ asked \in 0..MaxAsks /\ drops \in 0..MaxDrops

(* "Clean when buffer matches the last fs.read/fs.write": once the file is *)
(* loaded, a buffer that is not marked as modified is the text last read   *)
(* for it, or the last one a save of this editor has written.              *)
CleanMatches ==
    mounted /\ ~dirty /\ selected # NoFile =>
        \/ cache[selected] = Absent
        \/ text \in {cache[selected].data, written}

(* While connected, the file shown is being fetched, in error, or loaded   *)
(* from a time after its last answered save: onSuccess makes the editor    *)
(* read back what it wrote, whatever was in flight.                        *)
ShownIsFresh ==
    mounted /\ ready /\ selected # NoFile =>
        \/ selected \in fetching \cup failed
        \/ /\ cache[selected] # Absent
           /\ cache[selected].mtime >= floor[selected]

(* Unsaved edits of the file shown are discarded only by the answer to a   *)
(* save or by a newer version of the file, never by a refetch (after a     *)
(* reconnect, say) that found the file unchanged.                          *)
EditsOutliveRefetch ==
    [][mounted /\ dirty /\ ~dirty' /\ mounted' /\ selected' = selected =>
         \/ AnswerTo("write")
         \/ cache'[selected].mtime > cache[selected].mtime
         \/ cache[selected] = Absent]_editorVars
=============================================================================
