# Rommel, specified

TLA+ models of the parts of Rommel that run concurrently: the sandbox daemon (Go),
the workspace page with its connection to it (TypeScript) and the backend that creates
workspaces (Python). Every definition is read from the code; `PROJECT.json` ("map") gives, for
each one, the file and the lines it stands for.

## The system

A browser page opens one WebSocket to the daemon of its workspace, with a token that
the backend mints. The daemon serves requests (`fs.*`, `pty.*`, `funnel.*`, `git.*`)
and pushes events (`pty.output`, `pty.exit`, `fs.watch-event`).

| component | state | operations | hard because |
|---|---|---|---|
| write pump (`ws/pump.go`) | a 256-frame channel, a done channel, a goroutine | Send, Publish, loop, close | many senders, drop-oldest, close races with send |
| connection (`ws/server.go`) | a read loop, the handlers' cleanup hooks | one request at a time; pump.close, then OnDisconnect | a handler that blocks stops everything, cleanup included |
| PTYs (`pty/handler.go`) | a table of sessions, a child process and three goroutines for each | open, start_agent, input, resize, close, OnDisconnect | teardown from three sides, a grace timer, output that is dropped |
| `fs.watch` (`fs/handler.go`) | subscriptions, reference counts, one fsnotify watcher | watch, OnDisconnect, Stop, events | the tree changes during the walk; the kernel forgets removed directories |
| `fs.*` (`fs/handler.go`) | the file system | read, list, write, mkdir, move, delete | check, then act, while other connections act |
| funnel (`funnel/handler.go`, `FunnelBoard.tsx`, `lib/funnel.ts`) | files `rommel/<stage>/<name>`, the board each tab shows | list, read, promote | stale boards, two clients promoting one card |
| browser connection (`lib/daemon.ts`, `useDaemonConnection.ts`) | a socket, an inflight map, timers | connect, rpc, notify, close, reconnect, token refresh | timers and close events that outlive what they are about |
| backend (`services/`, `api/`, `repositories/`) | rows, machines at Fly | create, destroy, session | a request may die between Fly and the database |
| terminal tabs (`usePty.ts`, `TerminalTabs.tsx`) | tabs, the id of each tab's PTY, the status it shows | add, close, switch the view | a tab may go while its `pty.open` is in flight |
| editor (`monaco-impl.tsx`, `useFs.ts`) | an unsaved buffer, a query cache, the selected file | select, type, save | refetches, saves and other programs' writes cross |
| file tree (`FileTree.tsx`, `useFs.ts`, `lib/fs.ts`) | which directories are expanded, a cached list for each path | expand, collapse, New File, New Folder, rename, delete | a path outlives the directory it named; lists and changes cross |
| git, workspace info, auth, health, policy, schemas, image, CI | none, or none that is shared | | not modelled, see below |

Components meet in a few places. Handlers publish to the pump (PTY and watch
goroutines call `Publish` on the connection's pump); `runConn` closes the pump
*before* it runs the handlers' `OnDisconnect`; the browser's `rpc` waits for the
response frame that the pump sends; the token that the backend mints names the
workspace the daemon checks.

What makes each component correct: the pump delivers in order, loses only what it
says it loses, and never blocks for ever; a PTY session is never left behind,
ends when it is closed, and tells the truth about dropped output; a recursive
watch covers what is below it; an answer to an `fs.*` request says what
happened; a card is promoted once, and neither lost nor copied; the page has one socket, says truthfully that
it is ready, and lets no call wait for ever on a connection that is gone; every shell belongs to a tab; the editor and the tree show
what is on the disk, and lose no edit without a reason; rows and machines correspond. The hazards behind these,
line by line, are in `PROJECT.json` ("hazards").

## Modules

**FrameChannel** is the abstract promise of the write side: a bounded queue that
may lose a frame at any moment, delivers each at most once, and delivers the frames
of a source in the order it submitted them.

**WritePump** is `pump.go`, one step per channel operation: each `select` of
Send and Publish, the loop's receive and write, the drain after a write error, and the
two halves of `close()`. `out` is the channel's buffer, `hand` the frame the loop has
received, `closing` how far `closeOnce` has come, `pc` where each caller stands. (A Publish
that evicts from a channel already closed and drained calls `dropFn` for no frame, `pump.go:110-113`: that call leaves
no trace here, where `dropped` holds frames; in the daemon it makes a logged count one too high.) As in
Go, a blocked Send hands its frame over in the step that frees a slot, a select
takes any of its ready cases, and a send on a closed channel panics. A frame is
its source and a serial number. `dropped`, `refused`, `vanished` and `wire` record
what became of it. `Channel` is the refinement mapping onto FrameChannel: its queue is
`hand` followed by `out`.

**PtySession** is `pty/handler.go`: the read loop of each connection (open in its
three steps, input, close, cleanup), and the goroutines `waitLoop`, `outputLoop`
and teardown's killer, with a child that may ignore SIGTERM, stop reading its input or
exit at any time. The pump is reduced to what Publish answers: anything
while it is open, never `true` after. `pty.open` and `pty.start_agent` share
their actions; they differ in the program they spawn.

**FsWatch** is the `fs.watch` half of `fs/handler.go`. The tree, what inotify
watches and the queue of fsnotify, which drops what is reported to it when it is full, are separate variables, so that the walk of a new
directory (`WalkAdd`, `WalkRead`), other programs' mkdir and rmdir, and the handling of
events interleave as they do in the daemon; `wmu` is the predicate `Unlocked`. Publishing
an event changes nothing here: it is WritePump's Publish, and is taken not to block. `lost` and `stripped`, and the
`found` of a subscription, are history. The limit on the number of kernel watches is taken not to be reached.

**FsOps** is the rest of `fs/handler.go`: each handler is the sequence of its
system calls, and those of different connections interleave. The error codes are the
code's. WriteFile, MkdirAll, RemoveAll and ReadDir are single steps. A system call that succeeds need not change
anything (`Change`): RemoveAll of what is gone and a rename of a path onto itself do not, and `changed` and `raced`
say only what has changed.

**Funnel** is `funnel.list` and `funnel.promote` with the board that calls them: `seen` is
what a tab shows, so its menu offers what was legal when it was fetched.
`isValidTransition` (Go) and `validNextStages` (TypeScript) are translated
separately and compared. `carried`, the card that a rename has moved, is history: with it a promotion is
of a card and not of a name, which several cards may have.

**DaemonConnection** is the class in `lib/daemon.ts` driven by the page's hook, one
JavaScript task per step. `net` is each socket's ready state, apart from `socket`, the
one the connection holds, because `onclose` does not say which socket it
is about. Timers are counters, since none is ever cancelled. `status` is the connection's own and `pill` the
store's, which the hook writes as well: when the session request or `connect()` fails it is the hook that says so.

**Terminal** is the page's terminal tabs with the daemon's PTYs behind them. A step is a whole
JavaScript task with the React effects it leads to. Each run of `usePty`'s effect makes one
`pty.open`; the calls are numbered and a PTY has the number of its call. `up` and `down` are the two
directions of the connection. The daemon side is coarser than PtySession: open in two
steps (the goroutines start before the answer), close, cleanup and exit in one each, input in two if its write
blocks (`writing`: which connection's read loop is blocked on which PTY). A keystroke names the PTY whose id came last (`send`). A
connection the page has forgotten while it stays open (`strays`; a token refresh leaves such sockets, see the
deviations) goes on at the daemon: its read loop serves what was sent, its shells run, and no `OnDisconnect` comes. What is in flight on such
connections is the set `adrift`, served in any order.

**Editor** is the editor with the query cache between it and the daemon. `cache` and `fetching` are
TanStack Query's data and fetch state: one fetch at a time for a query; `invalidateQueries` restarts it
if the query has data and joins it otherwise. `target` is the file that Cmd+S saves, which is not always
the one selected. `written` and `floor` are history that the properties need. Deletions come from the tree.

**FileTree** is the tree: paths are sequences of names, `disk` says what is at each, `open` which
`Node`s are mounted and expanded, `cache` the list query of each path. A list outlives its Node in
the cache, and a Node goes when the list of its parent does not name it as a directory any more
(`NodeMounted`). The daemon serves a request in one step; FsOps has the handlers call by call. `unseen`
(directories changed without a word to their list) and `lost` (fetches that went down with a
connection) are history.

**Broker** is the backend's create, destroy and session requests, each in its own
transaction and interleaved at its awaits, any of which may die half-way (`Die`: an
error, a lost response, a restart).

**Wire** is the connection that Terminal, Editor and FileTree have to the daemon, `up` and `down`. **QueryClient** extends it with what the
last two share: TanStack Query's cache and fetch state, the bounds, and `Keep`, what is left of the frames in flight when fetches
are cancelled. What the three would call by one name has different ones (EditorInit and TreeInit, FetchFile and FetchList,
EditorUnmounts for ShowFunnel), so that one module can extend them all.

**MC...** modules add symmetry sets and small trees. **WritePumpProofs**, **PtySessionProofs**,
**FsWatchProofs**, **FsOpsProofs**, **FunnelProofs**, **DaemonConnectionProofs** and **BrokerProofs**
hold the theorems about those modules. **PageProofs** extends the three parts of the page that talk to
the daemon, Terminal, Editor and FileTree, and holds their theorems, which need the same lemmas about what travels on the wire. The three
specifications share their variables' names only: no theorem relates them.

Operators whose comment starts with "Mutant of" are plausible mistakes in the code;
no specification uses them. Each shows, put in the place of the definition it names, that a
property notices (`PROJECT.json`, "mutants").

## What is checked

Every passing run is exhaustive within its bounds.

| run | question | bounds | properties |
|---|---|---|---|
| Pump | is anything lost, reordered or blocked in the pump? | 2 event goroutines and the read loop, buffer of 2, 2 frames each; 380,814 states | TypeOK, InOrder, Accounted, WaitingSendIsSafe, ImplementsChannel, SendReturns |
| Pty | is a session ever left behind, is its exit final, does it end, is dropped output announced? | 2 connections, 1 session, cap 1, 2 chunks of output; 204,340 states | TypeOK, NoOrphans, ExitIsFinal, DropsCounted, SessionsEnd |
| Watch | what does a recursive watch cover, and is the mutex given back? | 2 connections, a chain of 2 directories below the root, 3 changes, 2 requests, a queue of 2 events; 844,259 states | TypeOK, NewDirsCovered, DisconnectCompletes |
| Files | what may a client conclude from an answer? | 2 connections, every tree over 2 directories and a file in each, 1 request each; 145,098 states | TypeOK, AnswersAreTrue, OnlyRacesDestroy |
| Connection | how many sockets, what do "ready" and "failed" mean, does the pill settle? | 1 call, 2 attempts, 2 drops, 2 refreshes, 6 sockets at a time; 66,935 states | TypeOK, NobodyWaitsOnClosed, OneSocket, ReadyUntilRefreshed, GivenUpRejects, Recovers |
| Cards | who wins a promotion, and what can it do to another card of the name? | a tab with 2 promotions, another client with 1, 1 name in up to 3 stages; 1,478,878 states | TypeOK, OneWinner, CardsKept |
| Workspaces | do rows and machines correspond? | 5 requests, 2 users, up to 2 deaths; 20,932 states | TypeOK, DriftIsOnePerDeath, MachinesUnshared |
| Editor | does the editor show what is there, and when are edits lost? | 2 files, 2 texts or writes, 2 saves or deletions, 1 break; 2,832,375 states | EditorTypeOK, CleanMatches, ShownIsFresh, EditsOutliveRefetch |
| FileTree | does the tree show what is there, and does "loading..." end? | a root of two names, a name below each, 2 changes, 1 retry of a list, 1 break; 856,856 states | TreeTypeOK, TreeCatchesUp, ListsArrive |
| Terminal | is a shell ever left without a tab? | 2 tabs of 3, 2 calls of `pty.open`, a keystroke, 3 connections; 465,797 states | TypeOK, NoStrays, ExitsShown, ClosedTabsEnd |

Why the bounds suffice. Pump: with a buffer of two a frame can be evicted while another
of the same source stays, and two publishers suffice for one to take the slot the other freed.
PTY: a session has one owner and at most one other connection that closes it, and sessions meet only
in the table and under the cap: about any number of them PtySessionProofs says the rest, CapHolds included. Watch: a directory, its parent and its child are all that
`addRecursiveLocked` can tell apart, three changes overflow a queue of two, and two requests suffice for a subscription taken from
under another. Files: a race needs two requests, and each handler makes at
most four system calls. Connection: the second attempt already finds the first one's timer
gone; two refreshes overlap; six sockets are more than any reachable state needs, so
that the bound blocks no step. Cards: two clients meet in every order, and the tab's second promotion may be of the same card out of a later
stage, or of the same stage with a board grown stale; two cards of one name suffice for a promotion onto another card, and one raced by a
promotion of that other card, and the third makes chains of them. Workspaces: three requests can meet at one workspace, two of them
dying, with another user's beside them. Editor: two files suffice to switch away from one and back;
a save needs one text, a write of another program between the save and its answer a second;
`MaxWire` only limits how many frames are in flight when a save is asked for, not how many may follow.
FileTree: the two names let a directory be renamed onto the path of one that was deleted or the reverse, with
a list of its own; a root and one level below it are a parent and a child; one retry stands for the query client's two.
Terminal: a tab that is closed, one that stays and one opened in its place; a connection that is refreshed,
the one that is forgotten, and the one after. With two calls the daemon's cap is never reached, but an `open` it refuses
is a step of the model all the same: the cap and a failed spawn are one answer to the page.

Symmetry is used for safety properties only.

Some properties are qualified, and the qualification says what the code does not do.
OnlyRacesDestroy excepts requests during which another connection
changed the tree. AnswersAreTrue lets a delete be granted that removed nothing if another connection
changed the tree meanwhile, and a move onto itself. ReadyUntilRefreshed
ends with the first token refresh; GivenUpRejects is about calls no socket
can answer, and about the status `failed` only (DeadCallsEnd is the claim about the others, and is violated). OneSocket allows one socket for each token refresh: that is how
many a refresh leaks. CleanMatches allows what a save of another
file left in the buffer; TreeCatchesUp excepts New File, which refreshes nothing, and changes whose answer
was lost; ListsArrive excepts fetches that went down with a connection; ClosedTabsEnd excepts behaviours in which a read loop
stays blocked in a write for ever, or a forgotten socket stays open for ever: no `pty.close` and no `OnDisconnect`
comes through; ExitsShown excepts a `pty.exit` that overtakes the answer to `pty.open`. NewDirsCovered
excepts subscriptions whose path did not exist when they were made, and directories at or below one whose reference
count is stale, that a leaving connection stopped watching, or whose creation a full queue
dropped. CardsKept excepts the card that another of its name replaces. What each exception leaves out is
among the deviations below. DriftIsOnePerDeath allows one orphan
machine or ghost row for each request that died.

### Fairness

Weak fairness of a goroutine's next step stands for the Go scheduler; it is not
assumed of a client, a child process or a caller of `rpc`. The pump's loop is fair because
`writeDeadline` ends every write. Cleanup's `OnDisconnect` in FsWatch is
strongly fair: a `sync.Mutex` is handed to a goroutine that has waited a millisecond. A
connection's read loop in PtySession is strongly fair in noticing that its client is
gone, since a client that left has sent finitely many requests; it is *not* assumed to return
from a write to a terminal. In DaemonConnection timers fire, `refresh()` settles, and
handshakes end; the daemon need never answer. In Terminal a read loop *that is not blocked in a write*, its cleanup and the
page's event loop go on, and a child that is torn down ends, which is what PtySession's SessionsEnd
shows; nothing makes a child read its input, or a forgotten socket break. The properties of Editor and FileTree are safety.

### Where the code does something else

Two runs expect a violation, each of one sentence of a comment; "findings" in `PROJECT.json` quotes them.

* PumpPublishNeverPanics: Publish checks `done`, then sends; the pump closed in between
  makes the send panic on a goroutine nobody recovers, and the daemon exits.
* ConnectionDeadCallsEnd: a call in flight when its socket dies is not rejected if the reconnect succeeds
  (`daemon.ts:277`, against 116-118).

Further deviations. TLC reproduced most of them on these modules or earlier forms of them; they are not kept as runs:

* The machine is launched with a wid of its own, the token carries the row's id, and the daemon compares them
  (`workspace_lifecycle.py:44` says that the first is "rewritten with the row id below"; `sessions.py:56-57` that
  the claim is what "the daemon was launched with").
* A recursive watch on a path that does not exist yet is acknowledged and never watches
  anything (`fs/handler.go:626`); a directory removed and made again stays unwatched, since its count is not zero (620);
  a directory whose creation overflows fsnotify's queue is never walked (671). `watch.json:5` promises to "re-add new
  subdirectories as they appear".
* Of two deletions of one directory both may be told that they removed it
  (`fs/handler.go:411`: RemoveAll does not fail on a path that is gone), where `delete.json:5` promises `fs.not_found`
  and line 379 says "non-idempotent by design".
* Of two plain mkdirs of one directory one may be refused with `fs.exists` (`fs/handler.go:291`, against 258-259).
* After a token refresh the old socket's close event makes the connection forget the new
  one (`daemon.ts:268`), which then opens: the status is "ready", and every call is refused (214). The forgotten socket
  stays open, and the daemon's side of it too (Terminal's `strays`). `useFs.ts:15-18` takes "ready" to mean that
  calls can be made.
* Promoting a card onto a stage that holds one of the same name destroys the other
  (`funnel/handler.go:193`), although `move.json:5` calls `fs.move`, which refuses that, the primitive behind promotions.
* A `pty.input` whose write blocks keeps the read loop from ever noticing that its client left, so
  `OnDisconnect` does not run (`pty/handler.go:250`, against lines 7-9).
* Cmd+S saves the file that was selected when the editor mounted, or nothing, not the one shown
  (`monaco-impl.tsx:91`: the command keeps the first render's `save`; line 11 says "the current buffer").
  Pressed while a file is loading it writes the text still shown.
* What is typed while a save is in flight is discarded when the save returns, and a save that returns after
  another file was selected puts the saved text in that file's buffer (`monaco-impl.tsx:101`).
* New File truncates a file of that name, and the tree does not show the new file
  (`FileTree.tsx:88` bypasses the mutation that would refresh it, although lines 35-37 only say that it
  grabs the daemon). The context menu of the root offers Rename and Delete, of "." (`FileTree.tsx:140-146`);
  a recursive delete of it removes the workspace's directory.
* Cleanup does not always tear the socket down (`useDaemonConnection.ts:10` says it does): a refresh that
  returns after `close()` opens a socket that nobody closes and that reports "ready" to the store
  (`daemon.ts:345-356` does not look at `closed` after its await). OneSocket bounds how many.
* The PTY is not opened with the terminal's dimensions (`xterm-impl.tsx:27-28` and 63): `usePty` opens it with
  the 80x24 of the first render, and a resize before the answer is lost. A tab whose shell exited stays mute
  after a reconnect, though its strip says "ready" (line 77 disables the input for good).
* A query whose fetch was in flight when the connection broke stays "loading" for ever: its call is never
  settled, and the next observer joins it.
* A shell that exits before the answer to `pty.open` leaves its tab at "ready" (`usePty.ts:104`; line 29
  says the callback fires "exactly once when the shell exits").
* After a reconnect keystrokes go to the old PTY's id until the new `pty.open` is answered
  (`usePty.ts:142`; `xterm-impl.tsx:86-88` says none are sent before the id is known). A token
  refresh closes every terminal. A tab opened right after another was closed may be refused at the cap, since a
  PTY counts until its child has been reaped.
* Publish may evict a response that Send had accepted (`pump.go:110`; lines 18-19 call
  responses "correctness-critical"), and an event for which Publish returned true
  (`server.go:24` promises false).
* The frame whose write fails is not passed to `dropFn` (`pump.go:64`, against 67-68).
* `pty.exit` may be published before pending output (`pty/handler.go:358`; `exit-event.json:5`
  says it is flushed), and `OnDisconnect` does not wait for the grace period (lines 292-295).
* A watch that is not recursive on a path that does not exist yet leaves a count without a watch
  (`fs/handler.go:485`), and when its connection leaves it takes the watch away from
  another one (line 518). Subdirectories of a recursive watch are never released (line 517).
* A watch that is not recursive reports nothing about the children of its directory (line 739;
  `watch.json:19` says it does).
* An event may be published between `pump.close` and `OnDisconnect` (`server.go:151`), which
  `connDropped` is there to prevent.
* A move may replace a file created after its check (`fs/handler.go:355`), a plain
  delete may remove children created after its check (line 411).
* A promotion may be answered with an error though it moved the card (`funnel/handler.go:199`).
* "failed" is neither final nor the end of the socket once a refresh has failed while the socket was open
  (`daemon.ts:358`): calls go on being served under a pill that says "failed".
* A row whose machine was destroyed by a request that died cannot be deleted any more:
  Fly answers 404 and the request fails (`workspace_lifecycle.py:59`).

## What is proved

TLAPS checks every theorem below for every value of the constants that the module's assumption
admits. "What TLC checks" is the same formula on a small instance, where it was tried first.

**WritePump**, from PumpAssumption alone (the reader is not a publisher, the buffer holds at least one
frame):

* `TypeCorrect == Spec => []TypeOK`. The inductive invariant TypeInv is TypeOK with
  what it needs to be inductive: a caller that holds a frame has submitted one, and
  only a caller in the right place waits.
* `FramesInOrder == Spec => []InOrder`. Order along `wire \o hand \o out` alone
  is not inductive: a frame in a caller's hands is enqueued later, and must then be newer
  than every frame of its source on the path. OrderInv adds that bound (each source's frames on the
  path are below the serial number it holds, or at most the last it sent) to TypeInv and the
  three sequences' own order. One lemma per group of actions shows that the step keeps it;
  the lemmas on sequences (`OrderedAppend`, `OrderedTail`, `OrderedConcat`) say what appending
  and taking the tail do to an ordered sequence.
* `PumpImplementsChannel == Spec => ImplementsChannel`: the refinement of FrameChannel
  under `queue <- hand \o out`, `delivered <- wire`. A frame that enters the buffer is an `Accept`, which OrderInv
  makes fresh; a written one is a `Deliver`; an evicted, drained or badly written one is a `Lose`, or, when a
  blocked Send takes the freed slot in the same step, a `Displace`; the goroutine's receive is a stutter, or the `Accept`
  of the Send it unblocks. The lemmas `RemoveFacts` and `FirstFacts` say where in `hand \o out` the lost frame is.
* `WaitingSendEnqueued == Spec => WaitingSendIsSafe`, from TypeInv: the only steps that end the wait of a Send are
  the receives, which enqueue its frame, and the close of `done`.
* `FramesAccounted == Spec => []Accounted`. A frame submitted is in one of four places, and until a crash in one only: between the buffer and the
  socket, in its caller's hands, among the dropped, among the vanished (AccountInv). That the vanished are at most three
  becomes inductive as "at most one for each cause that has occurred" (`Causes`): the failed write, the
  reader's own close, the crash; each can occur once.

**PtySession**, for any connections, a finite set of sessions, any cap and any amount of output, from
PtyAssumption: `TypeCorrect`, `ShellsAreNotOrphaned` (NoOrphans), `ExitsAreFinal` (ExitIsFinal), `DropsAreCounted` (DropsCounted) and
`CapIsKept` (CapHolds, which no run checks). The inductive invariant has four parts. `Tables` follows a session from
the read loop that spawned it to the table and its goroutines: whoever has not been reaped is in the table or about to be
registered, which is what NoOrphans needs of `Register`. `Endings` says that the wait
goroutine publishes the exit once and last, and that a session that is being closed has a killer. `Capped`
counts, with the table, the session that a read loop has been admitted to spawn and has not
registered yet: the cap is checked in one hold of the mutex and the table grows in another, and it is
kept only because a connection's own read loop is the one place that adds to its sessions.
DropsCounted is inductive given the types, but it sums over the log, and the sum is recursive: that one more
event adds its count (`SumNext`) is an induction on the size of a set. The library's induction takes a
predicate, which these provers cannot instantiate; `Induction` here is about a subset of Nat
instead and follows from the library's first-order fact that a well-founded relation has minimal elements.

**FsWatch**, for a finite set of connections and any set of directories closed under prefixes, that is with the directory above
each (WatchAssumption): `TypeCorrect` and `NewDirectoriesCovered` (NewDirsCovered). NewDirsCovered speaks of the
moments when nothing is in flight. `Covered` says of every moment and every directory below a recursive subscription that
it is watched or excused. It is excused by a directory at or above it whose reference count is stale, which was stripped when
a connection left, whose creation a full queue dropped (`lost`), which the walk has still to add or to read, or whose creation is reported in the queue
or being handled. The proof follows each step and says which excuse takes over: an
`mkdir` in a directory that has been read brings its own report, and one in a directory not yet read is found by the walk.

**FsOps**, for any connections, any number of requests and any set of paths closed under prefixes (FsAssumption): `TypeCorrect`,
`AnswersTrue` (AnswersAreTrue) and `DestructionNeedsARace` (OnlyRacesDestroy). That the workspace stays a tree is
a lemma for each change: one path changed, a chain of directories made, a directory renamed with what is below it
(`Rebase` is a bijection between what is below the two), a subtree removed. `changed` says that the tree is another one
than before, so AnswersTrue needs to know of each system call whether it can succeed without effect. `Truthful` is
AnswersAreTrue as an invariant of the answers given; `UnderWay` says that a request under way has made its change
before its final stat and none before, and `Fresh` that a file written is a new version. RaceInv has what the
checks of a request that nobody raced still guarantee (`Cleared`): a destination that is not there, a directory
that is empty, and something left to remove, so that a delete that removed nothing was raced.

**Funnel**, for any tabs, agents, names, number of promotions and of cards of one name: `TypeCorrect`,
`CardsAreKept` (CardsKept) and `PromotionsHaveOneWinner` (OneWinner). `Distinct` says that a card is in one place; it is kept
because a rename takes a card from one place to another (`Moved`), and overwrites at most what was there, which is all
that CardsAreKept lets it destroy. `Winners` says that a card is beyond every
stage from which its promotion was granted, or is about to be: transitions only go forward
(`TransitionsGoForward`), so that nobody can be granted the same one again, and another card of its name that comes to
that stage is not this one.

**DaemonConnection**, for any calls, any number of attempts, sockets, drops and refreshes, from
ConnectionAssumption: `TypeCorrect`, `ClosedMeansNobodyWaits` (NobodyWaitsOnClosed), `ReadyIsTrue`
(ReadyUntilRefreshed), `GivingUpRejects` (GivenUpRejects) and `SocketsAreBudgeted` (OneSocket). OneSocket is far from inductive, because a reconnect timer, an awaited
refresh and a socket whose close event is outstanding each become a socket later. `Budgeted` counts them together:
unfinished sockets, timers and refreshes are at most one more than the refreshes ever started; and the spare one
is used up by the socket the connection holds, so that a connection without a socket, and a closed one, has none to spare.
ReadyIsTrue rests on `Plain`: while nothing was refreshed, no socket but the one held is alive, so a close event is
about that one.
The counting lemmas (`CountOpen` and its neighbours) say how opening and closing a socket change the two cardinalities.

**Terminal**, for any MAX_TABS, cap on PTYs, and number of tabs, calls and connections (TerminalAssumption): `TypeCorrect`,
`NoShellStrays` (NoStrays) and `ExitsAreShown` (ExitsShown). TabInv follows every call of `pty.open` from the page to the daemon
and back: a live shell of the current connection is shown by its tab, or the daemon is about to answer, or its answer or
a close of it is under way (`Followed`); an exit is shown, under way, or has
overtaken the answer (`Announced`); what is still to open on a forgotten connection is no tab's any more (`Abandoned`); a tab has at most one run of its effect (`OneRun`), made for the current
connection (`Presented`), what was not called has no shell (`Uncalled`), and numbers not yet given are unused (`Numbers`). The lemmas on
sequences say what is in flight after an append, a tail and a concatenation; `SetToSeqFacts` that the
requests that effects make in one task are all sent, in whatever order.

**Broker**, for any requests of any users, from BrokerAssumption: `TypeCorrect`, `DriftIsBounded`
(DriftIsOnePerDeath) and `MachinesAreUnshared` (MachinesUnshared). `Drawn` and `Distinct` say that identifiers in use
have been drawn and are not shared, `Inserting` that nobody else knows of the machine of a request about to insert its row,
`Deleting` that a request that deletes knows exactly the row of its machine, and deletes it after the machine. With these,
a step other than a death makes no orphan and no ghost (`NoNewDrift`), and a death at most one (`DeathDrift`).

**Editor**, for any files, number of writes, requests and breaks (EditorAssumption, BoundsAssumption):
`EditorTypeCorrect`, `CleanBuffer` (CleanMatches), `SavesAreReadBack` (ShownIsFresh) and `EditsOutlive`
(EditsOutliveRefetch). All three are about versions of a file, and none can be shown without knowing which version an
answer in flight carries. `OrderInv` says it, by modification times: what is cached is no newer than the disk
(`Dated`); an answer to a read holds data, no older than what is cached or than the last answered save, and no newer
than the disk (`ReadsDated`); the answer to a save was written no later than the version on the disk (`WritesDated`);
and the answers on their way are in the order in which they were served, reads among themselves and reads after saves
(`InOrder`). `floor` rises when the answer to a save arrives: that the reads queued behind it are from after that save
is `InOrder`, and is `ReadsDated` once the step is taken. With `ReadsDated`, no answer brings back an older version
over unsaved edits (EditsOutlive) or data from before a save (SavesAreReadBack). `KeepFacts` says what cancelling a
fetch leaves in flight, and in which order.

**FileTree**, for any set of paths closed under prefixes, with room below the root, and any names, retries, changes
and breaks (FileTreeAssumption, BoundsAssumption): `TreeTypeCorrect`, `TreeIsCurrent` (TreeCatchesUp) and
`FetchesArrive` (ListsArrive). The types include that expanded Nodes are mounted (`Nested`): a Node goes with all
below it when one above it does. ListsArrive becomes inductive as "exactly one": a fetch in progress that no break
took has one request or one answer on the wire, and any other fetch has none (`WireInv`); with "at least one", the
answer to a fetch could leave another behind, which settles the next fetch before its time. The lemmas on `One` and
`Zero` say how sending, answering and cancelling change the count. TreeCatchesUp holds because the answers come in the
order in which the daemon served them: a list in flight is what the directory holds unless the answer to a change of
it comes later (`Listed`); the cached list is so too, unless it is being fetched, in error, marked as invalid, changed
unseen, or that answer is yet to come (`Known`); and what is invalid, or not there, under an expanded Node is being
fetched, has failed, or was changed unseen (`Asked`). The lists that a change touches are all among those its mutation
invalidates.

Not proved are liveness under fairness (SendReturns, SessionsEnd, DisconnectCompletes, Recovers,
ClosedTabsEnd) and ENABLED, which are out of the prover's reach and left to TLC. Every invariant and every action property
that a passing run checks is stated by a theorem.

## Not modelled

* `git`: the package does not compile at this commit (`ws.ErrCodeGitFailed` is not defined,
  `exec.ExitError` has no `Stdout`).
* Token signatures and expiry, scopes, the upgrade, configuration, health, policy, sign-in,
  workspace info: checks without state. Page shell: presentation.
* The daemon's shutdown: `http.Server.Shutdown` knows nothing of the hijacked connections, and the process then
  exits, which ends every goroutine at once; FsWatch has the one step that matters before that, `Stop`.
* `useFsWatch`: no component uses it.
* Output, sizes and the bytes typed in Terminal (`pty.input` is there as a request that may block), `pty.resize`, `funnel.read`,
  encodings, metadata and wording: no property depends on them.
* pids, process groups, torn reads of a file being written, symbolic links: below the
  level of these models; listed as hazards without a property.
* The schemas, their code generation, the workspace image and CI.

## What could follow

Terminal shown to use PtySession as specified, through an abstract PTY (opened, running, ended) that both
implement; FileTree and Editor shown to need of the daemon only what FsOps promises.
