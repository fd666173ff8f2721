------------------------------ MODULE PtySession ------------------------------
(***************************************************************************)
(* The PTY table of the sandbox daemon                                     *)
(* (sandbox-daemon/internal/pty/handler.go): every session is a child      *)
(* process behind a PTY master, served by an output goroutine and a wait   *)
(* goroutine, torn down by pty.close or by the end of the connection that  *)
(* opened it, with a killer goroutine that escalates after closeGrace.     *)
(*                                                                         *)
(* A connection is its read loop (ws.runConn), which runs one handler at a *)
(* time.  Its write pump is abstracted to what Publish answers: either way *)
(* while the pump is open, never TRUE once runConn has closed it (WritePump *)
(* models the pump, including the crash this module leaves out).           *)
(***************************************************************************)
EXTENDS Naturals, Sequences, FiniteSets, Functions

CONSTANTS
    Conns,           \* connections
    Sessions,        \* pty ids, each used for one session
    MaxPTYsPerConn,
    InputCapacity,   \* input the terminal buffers before a write blocks
    MaxChunks,       \* bound: chunks of output each child produces
    None             \* no connection, no session

ASSUME PtyAssumption ==
    /\ MaxPTYsPerConn \in Nat
    /\ InputCapacity \in Nat \ {0}
    /\ MaxChunks \in Nat
    /\ IsFiniteSet(Sessions)
    /\ None \notin Conns \cup Sessions

(* A published event; count is the dropped_count of pty.output_dropped.    *)
Events == [kind : {"output", "dropped", "exit"}, count : Nat]
Event(kind, count) == [kind |-> kind, count |-> count]

VARIABLES
    peer,        \* is the client of the connection still there
    reader,      \* control point of the connection's read loop
    target,      \* the session that read loop is working on
    registered,  \* ids in Handler.sessions
    owner,       \* session.connID
    proc,        \* the child: "none", "running", "exited", "reaped"
    signal,      \* strongest signal it has been sent: "none", "term", "kill"
    master,      \* is the PTY master open
    input,       \* input written and not yet read by the child
    avail,       \* output produced and not yet read by the daemon
    produced,    \* output the child has produced
    outputs,     \* control point of outputLoop
    pending,     \* droppedSinceFlush
    refused,     \* output events whose Publish returned false
    waiter,      \* control point of waitLoop
    closing,     \* session.closing
    killer,      \* control point of teardown's goroutine
    log          \* the events published, in order

conns == <<peer, reader, target>>
child == <<proc, signal, master, input, avail, produced>>
output == <<outputs, pending, refused>>
vars == <<conns, registered, owner, child, output, waiter, closing, killer,
          log>>

Init ==
    /\ peer = [c \in Conns |-> TRUE]
    /\ reader = [c \in Conns |-> "read"]
    /\ target = [c \in Conns |-> None]
    /\ registered = {}
    /\ owner = [s \in Sessions |-> None]
    /\ proc = [s \in Sessions |-> "none"]
    /\ signal = [s \in Sessions |-> "none"]
    /\ master = [s \in Sessions |-> FALSE]
    /\ input = [s \in Sessions |-> 0]
    /\ avail = [s \in Sessions |-> 0]
    /\ produced = [s \in Sessions |-> 0]
    /\ outputs = [s \in Sessions |-> "none"]
    /\ pending = [s \in Sessions |-> 0]
    /\ refused = [s \in Sessions |-> 0]
    /\ waiter = [s \in Sessions |-> "none"]
    /\ closing = [s \in Sessions |-> FALSE]
    /\ killer = [s \in Sessions |-> "none"]
    /\ log = [s \in Sessions |-> <<>>]

SessionsByConn(c) == {s \in registered : owner[s] = c}
CountByConn(c) == Cardinality(SessionsByConn(c))

Goto(c, point, s) ==
    /\ reader' = [reader EXCEPT ![c] = point]
    /\ target' = [target EXCEPT ![c] = s]
    /\ UNCHANGED peer

(* Publish's answer on session s: a full buffer may refuse, a closed pump  *)
(* always does.                                                            *)
PumpOpen(s) == reader[owner[s]] \notin {"cleanup", "gone"}
Published(s, event) ==
    PumpOpen(s) /\ log' = [log EXCEPT ![s] = Append(@, event)]
Unpublished == UNCHANGED log

-----------------------------------------------------------------------------
(* pty.open and pty.start_agent: the cap is checked, then the child is     *)
(* spawned, then the session registered and its goroutines started.  A     *)
(* request refused for its arguments or for the cap changes nothing.       *)
Admit(c) ==
    /\ reader[c] = "read"
    /\ CountByConn(c) < MaxPTYsPerConn
    /\ Goto(c, "spawn", None)
    /\ UNCHANGED <<registered, owner, child, output, waiter, closing, killer,
                   log>>

Spawn(c) ==
    /\ reader[c] = "spawn"
    /\ \E s \in Sessions :
        /\ proc[s] = "none"
        /\ Goto(c, "register", s)
        /\ owner' = [owner EXCEPT ![s] = c]
        /\ proc' = [proc EXCEPT ![s] = "running"]
        /\ master' = [master EXCEPT ![s] = TRUE]
    /\ UNCHANGED <<registered, signal, input, avail, produced, output, waiter,
                   closing, killer, log>>

SpawnFails(c) ==
    /\ reader[c] = "spawn"
    /\ Goto(c, "read", None)
    /\ UNCHANGED <<registered, owner, child, output, waiter, closing, killer,
                   log>>

Register(c) ==
    /\ reader[c] = "register"
    /\ registered' = registered \cup {target[c]}
    /\ outputs' = [outputs EXCEPT ![target[c]] = "read"]
    /\ waiter' = [waiter EXCEPT ![target[c]] = "wait"]
    /\ Goto(c, "read", None)
    /\ UNCHANGED <<owner, child, pending, refused, closing, killer, log>>

(* pty.input, from any connection that knows the id: the write to the      *)
(* master blocks the read loop until the terminal has room for it.         *)
Input(c, s) ==
    /\ reader[c] = "read" /\ s \in registered
    /\ Goto(c, "write", s)
    /\ UNCHANGED <<registered, owner, child, output, waiter, closing, killer,
                   log>>

(* Mutant of InputWritten: a terminal that never fills up.                 *)
InputWrittenAlways(c) ==
    /\ reader[c] = "write"
    /\ input' = [input EXCEPT ![target[c]] = @ + 1]
    /\ Goto(c, "read", None)
    /\ UNCHANGED <<registered, owner, proc, signal, master, avail, produced,
                   output, waiter, closing, killer, log>>

InputWritten(c) ==
    /\ reader[c] = "write"
    /\ \/ /\ master[target[c]] /\ input[target[c]] < InputCapacity
          /\ input' = [input EXCEPT ![target[c]] = @ + 1]
       \/ ~master[target[c]] /\ UNCHANGED input
    /\ Goto(c, "read", None)
    /\ UNCHANGED <<registered, owner, proc, signal, master, avail, produced,
                   output, waiter, closing, killer, log>>

-----------------------------------------------------------------------------
(* teardown: only the first caller signals and starts the killer.          *)
Teardown(S) ==
    LET first == {s \in S : ~closing[s]}
    IN  /\ closing' = [s \in Sessions |-> closing[s] \/ s \in first]
        /\ signal' = [s \in Sessions |->
                        IF s \in first /\ signal[s] = "none" THEN "term"
                                                             ELSE signal[s]]
        /\ killer' = [s \in Sessions |->
                        IF s \in first THEN "grace" ELSE killer[s]]

(* pty.close, from any connection that knows the id.                       *)
Close(c, s) ==
    /\ reader[c] = "read" /\ s \in registered
    /\ Teardown({s})
    /\ UNCHANGED <<conns, registered, owner, proc, master, input, avail,
                   produced, output, waiter, log>>

(* The client leaves at any time; the read loop finds out when it next     *)
(* reads, closes the pump and runs OnDisconnect.                           *)
PeerLeaves(c) ==
    /\ peer[c]
    /\ peer' = [peer EXCEPT ![c] = FALSE]
    /\ UNCHANGED <<reader, target, registered, owner, child, output, waiter,
                   closing, killer, log>>

ReadFails(c) ==
    /\ reader[c] = "read" /\ ~peer[c]
    /\ Goto(c, "cleanup", None)
    /\ UNCHANGED <<registered, owner, child, output, waiter, closing, killer,
                   log>>

(* Mutant of OnDisconnect: the sessions are forgotten.                     *)
OnDisconnectForgets(c) ==
    /\ reader[c] = "cleanup"
    /\ Goto(c, "gone", None)
    /\ UNCHANGED <<registered, owner, child, output, waiter, closing, killer,
                   log>>

OnDisconnect(c) ==
    /\ reader[c] = "cleanup"
    /\ Teardown(SessionsByConn(c))
    /\ Goto(c, "gone", None)
    /\ UNCHANGED <<registered, owner, proc, master, input, avail, produced,
                   output, waiter, log>>

(* The killer: give up when the session is done, or SIGKILL after the      *)
(* grace period and close the master.                                      *)
KillerStops(s) ==
    /\ killer[s] = "grace" /\ waiter[s] = "done"
    /\ killer' = [killer EXCEPT ![s] = "gone"]
    /\ UNCHANGED <<conns, registered, owner, child, output, waiter, closing,
                   log>>

(* Mutant of KillerFires: it asks politely a second time.                  *)
KillerTermsAgain(s) ==
    /\ killer[s] = "grace"
    /\ signal' = [signal EXCEPT ![s] = "term"]
    /\ killer' = [killer EXCEPT ![s] = "close"]
    /\ UNCHANGED <<conns, registered, owner, proc, master, input, avail,
                   produced, output, waiter, closing, log>>

KillerFires(s) ==
    /\ killer[s] = "grace"
    /\ signal' = [signal EXCEPT ![s] = "kill"]
    /\ killer' = [killer EXCEPT ![s] = "close"]
    /\ UNCHANGED <<conns, registered, owner, proc, master, input, avail,
                   produced, output, waiter, closing, log>>

KillerCloses(s) ==
    /\ killer[s] = "close"
    /\ master' = [master EXCEPT ![s] = FALSE]
    /\ killer' = [killer EXCEPT ![s] = "gone"]
    /\ UNCHANGED <<conns, registered, owner, proc, signal, input, avail,
                   produced, output, waiter, closing, log>>

-----------------------------------------------------------------------------
(* waitLoop: reap the child, close the master, leave the table, publish    *)
(* pty.exit.                                                               *)
Wait(s) ==
    /\ waiter[s] = "wait" /\ proc[s] = "exited"
    /\ proc' = [proc EXCEPT ![s] = "reaped"]
    /\ waiter' = [waiter EXCEPT ![s] = "close"]
    /\ UNCHANGED <<conns, registered, owner, signal, master, input, avail,
                   produced, output, closing, killer, log>>

(* Mutant of CloseMaster: pty.exit is published before the unregistration. *)
CloseMasterThenPublish(s) ==
    /\ waiter[s] = "close"
    /\ master' = [master EXCEPT ![s] = FALSE]
    /\ waiter' = [waiter EXCEPT ![s] = "publish"]
    /\ UNCHANGED <<conns, registered, owner, proc, signal, input, avail,
                   produced, output, closing, killer, log>>

CloseMaster(s) ==
    /\ waiter[s] = "close"
    /\ master' = [master EXCEPT ![s] = FALSE]
    /\ waiter' = [waiter EXCEPT ![s] = "unregister"]
    /\ UNCHANGED <<conns, registered, owner, proc, signal, input, avail,
                   produced, output, closing, killer, log>>

Unregister(s) ==
    /\ waiter[s] = "unregister"
    /\ registered' = registered \ {s}
    /\ waiter' = [waiter EXCEPT ![s] = "publish"]
    /\ UNCHANGED <<conns, owner, child, output, closing, killer, log>>

PublishExit(s) ==
    /\ waiter[s] = "publish"
    /\ Published(s, Event("exit", 0)) \/ Unpublished
    /\ waiter' = [waiter EXCEPT ![s] = "done"]
    /\ UNCHANGED <<conns, registered, owner, child, output, closing, killer>>

-----------------------------------------------------------------------------
(* outputLoop: one pty.output for each read; refused events are counted    *)
(* and announced before the next one.                                      *)
Read(s) ==
    /\ outputs[s] = "read" /\ master[s] /\ avail[s] > 0
    /\ avail' = [avail EXCEPT ![s] = @ - 1]
    /\ outputs' = [outputs EXCEPT ![s] =
                     IF pending[s] > 0 THEN "notify" ELSE "publish"]
    /\ UNCHANGED <<conns, registered, owner, proc, signal, master, input,
                   produced, pending, refused, waiter, closing, killer, log>>

ReadEnds(s) ==
    /\ outputs[s] = "read"
    /\ ~master[s] \/ (avail[s] = 0 /\ proc[s] \in {"exited", "reaped"})
    /\ outputs' = [outputs EXCEPT ![s] = "exit"]
    /\ UNCHANGED <<conns, registered, owner, child, pending, refused, waiter,
                   closing, killer, log>>

(* Mutant of Notify: the count is reset though the event was refused.      *)
NotifyResets(s) ==
    /\ outputs[s] = "notify"
    /\ Published(s, Event("dropped", pending[s])) \/ Unpublished
    /\ pending' = [pending EXCEPT ![s] = 0]
    /\ outputs' = [outputs EXCEPT ![s] = "publish"]
    /\ UNCHANGED <<conns, registered, owner, child, refused, waiter, closing,
                   killer>>

Notify(s) ==
    /\ outputs[s] = "notify"
    /\ \/ Published(s, Event("dropped", pending[s])) /\ pending' = [pending EXCEPT ![s] = 0]
       \/ Unpublished /\ UNCHANGED pending
    /\ outputs' = [outputs EXCEPT ![s] = "publish"]
    /\ UNCHANGED <<conns, registered, owner, child, refused, waiter, closing,
                   killer>>

PublishOutput(s) ==
    /\ outputs[s] = "publish"
    /\ \/ Published(s, Event("output", 0)) /\ UNCHANGED <<pending, refused>>
       \/ /\ Unpublished
          /\ pending' = [pending EXCEPT ![s] = @ + 1]
          /\ refused' = [refused EXCEPT ![s] = @ + 1]
    /\ outputs' = [outputs EXCEPT ![s] = "read"]
    /\ UNCHANGED <<conns, registered, owner, child, waiter, closing, killer>>

-----------------------------------------------------------------------------
(* The child: it reads its input or does not, writes output, and exits     *)
(* when it likes; SIGTERM it may ignore, as an interactive shell does.     *)
ChildReads(s) ==
    /\ proc[s] = "running" /\ input[s] > 0
    /\ input' = [input EXCEPT ![s] = @ - 1]
    /\ UNCHANGED <<conns, registered, owner, proc, signal, master, avail,
                   produced, output, waiter, closing, killer, log>>

ChildWrites(s) ==
    /\ proc[s] = "running" /\ master[s] /\ produced[s] < MaxChunks
    /\ avail' = [avail EXCEPT ![s] = @ + 1]
    /\ produced' = [produced EXCEPT ![s] = @ + 1]
    /\ UNCHANGED <<conns, registered, owner, proc, signal, master, input,
                   output, waiter, closing, killer, log>>

ChildExits(s) ==
    /\ proc[s] = "running"
    /\ proc' = [proc EXCEPT ![s] = "exited"]
    /\ UNCHANGED <<conns, registered, owner, signal, master, input, avail,
                   produced, output, waiter, closing, killer, log>>

-----------------------------------------------------------------------------
ReaderStep(c) == Spawn(c) \/ SpawnFails(c) \/ Register(c) \/ InputWritten(c)
                   \/ ReadFails(c) \/ OnDisconnect(c)
KillerStep(s) == KillerStops(s) \/ KillerFires(s) \/ KillerCloses(s)
WaiterStep(s) == Wait(s) \/ CloseMaster(s) \/ Unregister(s) \/ PublishExit(s)
OutputStep(s) == Read(s) \/ ReadEnds(s) \/ Notify(s) \/ PublishOutput(s)
ChildStep(s) == ChildReads(s) \/ ChildWrites(s) \/ ChildExits(s)

Next ==
    \/ \E c \in Conns :
        \/ Admit(c) \/ ReaderStep(c) \/ PeerLeaves(c)
        \/ \E s \in Sessions : Input(c, s) \/ Close(c, s)
    \/ \E s \in Sessions :
          KillerStep(s) \/ WaiterStep(s) \/ OutputStep(s) \/ ChildStep(s)

Spec == Init /\ [][Next]_vars

(* Goroutines are scheduled, closeGrace elapses, and a child that has been *)
(* sent SIGKILL dies.  A client that left has sent finitely many requests, *)
(* so a read loop that keeps reading comes to the end (SF).  Nothing makes *)
(* a child read its input, produce output or exit, nor a client send a     *)
(* request or leave.                                                       *)
Fairness ==
    /\ \A c \in Conns : WF_vars(ReaderStep(c)) /\ SF_vars(ReadFails(c))
    /\ \A s \in Sessions :
        /\ WF_vars(KillerStep(s))
        /\ WF_vars(WaiterStep(s))
        /\ WF_vars(OutputStep(s))
        /\ WF_vars(signal[s] = "kill" /\ ChildExits(s))

FairSpec == Spec /\ Fairness

-----------------------------------------------------------------------------
TypeOK ==
    /\ peer \in [Conns -> BOOLEAN]
    /\ reader \in [Conns -> {"read", "spawn", "register", "write", "cleanup",
                             "gone"}]
    /\ target \in [Conns -> Sessions \cup {None}]
    /\ registered \subseteq Sessions
    /\ owner \in [Sessions -> Conns \cup {None}]
    /\ proc \in [Sessions -> {"none", "running", "exited", "reaped"}]
    /\ signal \in [Sessions -> {"none", "term", "kill"}]
    /\ master \in [Sessions -> BOOLEAN]
    /\ input \in [Sessions -> 0..InputCapacity]
    /\ avail \in [Sessions -> 0..MaxChunks]
    /\ produced \in [Sessions -> 0..MaxChunks]
    /\ outputs \in [Sessions -> {"none", "read", "notify", "publish", "exit"}]
    /\ pending \in [Sessions -> Nat]
    /\ refused \in [Sessions -> Nat]
    /\ waiter \in [Sessions -> {"none", "wait", "close", "unregister",
                                "publish", "done"}]
    /\ closing \in [Sessions -> BOOLEAN]
    /\ killer \in [Sessions -> {"none", "grace", "close", "gone"}]
    /\ log \in [Sessions -> Seq(Events)]

Live(c) == {s \in Sessions : owner[s] = c /\ proc[s] \in {"running", "exited"}}

(* The cap is checked and the session registered in different critical     *)
(* sections, with a spawn in between: still no connection ever has more    *)
(* than MaxPTYsPerConn children, counting those not yet registered and     *)
(* those not yet reaped.                                                   *)
CapHolds == \A c \in Conns : Cardinality(Live(c)) <= MaxPTYsPerConn

(* A connection that is gone leaves no shell behind: each of its sessions  *)
(* has a killer on the way or has been announced as exited.                *)
NoOrphans ==
    \A s \in Sessions :
        owner[s] # None /\ reader[owner[s]] = "gone"
            => killer[s] # "none" \/ waiter[s] \in {"publish", "done"}

(* pty.exit is published at most once, after the session has left the      *)
(* table and its child has been reaped: a client that acts on it finds the *)
(* id unknown and its slot under the cap free.                             *)
ExitIsFinal ==
    \A s \in Sessions :
        LET exits == {i \in DOMAIN log[s] : log[s][i].kind = "exit"}
        IN  /\ Cardinality(exits) <= 1
            /\ exits # {} => s \notin registered /\ proc[s] = "reaped"

(* "Better one truthful late notification than a lie": the output events   *)
(* refused are exactly those announced by pty.output_dropped, plus those   *)
(* still to be announced.                                                  *)
Announced(s) == SumFunction([i \in DOMAIN log[s] |-> log[s][i].count])

DropsCounted ==
    \A s \in Sessions : Announced(s) + pending[s] = refused[s]

(* A session told to go goes for good, both its goroutines and its killer  *)
(* with it: after pty.close, even of a child that ignores SIGTERM, even    *)
(* when two connections close it at once; and once the read loop of its    *)
(* connection has noticed that its client left.                            *)
SessionsEnd ==
    \A s \in Sessions :
        closing[s] \/ (owner[s] # None /\ reader[owner[s]] = "cleanup")
            ~> /\ waiter[s] = "done"
               /\ outputs[s] = "exit"
               /\ killer[s] \in {"none", "gone"}
=============================================================================
