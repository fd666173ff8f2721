------------------------------ MODULE Terminal ------------------------------
(***************************************************************************)
(* The terminal tabs of the workspace page (components/terminal and        *)
(* hooks/usePty.ts) with the daemon's PTYs behind them.                    *)
(*                                                                         *)
(* Each run of the effect in usePty makes one pty.open; the model numbers  *)
(* them, and a PTY has the number of the call that opened it.  React runs  *)
(* the effects in the task that changes the store, so a step is a whole    *)
(* task.  The daemon serves a connection's requests in order; the steps    *)
(* of its handlers are those of PtySession, which shows that a PTY that is *)
(* closed ends.  Events are taken to fit the pump's buffer, and xterm to   *)
(* be loaded when a tab mounts.                                            *)
(*                                                                         *)
(* Two things keep a PTY from being closed, and both are here.  A write of *)
(* pty.input to a child that does not read blocks the read loop of its     *)
(* connection.  And after a token refresh the page may forget a socket     *)
(* that stays open (see DaemonConnection's ReadyUntilRefreshed): for the   *)
(* daemon that connection goes on.  A socket that is forgotten before it   *)
(* opens carries no PTY and is left out.                                   *)
(***************************************************************************)
EXTENDS Wire

CONSTANTS
    MAX_TABS,       \* tabs open at the same time
    MaxPTYsPerConn, \* the daemon's cap for each connection
    MaxTabs,        \* bound: tabs ever opened
    MaxOpens,       \* bound: pty.open calls
    MaxConns,       \* bound: connections
    MaxInputs       \* bound: pty.input requests

ASSUME TerminalAssumption ==
    /\ MAX_TABS \in Nat \ {0} /\ MaxPTYsPerConn \in Nat
    /\ MaxTabs \in Nat \ {0} /\ MaxOpens \in Nat /\ MaxConns \in Nat
    /\ MaxInputs \in Nat

VARIABLES
    link,    \* "ready", "refreshing" (the socket is still open) or "down"
    conn,    \* the number of the current or last connection
    tabs,    \* the tabs, numbered as they mount; none in the funnel view
    nextKey, \* the number of the next tab
    status,  \* what each tab's status strip shows
    owner,   \* the tab that made each call, 0 before
    hook,    \* where the run of the effect that made the call stands
    shell,   \* each PTY's child
    home,    \* the connection each PTY belongs to
    serving, \* the pty.open that has registered its PTY, not yet answered
    missed,  \* PTYs whose pty.exit came before the answer to pty.open
    typed,   \* how many pty.input were sent
    writing, \* which connection's read loop is blocked on which PTY
    late,    \* the close event of a socket that was replaced is to come
    strays,  \* connections whose open socket the page has forgotten
    adrift   \* what is still on its way on those, in whatever order

page == <<tabs, nextKey, status, owner, hook>>
daemon == <<shell, home, serving>>
loose == <<late, strays, adrift>>
others == <<typed, writing, loose>>
aside == <<missed, others>>
vars == <<link, conn, page, up, down, daemon, aside>>

Keys == 1..MaxTabs
Opens == 1..MaxOpens
NoTab == 0
NoOpen == 0

Init ==
    /\ link = "down" /\ conn = 0
    /\ tabs = {1} /\ nextKey = 2 /\ status = [k \in Keys |-> "opening"]
    /\ owner = [o \in Opens |-> NoTab] /\ hook = [o \in Opens |-> "none"]
    /\ up = <<>> /\ down = <<>>
    /\ shell = [o \in Opens |-> "none"] /\ home = [o \in Opens |-> 0]
    /\ serving = NoOpen /\ missed = {} /\ typed = 0 /\ writing = {}
    /\ late = FALSE /\ strays = {} /\ adrift = {}

-----------------------------------------------------------------------------
(* usePty                                                                  *)

Fresh == {o \in Opens : hook[o] = "none"}
Mounted(ks) == {o \in Opens : owner[o] \in ks /\ hook[o] \in {"opening", "live"}}
Request(op, o) == [op |-> op, pty |-> o]

(* The effect with a daemon, in each of the tabs `ks`: pty.open is sent.   *)
RunEffects(ks) ==
    \E os \in SUBSET Fresh :
        /\ Cardinality(os) = Cardinality(ks)
        /\ \A o \in os, p \in Fresh \ os : o < p
        /\ LET calls == SetToSeq(os) keys == SetToSeq(ks)
               key(o) == keys[CHOOSE i \in DOMAIN calls : calls[i] = o]
           IN  /\ owner' = [o \in Opens |-> IF o \in os THEN key(o) ELSE owner[o]]
               /\ hook' = [o \in Opens |-> IF o \in os THEN "opening" ELSE hook[o]]
               /\ up' = up \o [i \in DOMAIN calls |-> Request("open", calls[i])]

(* Mutant of CleanUp: the PTY is left to the daemon's cleanup.             *)
CleanUpQuietly(ks) ==
    /\ hook' = [o \in Opens |->
                  IF o \notin Mounted(ks) THEN hook[o]
                  ELSE IF hook[o] = "live" THEN "gone" ELSE "abandoned"]
    /\ up' = up

(* The effect's cleanup in each of the tabs `ks`, while the socket is open:*)
(* no longer subscribed; pty.close is sent if the id is known.             *)
CleanUp(ks) ==
    /\ hook' = [o \in Opens |->
                  IF o \notin Mounted(ks) THEN hook[o]
                  ELSE IF hook[o] = "live" THEN "gone" ELSE "abandoned"]
    /\ up' = up \o SetToSeq({Request("close", o) :
                               o \in {p \in Mounted(ks) : hook[p] = "live"}})

(* send: a keystroke in a tab, for the PTY whose id came last.  After a    *)
(* reconnect that is the old PTY until the new pty.open is answered.  That *)
(* a tab stays mute once a shell has exited in it is left out.             *)
HasId(o) == hook[o] \in {"live", "gone"}

send(o) ==
    /\ typed < MaxInputs
    /\ link = "ready" /\ owner[o] \in tabs /\ status[owner[o]] = "ready"
    /\ HasId(o) /\ \A p \in Opens : HasId(p) /\ owner[p] = owner[o] => p <= o
    /\ typed' = typed + 1
    /\ up' = Append(up, Request("input", o))
    /\ UNCHANGED <<link, conn, page, down, daemon, missed, writing, loose>>

-----------------------------------------------------------------------------
(* TerminalTabs                                                            *)
(* Mutant of AddTab: nothing limits the tabs.                              *)
AddTabAnyway ==
    /\ tabs # {} /\ nextKey <= MaxTabs
    /\ tabs' = tabs \cup {nextKey} /\ nextKey' = nextKey + 1
    /\ IF link = "ready" THEN RunEffects({nextKey})
                         ELSE UNCHANGED <<owner, hook, up>>
    /\ UNCHANGED <<link, conn, status, down, daemon, aside>>

(* addTab.                                                                 *)
AddTab ==
    /\ tabs # {} /\ Cardinality(tabs) < MAX_TABS /\ nextKey <= MaxTabs
    /\ tabs' = tabs \cup {nextKey} /\ nextKey' = nextKey + 1
    /\ IF link = "ready" THEN RunEffects({nextKey})
                         ELSE UNCHANGED <<owner, hook, up>>
    /\ UNCHANGED <<link, conn, status, down, daemon, aside>>

(* closeTab: the tab's component unmounts.                                 *)
CloseTab(k) ==
    /\ k \in tabs /\ Cardinality(tabs) > 1
    /\ tabs' = tabs \ {k}
    /\ CleanUp({k})
    /\ UNCHANGED <<link, conn, nextKey, status, owner, down, daemon, aside>>

(* The funnel view replaces the tabs, all of which unmount; when the IDE   *)
(* view is back there is one tab again, a new one.                         *)
ShowFunnel ==
    /\ tabs # {} /\ tabs' = {}
    /\ CleanUp(tabs)
    /\ UNCHANGED <<link, conn, nextKey, status, owner, down, daemon, aside>>

ShowIde ==
    /\ tabs = {} /\ nextKey <= MaxTabs
    /\ tabs' = {nextKey} /\ nextKey' = nextKey + 1
    /\ IF link = "ready" THEN RunEffects({nextKey})
                         ELSE UNCHANGED <<owner, hook, up>>
    /\ UNCHANGED <<link, conn, status, down, daemon, aside>>

-----------------------------------------------------------------------------
(* The connection (DaemonConnection) as the store shows it.                *)
BecomeReady ==
    /\ link = "down" /\ conn < MaxConns
    /\ link' = "ready" /\ conn' = conn + 1
    /\ RunEffects(tabs)
    /\ UNCHANGED <<tabs, nextKey, status, down, daemon, aside>>

(* refreshAndReopen: the status leaves "ready" while the socket is open.   *)
Refresh ==
    /\ link = "ready" /\ link' = "refreshing"
    /\ CleanUp(tabs)
    /\ UNCHANGED <<conn, tabs, nextKey, status, owner, down, daemon, aside>>

(* The answer to a pty.open is to come.                                    *)
Answering(o) ==
    serving = o \/ \E i \in DOMAIN down : down[i] = [ev |-> "opened", pty |-> o]

(* Without a socket the calls of the cleanup are rejected.                 *)
LoseHooks ==
    hook' = [o \in Opens |-> CASE hook[o] = "live" -> "gone"
                                [] hook[o] = "opening" -> "abandoned"
                                [] OTHER -> hook[o]]

(* The socket is gone, and what was on it.  If it is a refresh that closed *)
(* it, its close event may come as late as the next socket is in use.      *)
Drop ==
    /\ link # "down" /\ link' = "down"
    /\ LoseHooks
    /\ up' = <<>> /\ down' = <<>> /\ serving' = NoOpen
    /\ late' \in {late, late \/ link = "refreshing"}
    /\ UNCHANGED <<conn, tabs, nextKey, status, owner, shell, home, missed,
                   typed, writing, strays, adrift>>

(* A close event of a socket the page does not hold: the connection takes  *)
(* it to be about the one it holds, and forgets that open.  `gone` are the *)
(* forgotten sockets that broke.                                           *)
Astray(op, o) == [op |-> op, pty |-> o, conn |-> conn]
InFlight ==
    {Astray(up[i].op, up[i].pty) : i \in DOMAIN up}
      \cup {Astray("opened", o) : o \in {p \in Opens : Answering(p)}}

Forget(gone) ==
    /\ link' = "down"
    /\ LoseHooks
    /\ up' = <<>> /\ down' = <<>> /\ serving' = NoOpen
    /\ strays' = (strays \ gone) \cup (IF link = "down" THEN {} ELSE {conn})
    /\ adrift' = {r \in adrift \cup InFlight : r.conn \in strays'}
    /\ UNCHANGED <<conn, tabs, nextKey, status, owner, shell, home, missed,
                   typed, writing>>

StaleClose ==
    \/ late /\ late' = FALSE /\ Forget({})
    \/ \E c \in strays : Forget({c}) /\ UNCHANGED late

-----------------------------------------------------------------------------
(* The daemon                                                              *)
Push(ev, o) == down' = Append(down, [ev |-> ev, pty |-> o])
Counted(c) == Cardinality({o \in Opens : home[o] = c
                                        /\ shell[o] \in {"running", "dying"}})

(* The read loop of connection c is blocked in a write to a PTY; what came *)
(* on a connection that is over is read no more.                           *)
Blocked(c) == \E o \in Opens : <<c, o>> \in writing
Over(c) == c \notin strays /\ (c # conn \/ link = "down")
Serving(op) ==
    /\ serving = NoOpen /\ ~Blocked(conn)
    /\ up # <<>> /\ Head(up).op = op /\ up' = Tail(up)

(* Open registers the PTY, whose goroutines start before it answers.       *)
ServeOpen ==
    /\ Serving("open")
    /\ LET o == Head(up).pty
       IN  \/ /\ Counted(conn) < MaxPTYsPerConn
              /\ shell' = [shell EXCEPT ![o] = "running"]
              /\ home' = [home EXCEPT ![o] = conn] /\ serving' = o
              /\ UNCHANGED down
           \/ Push("refused", o) /\ UNCHANGED daemon \* at the cap, or no spawn
    /\ UNCHANGED <<link, conn, page, aside>>

AnswerOpen ==
    /\ serving # NoOpen /\ serving' = NoOpen
    /\ Push("opened", serving)
    /\ UNCHANGED <<link, conn, page, up, shell, home, aside>>

(* Close tears the PTY down and answers {}, which nobody waits for.        *)
ServeClose ==
    /\ Serving("close")
    /\ LET o == Head(up).pty
       IN  shell' = [shell EXCEPT ![o] = IF @ = "running" THEN "dying" ELSE @]
    /\ UNCHANGED <<link, conn, page, down, home, serving, aside>>

(* Input writes to the master, if the PTY is in the table, and returns at  *)
(* once, or when the child has read or is gone.                            *)
ServeInput ==
    /\ Serving("input")
    /\ LET o == Head(up).pty
       IN  \/ UNCHANGED writing
           \/ shell[o] # "exited" /\ writing' = writing \cup {<<conn, o>>}
    /\ UNCHANGED <<link, conn, page, down, daemon, missed, typed, loose>>

InputWritten(w) ==
    /\ w \in writing /\ writing' = writing \ {w}
    /\ UNCHANGED <<link, conn, page, up, down, daemon, missed, typed, loose>>

(* What is adrift is served all the same.                                  *)
ServeAdrift(r) ==
    /\ r \in adrift /\ ~Blocked(r.conn)
    /\ \/ /\ r.op = "open" /\ Counted(r.conn) < MaxPTYsPerConn
          /\ shell' = [shell EXCEPT ![r.pty] = "running"]
          /\ home' = [home EXCEPT ![r.pty] = r.conn]
          /\ adrift' = (adrift \ {r}) \cup {[r EXCEPT !.op = "opened"]}
          /\ UNCHANGED writing
       \/ r.op = "open" /\ adrift' = adrift \ {r} /\ UNCHANGED <<shell, home, writing>>
       \/ /\ r.op = "close" /\ adrift' = adrift \ {r}
          /\ shell' = [shell EXCEPT ![r.pty] = IF @ = "running" THEN "dying" ELSE @]
          /\ UNCHANGED <<home, writing>>
       \/ /\ r.op = "input" /\ adrift' = adrift \ {r}
          /\ \/ writing' = writing
             \/ shell[r.pty] # "exited" /\ writing' = writing \cup {<<r.conn, r.pty>>}
          /\ UNCHANGED <<shell, home>>
    /\ UNCHANGED <<link, conn, page, up, down, serving, missed, typed, late, strays>>

(* OnDisconnect of the connection a PTY belongs to, once its read loop has *)
(* found out.                                                              *)
OnDisconnect(o) ==
    /\ shell[o] = "running" /\ Over(home[o]) /\ ~Blocked(home[o])
    /\ shell' = [shell EXCEPT ![o] = "dying"]
    /\ UNCHANGED <<link, conn, page, up, down, home, serving, aside>>

(* waitLoop: the child has exited, by itself or because it was told to.    *)
ChildExits(o) ==
    /\ shell[o] \in {"running", "dying"}
    /\ shell' = [shell EXCEPT ![o] = "exited"]
    /\ IF home[o] = conn /\ link # "down" THEN Push("exit", o)
                                          ELSE UNCHANGED down
    /\ UNCHANGED <<link, conn, page, up, home, serving, aside>>

-----------------------------------------------------------------------------
(* What the page receives                                                  *)
Receive(ev) == down # <<>> /\ Head(down).ev = ev /\ down' = Tail(down)
Say(o, s) == status' = [status EXCEPT ![owner[o]] = s]

(* Mutant of Opened: a run that was cleaned up ignores the answer.         *)
OpenedLate ==
    /\ Receive("opened")
    /\ LET o == Head(down).pty
       IN  IF hook[o] = "opening"
             THEN hook' = [hook EXCEPT ![o] = "live"] /\ Say(o, "ready")
             ELSE UNCHANGED <<hook, status>>
    /\ UNCHANGED <<link, conn, tabs, nextKey, owner, up, daemon, aside>>

(* The answer to pty.open: the hook subscribes, or, cleaned up in the      *)
(* meantime, closes the PTY.                                               *)
Opened ==
    /\ Receive("opened")
    /\ LET o == Head(down).pty
       IN  IF hook[o] = "opening"
             THEN /\ hook' = [hook EXCEPT ![o] = "live"] /\ Say(o, "ready")
                  /\ UNCHANGED up
             ELSE /\ up' = Append(up, Request("close", o))
                  /\ UNCHANGED <<hook, status>>
    /\ UNCHANGED <<link, conn, tabs, nextKey, owner, daemon, aside>>

(* An answer that is adrift finds its run cleaned up: pty.close is sent on *)
(* the socket the page holds by then, or rejected.                         *)
OpenedAdrift(r) ==
    /\ r \in adrift /\ r.op = "opened" /\ adrift' = adrift \ {r}
    /\ up' = IF link = "down" THEN up ELSE Append(up, Request("close", r.pty))
    /\ UNCHANGED <<link, conn, page, down, daemon, missed, typed, writing, late,
                   strays>>

Refused ==
    /\ Receive("refused")
    /\ LET o == Head(down).pty
       IN  IF hook[o] = "opening"
             THEN hook' = [hook EXCEPT ![o] = "failed"] /\ Say(o, "error")
             ELSE UNCHANGED <<hook, status>>
    /\ UNCHANGED <<link, conn, tabs, nextKey, owner, up, daemon, aside>>

(* Mutant of Exited: only the tab's first PTY is listened to.              *)
ExitedFirst ==
    /\ Receive("exit")
    /\ LET o == Head(down).pty
       IN  /\ IF hook[o] = "live" /\ o = 1 THEN Say(o, "exited")
                                           ELSE UNCHANGED status
           /\ missed' = IF hook[o] = "opening" THEN missed \cup {o} ELSE missed
    /\ UNCHANGED <<link, conn, tabs, nextKey, owner, hook, up, daemon, others>>

(* pty.exit reaches the hook that subscribed for this PTY, if there is one.*)
Exited ==
    /\ Receive("exit")
    /\ LET o == Head(down).pty
       IN  /\ IF hook[o] = "live" THEN Say(o, "exited") ELSE UNCHANGED status
           /\ missed' = IF hook[o] = "opening" THEN missed \cup {o} ELSE missed
    /\ UNCHANGED <<link, conn, tabs, nextKey, owner, hook, up, daemon, others>>

DaemonStep == ServeOpen \/ AnswerOpen \/ ServeClose \/ ServeInput
PageStep == Opened \/ Refused \/ Exited

Next ==
    \/ AddTab \/ \E k \in Keys : CloseTab(k)
    \/ ShowFunnel \/ ShowIde
    \/ BecomeReady \/ Refresh \/ Drop \/ StaleClose
    \/ ServeOpen \/ AnswerOpen \/ ServeClose \/ ServeInput
    \/ \E o \in Opens : send(o) \/ OnDisconnect(o) \/ ChildExits(o)
    \/ \E w \in writing : InputWritten(w)
    \/ \E r \in adrift : ServeAdrift(r) \/ OpenedAdrift(r)
    \/ Opened \/ Refused \/ Exited

(* A read loop that is not blocked, cleanup and the page's event loop go   *)
(* on; a child that is torn down ends (PtySession's SessionsEnd).  Nothing *)
(* makes a child read its input, or a forgotten socket break.              *)
Fairness ==
    /\ WF_vars(DaemonStep) /\ WF_vars(PageStep)
    /\ \A o \in Opens : /\ WF_vars(OnDisconnect(o))
                        /\ WF_vars(shell[o] = "dying" /\ ChildExits(o))

Spec == Init /\ [][Next]_vars /\ Fairness

-----------------------------------------------------------------------------
(* Properties                                                              *)

(* Every variable holds a value of its type.                               *)
TypeOK ==
    /\ link \in {"ready", "refreshing", "down"} /\ conn \in 0..MaxConns
    /\ tabs \subseteq Keys /\ Cardinality(tabs) <= MAX_TABS
    /\ nextKey \in 1..(MaxTabs + 1)
    /\ status \in [Keys -> {"opening", "ready", "exited", "error"}]
    /\ owner \in [Opens -> Keys \cup {NoTab}]
    /\ hook \in [Opens -> {"none", "opening", "live", "abandoned", "gone",
                           "failed"}]
    /\ \A i \in DOMAIN up : up[i].op \in {"open", "close", "input"}
                            /\ up[i].pty \in Opens
    /\ \A i \in DOMAIN down : down[i].pty \in Opens
    /\ shell \in [Opens -> {"none", "running", "dying", "exited"}]
    /\ home \in [Opens -> 0..MaxConns] /\ serving \in Opens \cup {NoOpen}
    /\ missed \subseteq Opens /\ writing \subseteq (0..MaxConns) \X Opens
    /\ typed \in 0..MaxInputs /\ late \in BOOLEAN /\ strays \subseteq 0..MaxConns
    /\ \A r \in adrift : r.op \in {"open", "close", "input", "opened"}
                          /\ r.pty \in Opens /\ r.conn \in strays

Closing(o) == \E i \in DOMAIN up : up[i] = Request("close", o)

(* "Clean up the orphan rather than leaking the shell": a shell of the     *)
(* current connection is the one a mounted tab shows, or its pty.close or  *)
(* the answer that leads to one is on its way.                             *)
NoStrays ==
    \A o \in Opens :
        shell[o] = "running" /\ home[o] = conn /\ link # "down" =>
            \/ hook[o] = "live" /\ owner[o] \in tabs
            \/ Answering(o) \/ Closing(o)

(* A tab whose shell has exited says so once the event is delivered,       *)
(* unless the event came before the answer to pty.open.                    *)
ExitsShown ==
    \A o \in Opens :
        hook[o] = "live" /\ shell[o] = "exited" =>
            \/ status[owner[o]] = "exited"
            \/ [ev |-> "exit", pty |-> o] \in {down[i] : i \in DOMAIN down}
            \/ o \in missed

(* A PTY whose tab is closed, or whose connection broke, ends, whatever    *)
(* was in flight; one that was not opened yet is opened and ends, or the   *)
(* request was lost.  There are two exceptions: a read loop that stays     *)
(* blocked in a write, and a socket that stays open after the page forgot  *)
(* it.  Neither ends, and no pty.close or OnDisconnect comes through.      *)
Ended(o) ==
    \/ shell[o] = "exited"
    \/ shell[o] = "none" /\ \A i \in DOMAIN up : up[i] # Request("open", o)

ClosedTabsEnd ==
    <>[](writing = {} /\ strays = {}) =>
        \A o \in Opens : hook[o] \in {"abandoned", "gone"} ~> Ended(o)
=============================================================================
