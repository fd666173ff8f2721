--------------------------- MODULE DaemonConnection ---------------------------
(***************************************************************************)
(* The browser's side of the connection to the sandbox daemon: the         *)
(* DaemonConnection class (frontend/src/lib/daemon.ts) as the workspace    *)
(* page uses it (hooks/useDaemonConnection.ts).                            *)
(*                                                                         *)
(* JavaScript runs one task at a time, so every step is one whole task: a  *)
(* call made by a component, a WebSocket event, a timer, or the            *)
(* continuation of `await refresh()`.  ws.close() only starts the closing  *)
(* handshake; the close event is a later task, and nothing ties it to the  *)
(* socket the connection then holds.  Timers are never cancelled.          *)
(***************************************************************************)
EXTENDS Naturals, FiniteSets

CONSTANTS
    Calls,                  \* the rpc() and notify() calls components make
    MAX_RECONNECT_ATTEMPTS, \* consecutive attempts before giving up
    MaxSockets,             \* bound: sockets alive at the same time
    MaxDrops,               \* bound: established sockets that break
    MaxRefreshes            \* bound: token refreshes started

ASSUME ConnectionAssumption ==
    /\ MAX_RECONNECT_ATTEMPTS \in Nat \ {0} /\ MaxSockets \in Nat \ {0}
    /\ MaxDrops \in Nat /\ MaxRefreshes \in Nat

Sockets == 1..MaxSockets
NoSocket == 0

VARIABLES
    page,      \* the hook: waiting for a session, for connect(), ...
    status,    \* the connection's status
    pill,      \* the page's store.status: what the pill shows
    closed,    \* close() was called
    attempt,   \* reconnectAttempt
    socket,    \* the socket the connection holds, or NoSocket
    net,       \* each socket's readyState; "none" before and after its life
    calls,     \* what became of each call
    carrier,   \* the socket a call in flight was sent on, NoSocket once dead
    backoffs,  \* reconnect timers running
    expiries,  \* token-expiry timers running
    refreshes, \* refreshAndReopen()s awaiting a new session
    drops,     \* how many established sockets broke
    renewals   \* how many refreshes were started

vars == <<page, status, pill, closed, attempt, socket, net, calls, carrier,
          backoffs, expiries, refreshes, drops, renewals>>

shown == <<status, pill>>
timers == <<backoffs, expiries, refreshes>>
budget == <<drops, renewals>>
wires == <<socket, net, carrier>>

-----------------------------------------------------------------------------
Init ==
    /\ page = "session" /\ status = "idle" /\ pill = "connecting"
    /\ closed = FALSE /\ attempt = 0
    /\ socket = NoSocket /\ net = [s \in Sockets |-> "none"]
    /\ calls = [c \in Calls |-> "new"] /\ carrier = [c \in Calls |-> NoSocket]
    /\ backoffs = 0 /\ expiries = 0 /\ refreshes = 0
    /\ drops = 0 /\ renewals = 0

InFlight(c) == calls[c] \in {"pending", "notified"}
Usable(s) == s # NoSocket /\ net[s] = "open"

(* rejectInflight: every entry of the inflight map is rejected, the map    *)
(* is emptied.                                                             *)
RejectInflight ==
    calls' = [c \in Calls |-> IF InFlight(c) THEN "rejected" ELSE calls[c]]

(* setStatus: the hook's onStatusChange, the store's setStatus, is told of *)
(* a change, and of nothing but a change.                                  *)
SetStatus(next) ==
    /\ status' = next
    /\ pill' = IF next = status THEN pill ELSE next

(* openSocket: `new WebSocket`, over the sockets as `nets` leaves them.    *)
OpenSocket(nets) ==
    \E s \in Sockets :
        /\ nets[s] = "none" /\ \A t \in 1..(s - 1) : nets[t] # "none"
        /\ net' = [nets EXCEPT ![s] = "connecting"]
        /\ socket' = s

(* Mutant of ScheduleReconnect: one attempt too many.                      *)
ScheduleOneMore(running) ==
    IF attempt > MAX_RECONNECT_ATTEMPTS
      THEN /\ SetStatus("failed") /\ RejectInflight
           /\ backoffs' = running
           /\ UNCHANGED attempt
      ELSE /\ SetStatus("reconnecting")
           /\ attempt' = attempt + 1
           /\ backoffs' = running + 1
           /\ UNCHANGED calls

(* scheduleReconnect, on a connection that is not closed and has `running` *)
(* reconnect timers.                                                       *)
ScheduleReconnect(running) ==
    IF attempt >= MAX_RECONNECT_ATTEMPTS
      THEN /\ SetStatus("failed") /\ RejectInflight
           /\ backoffs' = running
           /\ UNCHANGED attempt
      ELSE /\ SetStatus("reconnecting")
           /\ attempt' = attempt + 1
           /\ backoffs' = running + 1
           /\ UNCHANGED calls

(* refreshAndReopen, up to its await.                                      *)
StartRefresh ==
    /\ renewals < MaxRefreshes /\ renewals' = renewals + 1
    /\ refreshes' = refreshes + 1
    /\ SetStatus("reconnecting")

-----------------------------------------------------------------------------
(* connect() opens the first socket.  The constructor of WebSocket throws  *)
(* on an address it rejects: connect() rejects, which the hook shows as a  *)
(* failure, and a reconnect to the same address is scheduled all the same. *)
connect ==
    /\ OpenSocket(net)
    /\ page' = "connecting" /\ SetStatus("connecting")
    /\ UNCHANGED <<attempt, backoffs>>

connectRejects ==
    /\ page' = "broken" /\ status' = "reconnecting" /\ pill' = "failed"
    /\ attempt' = 1 /\ backoffs' = 1
    /\ UNCHANGED <<net, socket>>

(* The hook's effect: POST /sessions answered, then connect().             *)
Connect ==
    /\ page = "session"
    /\ connect \/ connectRejects
    /\ UNCHANGED <<closed, carrier, expiries, refreshes, budget, calls>>

(* POST /sessions failed: there is no connection, and the pill says so.    *)
SessionFails ==
    /\ page = "session"
    /\ page' = "nosession" /\ pill' = "failed"
    /\ UNCHANGED <<status, closed, attempt, wires, calls, timers, budget>>

(* close(): the socket is closed and forgotten.                            *)
close ==
    /\ closed' = TRUE /\ SetStatus("closed")
    /\ RejectInflight
    /\ net' = IF socket = NoSocket
                THEN net ELSE [net EXCEPT ![socket] = "closing"]
    /\ socket' = NoSocket

(* The effect's cleanup: cancelled = true, and close() if there is a       *)
(* connection by now.  A session that arrives later is ignored.            *)
Leave ==
    /\ page # "left"
    /\ page' = "left"
    /\ IF page \in {"session", "nosession"}
         THEN UNCHANGED <<shown, closed, socket, net, calls>>
         ELSE close
    /\ UNCHANGED <<attempt, carrier, timers, budget>>

(* Mutant of Call: the connection's `closed` is not looked at.             *)
CallOnClosed(c) ==
    /\ calls[c] = "new" /\ page \in {"mounted", "left"} /\ status # "idle"
    /\ IF Usable(socket)
         THEN calls' = [calls EXCEPT ![c] = "pending"]
              /\ carrier' = [carrier EXCEPT ![c] = socket]
         ELSE calls' = [calls EXCEPT ![c] = "rejected"] /\ UNCHANGED carrier
    /\ UNCHANGED <<page, shown, closed, attempt, socket, net, timers, budget>>

(* rpc() and notify(): the two differ in what an answer means and in the   *)
(* 5 s after which a notify is forgotten.  The hook's own system.ping is   *)
(* one of them: the daemon never refuses it, so it is rejected only        *)
(* together with every other call.                                         *)
Call(c) ==
    /\ calls[c] = "new" /\ page \in {"mounted", "left"} /\ status # "idle"
    /\ IF ~closed /\ Usable(socket)
         THEN /\ \E kind \in {"pending", "notified"} :
                    calls' = [calls EXCEPT ![c] = kind]
              /\ carrier' = [carrier EXCEPT ![c] = socket]
         ELSE calls' = [calls EXCEPT ![c] = "rejected"] /\ UNCHANGED carrier
    /\ UNCHANGED <<page, shown, closed, attempt, socket, net, timers, budget>>

ForgetNotify(c) ==
    /\ calls[c] = "notified"
    /\ calls' = [calls EXCEPT ![c] = "forgotten"]
    /\ UNCHANGED <<page, shown, closed, attempt, wires, timers, budget>>

-----------------------------------------------------------------------------
(* dispatch: a response or an error, matched by id whatever socket it      *)
(* arrives on; a successful notify is not answered.                        *)
Answer(c) ==
    /\ InFlight(c) /\ Usable(carrier[c])
    /\ \/ /\ calls[c] = "pending"
          /\ calls' = [calls EXCEPT ![c] = "resolved"]
          /\ UNCHANGED <<shown, refreshes, renewals>>
       \/ /\ calls' = [calls EXCEPT ![c] = "rejected"]
          /\ UNCHANGED <<shown, refreshes, renewals>>
       \/ /\ calls' = [calls EXCEPT ![c] = "rejected"]  \* invalid_token
          /\ ~closed /\ StartRefresh
    /\ UNCHANGED <<page, closed, attempt, wires, backoffs, expiries, drops>>

(* onopen: the waiting connect() resolves, the expiry timer starts; a      *)
(* token about to expire is refreshed at once.                             *)
SocketOpens(s) ==
    /\ net[s] = "connecting"
    /\ net' = [net EXCEPT ![s] = "open"]
    /\ attempt' = 0
    /\ page' = IF page = "connecting" THEN "mounted" ELSE page
    /\ \/ /\ SetStatus("ready")
          /\ expiries' = expiries + 1 \/ (closed /\ UNCHANGED expiries)
          /\ UNCHANGED <<refreshes, renewals>>
       \/ ~closed /\ StartRefresh /\ UNCHANGED expiries
    /\ UNCHANGED <<closed, socket, calls, carrier, backoffs, drops>>

(* onclose: the connection forgets the socket it holds, whichever socket   *)
(* the event is about.  Codes 1008 and 4401 ask for a new token.  That a   *)
(* peer's closing handshake is seen by send() a moment before its event is *)
(* left out: the socket is open until then.                                *)
SocketCloses(s) ==
    /\ net[s] # "none"
    /\ IF net[s] = "open" THEN drops < MaxDrops /\ drops' = drops + 1
                          ELSE UNCHANGED drops
    /\ net' = [net EXCEPT ![s] = "none"]
    /\ carrier' = [c \in Calls |-> IF carrier[c] = s THEN NoSocket
                                                     ELSE carrier[c]]
    /\ socket' = NoSocket
    /\ \/ /\ closed
          /\ UNCHANGED <<shown, attempt, calls, backoffs, refreshes, renewals>>
       \/ /\ ~closed /\ net[s] = "open" /\ StartRefresh
          /\ UNCHANGED <<attempt, calls, backoffs>>
       \/ /\ ~closed /\ ScheduleReconnect(backoffs)
          /\ UNCHANGED <<refreshes, renewals>>
    /\ UNCHANGED <<page, closed, expiries>>

-----------------------------------------------------------------------------
(* Mutant of BackoffFires: a timer that repeats.                            *)
BackoffRepeats ==
    /\ backoffs > 0 /\ ~closed
    /\ OpenSocket(net)
    /\ UNCHANGED <<page, shown, closed, attempt, calls, carrier, timers, budget>>

(* Timers, and the continuation of refreshAndReopen.                       *)
BackoffFires ==
    /\ backoffs > 0
    /\ \/ /\ closed
          /\ backoffs' = backoffs - 1
          /\ UNCHANGED <<shown, attempt, socket, net, calls>>
       \/ /\ ~closed /\ page # "broken"
          /\ OpenSocket(net)
          /\ backoffs' = backoffs - 1
          /\ UNCHANGED <<shown, attempt, calls>>
       \/ /\ ~closed /\ page = "broken"
          /\ ScheduleReconnect(backoffs - 1)
          /\ UNCHANGED <<socket, net>>
    /\ UNCHANGED <<page, closed, carrier, expiries, refreshes, budget>>

ExpiryFires ==
    /\ expiries > 0
    /\ expiries' = expiries - 1
    /\ \/ closed /\ UNCHANGED <<shown, refreshes, renewals>>
       \/ ~closed /\ StartRefresh
    /\ UNCHANGED <<page, closed, attempt, wires, calls, backoffs, drops>>

RefreshReturns ==
    /\ refreshes > 0
    /\ refreshes' = refreshes - 1
    /\ OpenSocket(IF socket = NoSocket
                    THEN net ELSE [net EXCEPT ![socket] = "closing"])
    /\ attempt' = 0
    /\ UNCHANGED <<page, shown, closed, calls, carrier, backoffs, expiries,
                   budget>>

(* Mutant of RefreshFails: the error is swallowed.                         *)
RefreshSwallowed ==
    /\ refreshes > 0
    /\ refreshes' = refreshes - 1
    /\ UNCHANGED <<page, shown, closed, attempt, wires, calls, backoffs,
                   expiries, budget>>

(* Mutant of RefreshFails: the calls in flight are left to wait.           *)
RefreshFailsQuietly ==
    /\ refreshes > 0
    /\ refreshes' = refreshes - 1
    /\ SetStatus("failed")
    /\ UNCHANGED <<page, closed, attempt, wires, calls, backoffs, expiries,
                   budget>>

RefreshFails ==
    /\ refreshes > 0
    /\ refreshes' = refreshes - 1
    /\ SetStatus("failed") /\ RejectInflight
    /\ UNCHANGED <<page, closed, attempt, wires, backoffs, expiries, budget>>

-----------------------------------------------------------------------------
ComponentStep == Connect \/ SessionFails \/ Leave \/ \E c \in Calls : Call(c)
SocketStep(s) == SocketOpens(s) \/ SocketCloses(s)
TimerStep == BackoffFires \/ ExpiryFires \/ RefreshReturns \/ RefreshFails

Next ==
    \/ ComponentStep
    \/ \E c \in Calls : ForgetNotify(c) \/ Answer(c)
    \/ \E s \in Sockets : SocketStep(s)
    \/ TimerStep

Spec == Init /\ [][Next]_vars

(* Timers fire, a request for a session is answered or fails, and the      *)
(* browser brings every opening or closing handshake to its end.  Nothing  *)
(* obliges the daemon to answer a call, or an open socket to break.        *)
Fairness ==
    /\ WF_vars(Connect \/ SessionFails)
    /\ WF_vars(BackoffFires)
    /\ WF_vars(RefreshReturns \/ RefreshFails)
    /\ \A s \in Sockets : WF_vars(net[s] # "open" /\ SocketStep(s))

FairSpec == Spec /\ Fairness

-----------------------------------------------------------------------------
TypeOK ==
    /\ page \in {"session", "nosession", "connecting", "broken", "mounted",
                 "left"}
    /\ {status, pill} \subseteq {"idle", "connecting", "ready", "reconnecting",
                                 "failed", "closed"}
    /\ closed \in BOOLEAN
    /\ attempt \in 0..MAX_RECONNECT_ATTEMPTS
    /\ socket \in Sockets \cup {NoSocket}
    /\ net \in [Sockets -> {"none", "connecting", "open", "closing"}]
    /\ calls \in [Calls -> {"new", "pending", "notified", "resolved",
                            "rejected", "forgotten"}]
    /\ carrier \in [Calls -> Sockets \cup {NoSocket}]
    /\ backoffs \in Nat /\ expiries \in Nat /\ refreshes \in Nat
    /\ drops \in 0..MaxDrops /\ renewals \in 0..MaxRefreshes

Alive == {s \in Sockets : net[s] \in {"connecting", "open"}}

(* Risk 4.9: leaving the page leaves no caller waiting, not even when a    *)
(* late refresh reopens the connection.                                    *)
NobodyWaitsOnClosed == closed => \A c \in Calls : ~InFlight(c)

(* One connection, one socket: components share it, and the daemon ties    *)
(* terminals and watches to it; and cleanup tears it down, so that a page  *)
(* that was left has none.  Only a token refresh leaks a socket, or        *)
(* reopens a closed connection: one socket at most each time.              *)
OneSocket ==
    Cardinality(Alive) <= renewals + (IF page = "left" THEN 0 ELSE 1)

(* The user is never left with a pill that says "connecting" or            *)
(* "reconnecting" for ever, whichever of the session, the socket or a      *)
(* token refresh fails.                                                    *)
Recovers ==
    pill \in {"connecting", "reconnecting"}
        ~> pill \in {"ready", "failed"} \/ page = "left"

(* Until the first token refresh, the page is ready exactly when a call    *)
(* can be sent: dropped sockets, reconnects and late close events leave no *)
(* stale "ready".  A refresh may: the close event of the socket that it    *)
(* replaced makes the connection forget the new one, which then opens, and *)
(* "ready" is shown while every call is refused.                           *)
ReadyUntilRefreshed ==
    page = "mounted" /\ renewals = 0 => (status = "ready" <=> Usable(socket))

(* A connection that gave up, its attempts exhausted or its refresh        *)
(* failed, has rejected every call that no socket can answer any more.     *)
GivenUpRejects ==
    status = "failed" => \A c \in Calls : InFlight(c) => carrier[c] # NoSocket

(* rpc() says that a call is rejected "if the socket dies before a         *)
(* response arrives": the code does not keep it, since onclose rejects     *)
(* nothing, and after a successful reconnect nobody will.                  *)
DeadCallsEnd ==
    \A c \in Calls :
        (calls[c] = "pending" /\ carrier[c] = NoSocket) ~> calls[c] # "pending"
=============================================================================
