----------------------- MODULE DaemonConnectionProofs -----------------------
(***************************************************************************)
(* Theorems about DaemonConnection, for every set of calls, every number   *)
(* of attempts, drops and refreshes and any number of sockets: the safety  *)
(* properties that TLC checks on a small instance.                         *)
(***************************************************************************)
EXTENDS DaemonConnection, FiniteSetTheorems, TLAPS

-----------------------------------------------------------------------------
(* The inductive invariant.  A page that has no session yet has no         *)
(* connection; one that was left closed it, unless there was none.         *)
Bare == page \in {"session", "nosession"} \/ (page = "left" /\ ~closed)
Phases ==
    /\ closed => page = "left"
    /\ Bare => /\ socket = NoSocket /\ backoffs = 0 /\ expiries = 0
               /\ refreshes = 0 /\ \A s \in Sockets : net[s] = "none"
               /\ status = "idle"
               /\ \A c \in Calls : ~InFlight(c)

(* Every socket that is not over yet, every reconnect timer and every      *)
(* refresh that is awaited is a socket that is or may come: together they  *)
(* are at most one more than the refreshes started.  A connection without  *)
(* a socket has used up that one, and so has one that was closed.          *)
Unfinished == {s \in Sockets : net[s] # "none"}
Budgeted ==
    /\ Cardinality(Unfinished) + backoffs + refreshes <= renewals + 1
    /\ ~Bare /\ socket = NoSocket =>
          Cardinality(Alive) + refreshes <= renewals
    /\ closed => Cardinality(Alive) + refreshes <= renewals
    /\ socket # NoSocket => net[socket] \in {"connecting", "open"}

(* Until the first refresh there is one socket, the one the connection     *)
(* holds, or one reconnect timer; so the status cannot be a stale one.     *)
Plain ==
    ~closed /\ renewals = 0 =>
        /\ \A s \in Sockets :
              net[s] # "none" => s = socket /\ net[s] # "closing"
        /\ backoffs <= 1 /\ refreshes = 0
        /\ backoffs = 1 => socket = NoSocket
        /\ status = "ready" <=> Usable(socket)

IInv ==
    /\ TypeOK /\ Phases /\ NobodyWaitsOnClosed /\ Budgeted
    /\ GivenUpRejects /\ Plain

-----------------------------------------------------------------------------
(* Type correctness, which needs no more than itself.                      *)
LEMMA TypeSchedule ==
    ASSUME TypeOK, NEW running \in Nat, ScheduleReconnect(running)
    PROVE  /\ attempt' \in 0..MAX_RECONNECT_ATTEMPTS
           /\ backoffs' \in running..(running + 1)
           /\ status' \in {"failed", "reconnecting"}
           /\ pill' \in {pill, status'}
           /\ calls' = calls \/ RejectInflight
BY ConnectionAssumption DEF TypeOK, ScheduleReconnect, SetStatus

LEMMA TypeCalls ==
    ASSUME TypeOK, RejectInflight
    PROVE  calls' \in [Calls -> {"new", "pending", "notified", "resolved",
                                 "rejected", "forgotten"}]
BY DEF TypeOK, RejectInflight, InFlight

LEMMA TypeOpen ==
    ASSUME NEW nets \in [Sockets -> {"none", "connecting", "open", "closing"}],
           OpenSocket(nets)
    PROVE  /\ net' \in [Sockets -> {"none", "connecting", "open", "closing"}]
           /\ socket' \in Sockets
BY DEF OpenSocket

LEMMA TypeClosing ==
    ASSUME TypeOK
    PROVE  (IF socket = NoSocket THEN net ELSE [net EXCEPT ![socket] = "closing"])
              \in [Sockets -> {"none", "connecting", "open", "closing"}]
BY DEF TypeOK

LEMMA TypeComponent == TypeOK /\ ComponentStep => TypeOK'
<1> SUFFICES ASSUME TypeOK, ComponentStep PROVE TypeOK'
  OBVIOUS
<1> USE ConnectionAssumption DEF TypeOK, shown, timers, budget, wires, SetStatus
<1>1. CASE Connect
  <2>1. CASE OpenSocket(net)
    BY <1>1, <2>1, TypeOpen DEF Connect, connect, connectRejects
  <2>2. CASE page' = "broken" /\ UNCHANGED <<net, socket>>
    BY <1>1, <2>2 DEF Connect, connect, connectRejects
  <2> QED BY <1>1, <2>1, <2>2 DEF Connect, connect, connectRejects
<1>2. CASE SessionFails
  BY <1>2 DEF SessionFails
<1>3. CASE Leave
  <2>1. CASE page \in {"session", "nosession"}
    BY <1>3, <2>1 DEF Leave, close
  <2>2. CASE page \notin {"session", "nosession"}
    BY <1>3, <2>2, TypeCalls, TypeClosing DEF Leave, close
  <2> QED BY <2>1, <2>2
<1>4. CASE \E c \in Calls : Call(c)
  BY <1>4 DEF Call, Usable
<1> QED BY <1>1, <1>2, <1>3, <1>4 DEF ComponentStep

LEMMA TypeAnswer ==
    ASSUME TypeOK, NEW c \in Calls, ForgetNotify(c) \/ Answer(c)
    PROVE  TypeOK'
<1> USE ConnectionAssumption DEF TypeOK, shown, timers, budget, wires, SetStatus
<1>1. CASE ForgetNotify(c)
  BY <1>1 DEF ForgetNotify
<1>2. CASE Answer(c)
  BY <1>2 DEF Answer, StartRefresh
<1> QED BY <1>1, <1>2

LEMMA TypeSocket ==
    ASSUME TypeOK, NEW s \in Sockets, SocketStep(s)
    PROVE  TypeOK'
<1> USE ConnectionAssumption DEF TypeOK, shown, timers, budget, wires, SetStatus
<1>1. CASE SocketOpens(s)
  BY <1>1 DEF SocketOpens, StartRefresh
<1>2. CASE SocketCloses(s)
  <2>1. /\ net' \in [Sockets -> {"none", "connecting", "open", "closing"}]
        /\ carrier' \in [Calls -> Sockets \cup {NoSocket}]
        /\ socket' = NoSocket /\ drops' \in 0..MaxDrops
        /\ UNCHANGED <<page, closed, expiries>>
    BY <1>2 DEF SocketCloses
  <2>2. CASE closed
    BY <1>2, <2>1, <2>2 DEF SocketCloses
  <2>3. CASE StartRefresh /\ UNCHANGED <<attempt, calls, backoffs>>
    BY <2>1, <2>3 DEF StartRefresh
  <2>4. CASE ScheduleReconnect(backoffs) /\ UNCHANGED <<refreshes, renewals>>
    BY <2>1, <2>4, TypeSchedule, TypeCalls
  <2> QED BY <1>2, <2>2, <2>3, <2>4 DEF SocketCloses
<1> QED BY <1>1, <1>2 DEF SocketStep

LEMMA TypeTimer == TypeOK /\ TimerStep => TypeOK'
<1> SUFFICES ASSUME TypeOK, TimerStep PROVE TypeOK'
  OBVIOUS
<1> USE ConnectionAssumption DEF TypeOK, shown, timers, budget, wires, SetStatus
<1>1. CASE BackoffFires
  <2>1. /\ backoffs - 1 \in Nat
        /\ UNCHANGED <<page, closed, carrier, expiries, refreshes, budget>>
    BY <1>1 DEF BackoffFires
  <2>2. CASE closed
    BY <1>1, <2>1, <2>2 DEF BackoffFires
  <2>3. CASE ~closed /\ page # "broken"
    BY <1>1, <2>1, <2>3, TypeOpen DEF BackoffFires
  <2>4. CASE ~closed /\ page = "broken"
    BY <1>1, <2>1, <2>4, TypeSchedule, TypeCalls DEF BackoffFires
  <2> QED BY <2>2, <2>3, <2>4
<1>2. CASE ExpiryFires
  BY <1>2 DEF ExpiryFires, StartRefresh
<1>3. CASE RefreshReturns
  <2>1. /\ net' \in [Sockets -> {"none", "connecting", "open", "closing"}]
        /\ socket' \in Sockets
    BY <1>3, TypeOpen, TypeClosing DEF RefreshReturns
  <2> QED BY <1>3, <2>1 DEF RefreshReturns
<1>4. CASE RefreshFails
  BY <1>4, TypeCalls DEF RefreshFails
<1> QED BY <1>1, <1>2, <1>3, <1>4 DEF TimerStep

LEMMA TypeStep == TypeOK /\ Next => TypeOK'
BY TypeComponent, TypeAnswer, TypeSocket, TypeTimer DEF Next

-----------------------------------------------------------------------------
(* What a closed connection and a page without one are like.               *)
LEMMA RejectedNotInFlight ==
    ASSUME TypeOK, RejectInflight
    PROVE  \A c \in Calls : calls'[c] \notin {"pending", "notified"}
BY DEF TypeOK, RejectInflight, InFlight

LEMMA PhasesStep ==
    ASSUME TypeOK, Phases, NobodyWaitsOnClosed, Next
    PROVE  Phases' /\ NobodyWaitsOnClosed'
<1> USE DEF TypeOK, Phases, NobodyWaitsOnClosed, Bare, InFlight, shown, timers,
            budget, wires
<1>1. CASE Connect
  <2>1. ~Bare' /\ closed' = closed /\ calls' = calls /\ page' # "left" /\ ~closed
    BY <1>1 DEF Connect, connect, connectRejects
  <2> QED BY <2>1
<1>2. CASE SessionFails
  BY <1>2 DEF SessionFails
<1>3. CASE Leave
  <2>1. CASE page \in {"session", "nosession"}
    BY <1>3, <2>1 DEF Leave, close
  <2>2. CASE page \notin {"session", "nosession"}
    BY <1>3, <2>2, RejectedNotInFlight DEF Leave, close
  <2> QED BY <2>1, <2>2
<1>4. ASSUME NEW c \in Calls, Call(c) PROVE Phases' /\ NobodyWaitsOnClosed'
  BY <1>4 DEF Call, Usable
<1>5. ASSUME NEW c \in Calls, ForgetNotify(c)
      PROVE  Phases' /\ NobodyWaitsOnClosed'
  BY <1>5 DEF ForgetNotify
<1>6. ASSUME NEW c \in Calls, Answer(c) PROVE Phases' /\ NobodyWaitsOnClosed'
  <2>1. ~Bare /\ ~closed
    BY <1>6 DEF Answer
  <2> QED BY <1>6, <2>1 DEF Answer
<1>7. ASSUME NEW s \in Sockets, SocketStep(s)
      PROVE  Phases' /\ NobodyWaitsOnClosed'
  <2>1. ~Bare
    BY <1>7 DEF SocketStep, SocketOpens, SocketCloses
  <2>2. closed' = closed /\ (page' = page \/ (page = "connecting" /\ page' = "mounted"))
    BY <1>7 DEF SocketStep, SocketOpens, SocketCloses
  <2>3. closed => calls' = calls
    BY <1>7 DEF SocketStep, SocketOpens, SocketCloses, ScheduleReconnect
  <2> QED BY <2>1, <2>2, <2>3
<1>8. CASE TimerStep
  <2>1. ~Bare
    BY <1>8 DEF TimerStep, BackoffFires, ExpiryFires, RefreshReturns, RefreshFails
  <2>2. closed' = closed /\ page' = page
    BY <1>8 DEF TimerStep, BackoffFires, ExpiryFires, RefreshReturns, RefreshFails
  <2>3. closed => calls' = calls \/ RejectInflight
    BY <1>8 DEF TimerStep, BackoffFires, ExpiryFires, RefreshReturns, RefreshFails
  <2> QED BY <2>1, <2>2, <2>3, RejectedNotInFlight
<1> QED BY <1>1, <1>2, <1>3, <1>4, <1>5, <1>6, <1>7, <1>8
           DEF Next, ComponentStep

-----------------------------------------------------------------------------
(* A connection that gave up.                                              *)
LEMMA GivenUpStep ==
    ASSUME TypeOK, NobodyWaitsOnClosed, GivenUpRejects, Next
    PROVE  GivenUpRejects'
<1> USE DEF TypeOK, NobodyWaitsOnClosed, GivenUpRejects, InFlight, SetStatus,
            shown, timers, budget, wires
<1>1. CASE RejectInflight
  BY <1>1, RejectedNotInFlight
<1>2. ASSUME status' # "failed" PROVE GivenUpRejects'
  BY <1>2
<1>3. ASSUME UNCHANGED <<status, calls, carrier>> PROVE GivenUpRejects'
  BY <1>3
<1>4. ASSUME ScheduleReconnect(backoffs) \/ ScheduleReconnect(backoffs - 1)
      PROVE  GivenUpRejects'
  BY <1>1, <1>2, <1>4 DEF ScheduleReconnect
<1>5. CASE ComponentStep
  <2>1. ASSUME NEW c \in Calls, Call(c) PROVE GivenUpRejects'
    BY <2>1 DEF Call, Usable
  <2> QED BY <1>1, <1>2, <1>3, <1>5, <2>1
          DEF ComponentStep, Connect, connect, connectRejects, SessionFails,
              Leave, close
<1>6. ASSUME NEW c \in Calls, ForgetNotify(c) \/ Answer(c) PROVE GivenUpRejects'
  BY <1>6 DEF ForgetNotify, Answer, StartRefresh
<1>7. ASSUME NEW s \in Sockets, SocketOpens(s) PROVE GivenUpRejects'
  BY <1>2, <1>7 DEF SocketOpens, StartRefresh
<1>8. ASSUME NEW s \in Sockets, SocketCloses(s) PROVE GivenUpRejects'
  <2>1. CASE closed
    BY <1>8, <2>1 DEF SocketCloses
  <2> QED BY <1>2, <1>4, <1>8, <2>1 DEF SocketCloses, StartRefresh
<1>9. CASE TimerStep
  BY <1>1, <1>2, <1>3, <1>4, <1>9
     DEF TimerStep, BackoffFires, ExpiryFires, RefreshReturns, RefreshFails,
         StartRefresh
<1> QED BY <1>5, <1>6, <1>7, <1>8, <1>9 DEF Next, SocketStep

-----------------------------------------------------------------------------
LEMMA PlainStep ==
    ASSUME TypeOK, Phases, Plain, Next
    PROVE  Plain'
<1> SUFFICES ASSUME ~closed', renewals' = 0 PROVE Plain'
  BY DEF Plain
<1>1. /\ ~closed /\ renewals = 0 /\ renewals \in Nat
      /\ \A s \in Sockets : s # NoSocket
  BY DEF Next, ComponentStep, Connect, connect, connectRejects, SessionFails,
         Leave, close, Call, ForgetNotify, Answer, SocketStep, SocketOpens,
         SocketCloses, TimerStep, BackoffFires, ExpiryFires, RefreshReturns,
         RefreshFails, StartRefresh, budget, TypeOK, Sockets, NoSocket
<1>2. ~(StartRefresh)
  BY <1>1 DEF StartRefresh
<1> USE <1>1, <1>2 DEF Plain, TypeOK, Usable, shown, timers, budget, wires
<1>3. CASE Connect
  BY <1>3 DEF Connect, connect, connectRejects, OpenSocket, SetStatus, Phases,
              Bare
<1>4. CASE SessionFails \/ Leave
  BY <1>4 DEF SessionFails, Leave, close
<1>5. ASSUME NEW c \in Calls, Call(c) \/ ForgetNotify(c) \/ Answer(c)
      PROVE  Plain'
  BY <1>5 DEF Call, ForgetNotify, Answer
<1>6. ASSUME NEW s \in Sockets, SocketOpens(s) PROVE Plain'
  BY <1>6 DEF SocketOpens, SetStatus
<1>7. ASSUME NEW s \in Sockets, SocketCloses(s) PROVE Plain'
  BY <1>7 DEF SocketCloses, ScheduleReconnect, SetStatus
<1>8. CASE TimerStep
  <2>1. ~ExpiryFires /\ ~RefreshReturns /\ ~RefreshFails
    BY DEF ExpiryFires, RefreshReturns, RefreshFails
  <2> QED BY <1>8, <2>1
          DEF TimerStep, BackoffFires, OpenSocket, ScheduleReconnect, SetStatus
<1> QED BY <1>3, <1>4, <1>5, <1>6, <1>7, <1>8
        DEF Next, ComponentStep, SocketStep

-----------------------------------------------------------------------------
(* Counting sockets, in the states `f` of their networks.                  *)
Busy(f) == {s \in Sockets : f[s] # "none"}
Lively(f) == {s \in Sockets : f[s] \in {"connecting", "open"}}
Nets == [Sockets -> {"none", "connecting", "open", "closing"}]

LEMMA FiniteSockets ==
    ASSUME NEW S \in SUBSET Sockets
    PROVE  IsFiniteSet(S) /\ Cardinality(S) \in Nat
<1>1. IsFiniteSet(Sockets)
  BY FS_Interval, ConnectionAssumption DEF Sockets
<1> QED BY <1>1, FS_Subset, FS_CardinalityType

LEMMA LivelyIsBusy ==
    ASSUME NEW f \in Nets
    PROVE  /\ Cardinality(Busy(f)) \in Nat /\ Cardinality(Lively(f)) \in Nat
           /\ Cardinality(Lively(f)) <= Cardinality(Busy(f))
<1>1. Lively(f) \in SUBSET Busy(f) /\ Busy(f) \in SUBSET Sockets
  BY DEF Lively, Busy
<1>2. Lively(f) \in SUBSET Sockets
  BY <1>1
<1> QED BY <1>1, <1>2, FiniteSockets, FS_Subset

LEMMA CountOpen ==
    ASSUME NEW f \in Nets, OpenSocket(f)
    PROVE  /\ net' \in Nets
           /\ socket' # NoSocket /\ net'[socket'] = "connecting"
           /\ Cardinality(Busy(net')) = Cardinality(Busy(f)) + 1
           /\ Cardinality(Lively(net')) = Cardinality(Lively(f)) + 1
<1>1. PICK s \in Sockets : /\ f[s] = "none" /\ socket' = s
                           /\ net' = [f EXCEPT ![s] = "connecting"]
  BY DEF OpenSocket
<1>2. /\ Busy(net') = Busy(f) \cup {s} /\ s \notin Busy(f)
      /\ Lively(net') = Lively(f) \cup {s} /\ s \notin Lively(f)
  BY <1>1 DEF Busy, Lively, Nets
<1>3. IsFiniteSet(Busy(f)) /\ IsFiniteSet(Lively(f))
  BY FiniteSockets DEF Busy, Lively
<1>4. /\ Cardinality(Busy(f) \cup {s}) = Cardinality(Busy(f)) + 1
      /\ Cardinality(Lively(f) \cup {s}) = Cardinality(Lively(f)) + 1
  BY <1>2, <1>3, FS_AddElement, Zenon
<1>5. net' \in Nets /\ s # NoSocket /\ net'[s] = "connecting"
  BY <1>1 DEF Nets, Sockets, NoSocket
<1> QED BY <1>1, <1>2, <1>4, <1>5, Zenon

LEMMA CountClosing ==
    ASSUME NEW f \in Nets, NEW s \in Sockets, f[s] \in {"connecting", "open"}
    PROVE  LET g == [f EXCEPT ![s] = "closing"]
           IN  /\ g \in Nets
               /\ Cardinality(Busy(g)) = Cardinality(Busy(f))
               /\ Cardinality(Lively(g)) = Cardinality(Lively(f)) - 1
<1> DEFINE g == [f EXCEPT ![s] = "closing"]
<1>1. /\ g \in Nets /\ Busy(g) = Busy(f)
      /\ Lively(g) = Lively(f) \ {s} /\ s \in Lively(f)
  BY DEF Busy, Lively, Nets
<1>2. IsFiniteSet(Lively(f))
  BY FiniteSockets DEF Lively
<1>3. Cardinality(Lively(f) \ {s}) = Cardinality(Lively(f)) - 1
  BY <1>1, <1>2, FS_RemoveElement, Zenon
<1> HIDE DEF g
<1>4. Cardinality(Lively(g)) = Cardinality(Lively(f)) - 1
  BY <1>1, <1>3, Zenon
<1>5. Cardinality(Busy(g)) = Cardinality(Busy(f))
  BY <1>1, Zenon
<1> USE DEF g
<1> QED BY <1>1, <1>4, <1>5, Zenon

LEMMA CountClosed ==
    ASSUME NEW f \in Nets, NEW s \in Sockets, f[s] # "none"
    PROVE  LET g == [f EXCEPT ![s] = "none"]
           IN  /\ g \in Nets
               /\ Cardinality(Busy(g)) = Cardinality(Busy(f)) - 1
               /\ Cardinality(Lively(g)) <= Cardinality(Lively(f))
<1> DEFINE g == [f EXCEPT ![s] = "none"]
<1>1. /\ g \in Nets /\ Busy(g) = Busy(f) \ {s} /\ s \in Busy(f)
      /\ Lively(g) \in SUBSET Lively(f)
  BY DEF Busy, Lively, Nets
<1>2. IsFiniteSet(Busy(f)) /\ IsFiniteSet(Lively(f))
  BY FiniteSockets DEF Lively, Busy
<1>3. Cardinality(Busy(f) \ {s}) = Cardinality(Busy(f)) - 1
  BY <1>1, <1>2, FS_RemoveElement, Zenon
<1> HIDE DEF g
<1>4. Cardinality(Busy(g)) = Cardinality(Busy(f)) - 1
  BY <1>1, <1>3, Zenon
<1>5. Cardinality(Lively(g)) <= Cardinality(Lively(f))
  BY <1>1, <1>2, FS_Subset, Zenon
<1> USE DEF g
<1> QED BY <1>1, <1>4, <1>5, Zenon

-----------------------------------------------------------------------------
(* The budget.                                                             *)
Inv == TypeOK /\ Phases /\ Budgeted

LEMMA Counts ==
    ASSUME TypeOK
    PROVE  /\ net \in Nets
           /\ Unfinished = Busy(net) /\ Alive = Lively(net)
           /\ Cardinality(Busy(net)) \in Nat /\ Cardinality(Lively(net)) \in Nat
           /\ Cardinality(Lively(net)) <= Cardinality(Busy(net))
BY LivelyIsBusy DEF TypeOK, Nets, Unfinished, Busy, Alive, Lively

(* A step that leaves the sockets' states as busy and as lively as they    *)
(* are keeps the budget if it starts no more timers than refreshes.        *)
LEMMA BudgetKept ==
    ASSUME Inv, TypeOK', Alive' = Alive, Unfinished' = Unfinished,
           socket' = socket, closed' = closed,
           socket # NoSocket => net'[socket] \in {"connecting", "open"},
           backoffs' <= backoffs, Bare' <=> Bare,
           \/ refreshes' <= refreshes /\ renewals' = renewals
           \/ refreshes' = refreshes + 1 /\ renewals' = renewals + 1
    PROVE  Budgeted'
BY Counts DEF Inv, Budgeted, TypeOK

LEMMA BudgetComponent ==
    ASSUME Inv, TypeOK', ComponentStep
    PROVE  Budgeted'
<1> USE Counts DEF Inv
<1>0. TypeOK => /\ Alive' = Lively(net') /\ Unfinished' = Busy(net')
  BY DEF Unfinished, Busy, Alive, Lively
<1>1. CASE Connect
  <2>1. /\ socket = NoSocket /\ ~closed /\ backoffs = 0 /\ refreshes = 0
        /\ Busy(net) = {} /\ Lively(net) = {}
    BY <1>1 DEF Connect, connect, connectRejects, Phases, Bare, Busy, Lively
  <2>2. Cardinality(Busy(net)) = 0 /\ Cardinality(Lively(net)) = 0
    BY <2>1, FS_EmptySet, Zenon
  <2>3. CASE OpenSocket(net)
    <3>1. UNCHANGED <<closed, backoffs, refreshes, renewals>>
      BY <1>1, <2>3, <2>1, CountOpen DEF Connect, connect, connectRejects, budget
    <3> QED BY <1>0, <2>1, <2>2, <2>3, <3>1, CountOpen DEF Budgeted, TypeOK
  <2>4. CASE backoffs' = 1 /\ UNCHANGED <<net, socket>>
    <3>1. UNCHANGED <<closed, refreshes, renewals>>
      BY <1>1 DEF Connect, connect, connectRejects, budget
    <3> QED BY <1>0, <2>1, <2>2, <2>4, <3>1 DEF Budgeted, TypeOK
  <2> QED BY <1>1, <2>3, <2>4 DEF Connect, connect, connectRejects
<1>2. CASE SessionFails
  BY <1>2, BudgetKept
     DEF SessionFails, wires, timers, budget, Alive, Unfinished, Bare, Budgeted,
         Phases
<1>3. CASE Leave
  <2>1. UNCHANGED <<backoffs, refreshes, renewals>> /\ page' = "left"
    BY <1>3 DEF Leave, close, timers, budget
  <2>2. CASE page \in {"session", "nosession"}
    <3>1. UNCHANGED <<closed, socket, net>> /\ Bare /\ ~closed
      BY <1>3, <2>2 DEF Leave, close, Phases, Bare
    <3>2. Bare'
      BY <2>1, <3>1 DEF Bare
    <3> QED BY <2>1, <3>1, <3>2, BudgetKept
            DEF Alive, Unfinished, Budgeted, TypeOK
  <2>3. CASE page \notin {"session", "nosession"}
    <3>1. /\ closed' /\ socket' = NoSocket /\ ~Bare
          /\ net' = IF socket = NoSocket
                      THEN net ELSE [net EXCEPT ![socket] = "closing"]
      BY <1>3, <2>3 DEF Leave, close, Bare
    <3>2. CASE socket = NoSocket
      BY <1>0, <2>1, <3>1, <3>2 DEF Budgeted, TypeOK
    <3>3. CASE socket # NoSocket
      <4>1. socket \in Sockets /\ net[socket] \in {"connecting", "open"}
        BY <3>3 DEF Budgeted, TypeOK
      <4>2. /\ Cardinality(Busy(net')) = Cardinality(Busy(net))
            /\ Cardinality(Lively(net')) = Cardinality(Lively(net)) - 1
        BY <3>1, <3>3, <4>1, CountClosing
      <4> QED BY <1>0, <2>1, <3>1, <4>2 DEF Budgeted, TypeOK
    <3> QED BY <3>2, <3>3
  <2> QED BY <2>2, <2>3
<1>4. ASSUME NEW c \in Calls, Call(c) PROVE Budgeted'
  BY <1>4, BudgetKept
     DEF Call, timers, budget, shown, Alive, Unfinished, Bare, Budgeted, TypeOK
<1> QED BY <1>1, <1>2, <1>3, <1>4 DEF ComponentStep

LEMMA BudgetSocket ==
    ASSUME Inv, TypeOK', NEW s \in Sockets, SocketStep(s)
    PROVE  Budgeted'
<1> USE Counts DEF Inv
<1>0. /\ Alive' = Lively(net') /\ Unfinished' = Busy(net')
  BY DEF Unfinished, Busy, Alive, Lively
<1>1. CASE SocketOpens(s)
  <2>1. /\ UNCHANGED <<closed, socket, backoffs>>
        /\ net[s] = "connecting" /\ net' = [net EXCEPT ![s] = "open"]
        /\ page' = page \/ (page = "connecting" /\ page' = "mounted")
    BY <1>1 DEF SocketOpens
  <2>2. Alive' = Alive /\ Unfinished' = Unfinished
    BY <2>1 DEF Alive, Unfinished, TypeOK
  <2>3. \/ UNCHANGED <<refreshes, renewals>>
        \/ refreshes' = refreshes + 1 /\ renewals' = renewals + 1
    BY <1>1 DEF SocketOpens, StartRefresh
  <2>4. Bare' <=> Bare
    BY <2>1 DEF Bare
  <2>5. socket # NoSocket => net'[socket] \in {"connecting", "open"}
    BY <2>1 DEF Budgeted, TypeOK
  <2> QED BY <2>1, <2>2, <2>3, <2>4, <2>5, BudgetKept DEF TypeOK
<1>2. CASE SocketCloses(s)
  <2>1. /\ UNCHANGED <<closed, page>> /\ socket' = NoSocket
        /\ net[s] # "none" /\ net' = [net EXCEPT ![s] = "none"]
    BY <1>2 DEF SocketCloses
  <2>2. /\ Cardinality(Busy(net')) = Cardinality(Busy(net)) - 1
        /\ Cardinality(Lively(net')) <= Cardinality(Lively(net))
        /\ Cardinality(Lively(net')) <= Cardinality(Busy(net'))
        /\ Cardinality(Lively(net')) \in Nat
    BY <2>1, CountClosed, LivelyIsBusy
  <2>3. \/ UNCHANGED <<backoffs, refreshes, renewals>>
        \/ /\ ~closed /\ UNCHANGED backoffs
           /\ refreshes' = refreshes + 1 /\ renewals' = renewals + 1
        \/ /\ ~closed /\ UNCHANGED <<refreshes, renewals>>
           /\ backoffs' \in backoffs..(backoffs + 1)
    BY <1>2, TypeSchedule DEF SocketCloses, StartRefresh, TypeOK
  <2> QED BY <1>0, <2>1, <2>2, <2>3 DEF Budgeted, TypeOK, Bare
<1> QED BY <1>1, <1>2 DEF SocketStep

LEMMA BudgetTimer ==
    ASSUME Inv, TypeOK', TimerStep
    PROVE  Budgeted'
<1> USE Counts DEF Inv
<1>0. /\ Alive' = Lively(net') /\ Unfinished' = Busy(net')
  BY DEF Unfinished, Busy, Alive, Lively
<1>1. CASE BackoffFires
  <2>1. backoffs > 0 /\ UNCHANGED <<page, closed, refreshes, renewals>>
    BY <1>1 DEF BackoffFires, budget
  <2>2. ~Bare /\ ~Bare'
    BY <2>1 DEF Phases, Bare
  <2>3. CASE closed
    BY <1>1, <2>1, <2>2, <2>3, BudgetKept
       DEF BackoffFires, shown, Alive, Unfinished, Budgeted, TypeOK
  <2>4. CASE ~closed /\ page # "broken"
    <3>1. OpenSocket(net) /\ backoffs' = backoffs - 1
      BY <1>1, <2>4 DEF BackoffFires
    <3> QED BY <1>0, <2>1, <2>4, <3>1, CountOpen DEF Budgeted, TypeOK
  <2>5. CASE ~closed /\ page = "broken"
    <3>1. UNCHANGED <<socket, net>> /\ backoffs' <= backoffs
      BY <1>1, <2>5, TypeSchedule DEF BackoffFires, TypeOK
    <3> QED BY <2>1, <2>2, <3>1, BudgetKept
            DEF Alive, Unfinished, Budgeted, TypeOK
  <2> QED BY <2>3, <2>4, <2>5
<1>2. CASE ExpiryFires
  BY <1>2, BudgetKept
     DEF ExpiryFires, StartRefresh, wires, shown, Alive, Unfinished, Budgeted,
         TypeOK, Bare
<1>3. CASE RefreshReturns
  <2> DEFINE nets == IF socket = NoSocket
                       THEN net ELSE [net EXCEPT ![socket] = "closing"]
  <2>1. /\ refreshes > 0 /\ refreshes' = refreshes - 1 /\ OpenSocket(nets)
        /\ UNCHANGED <<page, closed, backoffs, renewals>>
    BY <1>3 DEF RefreshReturns, budget
  <2>2. /\ nets \in Nets
        /\ Cardinality(Busy(nets)) = Cardinality(Busy(net))
        /\ Cardinality(Lively(nets)) <= Cardinality(Lively(net))
    <3>1. CASE socket = NoSocket
      BY <3>1 DEF TypeOK
    <3>2. CASE socket # NoSocket
      <4>1. socket \in Sockets /\ net[socket] \in {"connecting", "open"}
        BY <3>2 DEF Budgeted, TypeOK
      <4> QED BY <3>2, <4>1, CountClosing
    <3> QED BY <3>1, <3>2
  <2> HIDE DEF nets
  <2>3. /\ socket' # NoSocket /\ net'[socket'] = "connecting"
        /\ Cardinality(Busy(net')) = Cardinality(Busy(nets)) + 1
        /\ Cardinality(Lively(net')) = Cardinality(Lively(nets)) + 1
    BY <2>1, <2>2, CountOpen
  <2>4. Cardinality(Lively(nets)) \in Nat
    BY <2>2, LivelyIsBusy
  <2> QED BY <1>0, <2>1, <2>2, <2>3, <2>4 DEF Budgeted, TypeOK
<1>4. CASE RefreshFails
  BY <1>4, BudgetKept
     DEF RefreshFails, wires, budget, Alive, Unfinished, Budgeted, TypeOK, Bare
<1> QED BY <1>1, <1>2, <1>3, <1>4 DEF TimerStep

-----------------------------------------------------------------------------
(* The theorems.                                                           *)
LEMMA InductiveInit == Init => IInv
<1> SUFFICES ASSUME Init PROVE IInv
  OBVIOUS
<1>1. TypeOK
  <2>1. /\ attempt \in 0..MAX_RECONNECT_ATTEMPTS /\ drops \in 0..MaxDrops
        /\ renewals \in 0..MaxRefreshes
        /\ backoffs \in Nat /\ expiries \in Nat /\ refreshes \in Nat
    BY ConnectionAssumption DEF Init
  <2>2. /\ net \in [Sockets -> {"none", "connecting", "open", "closing"}]
        /\ calls \in [Calls -> {"new", "pending", "notified", "resolved",
                                "rejected", "forgotten"}]
        /\ carrier \in [Calls -> Sockets \cup {NoSocket}]
    BY DEF Init
  <2> QED BY <2>1, <2>2 DEF Init, TypeOK
<1>2. /\ Phases /\ NobodyWaitsOnClosed
      /\ GivenUpRejects /\ Plain
  BY DEF Init, Phases, NobodyWaitsOnClosed, InFlight, GivenUpRejects, Plain,
         Usable
<1>3. Budgeted
  <2>1. Unfinished = {} /\ Alive = {}
    BY DEF Init, Unfinished, Alive
  <2>2. Cardinality(Unfinished) = 0 /\ Cardinality(Alive) = 0
    BY <2>1, FS_EmptySet, Zenon
  <2> QED BY <2>2 DEF Init, Budgeted
<1> QED BY <1>1, <1>2, <1>3 DEF IInv

LEMMA InductiveStep == IInv /\ [Next]_vars => IInv'
<1> SUFFICES ASSUME IInv, [Next]_vars PROVE IInv'
  OBVIOUS
<1> USE DEF IInv
<1>1. CASE Next
  <2>1. TypeOK'
    BY <1>1, TypeStep
  <2>2. /\ Phases' /\ NobodyWaitsOnClosed'
        /\ GivenUpRejects' /\ Plain'
    BY <1>1, PhasesStep, GivenUpStep, PlainStep
  <2>3. ASSUME NEW c \in Calls, ForgetNotify(c) \/ Answer(c) PROVE Budgeted'
    BY <2>1, <2>3, BudgetKept
       DEF ForgetNotify, Answer, StartRefresh, wires, timers, budget, shown,
           Inv, Alive, Unfinished, Budgeted, TypeOK, Bare
  <2>4. Budgeted'
    BY <1>1, <2>1, <2>3, BudgetComponent, BudgetSocket, BudgetTimer
       DEF Next, Inv
  <2> QED BY <2>1, <2>2, <2>4
<1>2. CASE UNCHANGED vars
  <2> USE <1>2 DEF vars
  <2>1. TypeOK'
    BY DEF TypeOK
  <2>2. /\ Phases' /\ NobodyWaitsOnClosed'
        /\ GivenUpRejects' /\ Plain'
    BY DEF Phases, Bare, NobodyWaitsOnClosed, InFlight, GivenUpRejects, Plain,
           Usable
  <2>3. Budgeted'
    BY DEF Budgeted, Bare, Unfinished, Alive
  <2> QED BY <2>1, <2>2, <2>3
<1> QED BY <1>1, <1>2

THEOREM Inductive == Spec => []IInv
<1> QED BY InductiveInit, InductiveStep, PTL DEF Spec

(* Every variable keeps its type: in particular the connection never tries *)
(* more often than MAX_RECONNECT_ATTEMPTS in a row.                        *)
THEOREM TypeCorrect == Spec => []TypeOK
<1>1. IInv => TypeOK
  BY DEF IInv
<1> QED BY Inductive, <1>1, PTL

(* Nobody waits on a connection that was closed, whatever timers, token    *)
(* refreshes and socket events come later.                                 *)
THEOREM ClosedMeansNobodyWaits == Spec => []NobodyWaitsOnClosed
<1>1. IInv => NobodyWaitsOnClosed
  BY DEF IInv
<1> QED BY Inductive, <1>1, PTL

(* A connection that gave up has rejected every call that no socket can    *)
(* answer any more.                                                        *)
THEOREM GivingUpRejects == Spec => []GivenUpRejects
<1>1. IInv => GivenUpRejects
  BY DEF IInv
<1> QED BY Inductive, <1>1, PTL

(* Until the first token refresh, the page is ready exactly when a call    *)
(* can be sent, whatever sockets drop and timers run.                      *)
THEOREM ReadyIsTrue == Spec => []ReadyUntilRefreshed
<1>1. IInv => ReadyUntilRefreshed
  BY DEF IInv, Phases, Plain, ReadyUntilRefreshed
<1> QED BY Inductive, <1>1, PTL

(* Sockets leak by token refreshes alone, one at most for each: without    *)
(* one there is a single socket, and none once the page was left.          *)
THEOREM SocketsAreBudgeted == Spec => []OneSocket
<1>1. IInv => OneSocket
  <2> SUFFICES ASSUME IInv PROVE OneSocket
    OBVIOUS
  <2> USE DEF IInv
  <2>1. /\ Cardinality(Alive) \in Nat /\ Cardinality(Unfinished) \in Nat
        /\ Cardinality(Alive) <= Cardinality(Unfinished)
    BY Counts
  <2>2. CASE page = "left" /\ ~closed
    <3>1. Alive = {}
      BY <2>2 DEF Phases, Bare, Alive
    <3>2. Cardinality(Alive) = 0
      BY <3>1, FS_EmptySet, Zenon
    <3> QED BY <2>2, <3>2 DEF OneSocket, TypeOK
  <2>3. CASE closed
    BY <2>1, <2>3 DEF OneSocket, Budgeted, Phases, TypeOK
  <2>4. CASE page # "left"
    BY <2>1, <2>4 DEF OneSocket, Budgeted, TypeOK
  <2> QED BY <2>2, <2>3, <2>4
<1> QED BY Inductive, <1>1, PTL
=============================================================================
