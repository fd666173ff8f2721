--------------------------- MODULE PtySessionProofs ---------------------------
(***************************************************************************)
(* Theorems about PtySession, for every set of connections, every finite   *)
(* set of sessions, every cap and every bound: its invariants, which       *)
(* TLC checks on one session, and CapHolds, which takes several.           *)
(***************************************************************************)
EXTENDS PtySession, FiniteSetTheorems, TLAPS

-----------------------------------------------------------------------------
(* The inductive invariant: types, ...                                     *)
TypeInv ==
    /\ TypeOK
    /\ \A s \in Sessions : avail[s] <= produced[s]

(* ... the life of a session: it exists once it is owned, is handed from   *)
(* the read loop that spawned it to the table and its goroutines, and      *)
(* leaves the table when its child has been reaped; ...                    *)
Reaped(s) == waiter[s] \in {"close", "unregister", "publish", "done"}
BeingRegistered(s) ==
    reader[owner[s]] = "register" /\ target[owner[s]] = s

Tables ==
    /\ \A c \in Conns :
          reader[c] = "register" =>
              /\ target[c] \in Sessions
              /\ owner[target[c]] = c
              /\ proc[target[c]] # "none"
              /\ waiter[target[c]] = "none"
    /\ \A s \in Sessions :
          /\ owner[s] = None <=> proc[s] = "none"
          /\ proc[s] = "none" => waiter[s] = "none"
          /\ proc[s] = "reaped" <=> Reaped(s)
          /\ s \in registered <=> waiter[s] \in {"wait", "close", "unregister"}
          /\ proc[s] \in {"running", "exited"} /\ waiter[s] = "none"
                => BeingRegistered(s)

(* ... its end: a session being closed has a killer, and pty.exit is the   *)
(* last thing its wait goroutine does; ...                                 *)
Endings ==
    \A s \in Sessions :
        /\ closing[s] => killer[s] # "none"
        /\ \A i \in DOMAIN log[s] : log[s][i].kind = "exit" => waiter[s] = "done"
        /\ \A i, j \in DOMAIN log[s] :
              log[s][i].kind = "exit" /\ log[s][j].kind = "exit" => i = j

(* ... and the cap, which counts the session that a read loop has been     *)
(* admitted to spawn and has not registered.                               *)
Admitted(c) == reader[c] \in {"spawn", "register"}
Capped ==
    \A c \in Conns :
        /\ Cardinality(SessionsByConn(c)) <= MaxPTYsPerConn
        /\ Admitted(c) => Cardinality(SessionsByConn(c)) < MaxPTYsPerConn

IInv == TypeInv /\ Tables /\ Endings /\ NoOrphans /\ Capped

-----------------------------------------------------------------------------
(* Type correctness.                                                       *)
LEMMA TypeReader ==
    ASSUME TypeInv, Tables, NEW c \in Conns, Admit(c) \/ ReaderStep(c) \/ PeerLeaves(c)
    PROVE  TypeInv'
<1> USE PtyAssumption DEF TypeInv, TypeOK, Goto, child, conns, output
<1>1. CASE Admit(c)
  BY <1>1 DEF Admit
<1>2. CASE Spawn(c)
  BY <1>2 DEF Spawn
<1>3. CASE SpawnFails(c)
  BY <1>3 DEF SpawnFails
<1>4. CASE Register(c)
  BY <1>4 DEF Register, Tables
<1>5. CASE InputWritten(c)
  <2>1. input' \in [Sessions -> 0..InputCapacity]
    <3>1. CASE input' = input
      BY <3>1
    <3>2. CASE /\ input[target[c]] < InputCapacity
               /\ input' = [input EXCEPT ![target[c]] = @ + 1]
      <4>1. CASE target[c] \in Sessions
        BY <3>2, <4>1
      <4>2. CASE target[c] \notin Sessions
        BY <3>2, <4>2
      <4> QED BY <4>1, <4>2
    <3> QED BY <1>5, <3>1, <3>2 DEF InputWritten
  <2> QED BY <1>5, <2>1 DEF InputWritten
<1>6. CASE ReadFails(c)
  BY <1>6 DEF ReadFails
<1>7. CASE OnDisconnect(c)
  BY <1>7 DEF OnDisconnect, Teardown
<1>8. CASE PeerLeaves(c)
  BY <1>8 DEF PeerLeaves
<1> QED BY <1>1, <1>2, <1>3, <1>4, <1>5, <1>6, <1>7, <1>8 DEF ReaderStep

LEMMA TypeRequest ==
    ASSUME TypeInv, NEW c \in Conns, NEW s \in Sessions, Input(c, s) \/ Close(c, s)
    PROVE  TypeInv'
<1> USE PtyAssumption DEF TypeInv, TypeOK, Goto, child, conns, output
<1>1. CASE Input(c, s)
  BY <1>1 DEF Input
<1>2. CASE Close(c, s)
  BY <1>2 DEF Close, Teardown
<1> QED BY <1>1, <1>2

LEMMA TypeLog ==
    ASSUME log \in [Sessions -> Seq(Events)], NEW s \in Sessions,
           NEW event \in Events, Published(s, event) \/ Unpublished
    PROVE  log' \in [Sessions -> Seq(Events)]
<1>1. Append(log[s], event) \in Seq(Events)
  OBVIOUS
<1> QED BY <1>1 DEF Published, Unpublished

LEMMA TypeKiller ==
    ASSUME TypeInv, NEW s \in Sessions, KillerStep(s)
    PROVE  TypeInv'
<1> USE PtyAssumption DEF TypeInv, TypeOK, child, conns, output
<1>1. CASE KillerStops(s)
  BY <1>1 DEF KillerStops
<1>2. CASE KillerFires(s)
  BY <1>2 DEF KillerFires
<1>3. CASE KillerCloses(s)
  BY <1>3 DEF KillerCloses
<1> QED BY <1>1, <1>2, <1>3 DEF KillerStep

LEMMA TypeWaiter ==
    ASSUME TypeInv, NEW s \in Sessions, WaiterStep(s)
    PROVE  TypeInv'
<1> USE PtyAssumption DEF TypeInv, TypeOK, child, conns, output
<1>1. CASE Wait(s)
  BY <1>1 DEF Wait
<1>2. CASE CloseMaster(s)
  BY <1>2 DEF CloseMaster
<1>3. CASE Unregister(s)
  BY <1>3 DEF Unregister
<1>4. CASE PublishExit(s)
  <2>1. Event("exit", 0) \in Events
    BY DEF Event, Events
  <2>2. log' \in [Sessions -> Seq(Events)]
    BY <1>4, <2>1, TypeLog DEF PublishExit
  <2> QED BY <1>4, <2>2 DEF PublishExit
<1> QED BY <1>1, <1>2, <1>3, <1>4 DEF WaiterStep

LEMMA TypeChild ==
    ASSUME TypeInv, NEW s \in Sessions, ChildStep(s)
    PROVE  TypeInv'
<1> USE PtyAssumption DEF TypeInv, TypeOK, child, conns, output
<1>1. CASE ChildReads(s)
  <2>1. input' \in [Sessions -> 0..InputCapacity]
    BY <1>1 DEF ChildReads
  <2> QED BY <1>1, <2>1 DEF ChildReads
<1>2. CASE ChildWrites(s)
  <2>1. /\ avail' \in [Sessions -> 0..MaxChunks]
        /\ produced' \in [Sessions -> 0..MaxChunks]
        /\ \A t \in Sessions : avail'[t] <= produced'[t]
    BY <1>2 DEF ChildWrites
  <2> QED BY <1>2, <2>1 DEF ChildWrites
<1>3. CASE ChildExits(s)
  BY <1>3 DEF ChildExits
<1> QED BY <1>1, <1>2, <1>3 DEF ChildStep

LEMMA TypeOutput ==
    ASSUME TypeInv, NEW s \in Sessions, OutputStep(s)
    PROVE  TypeInv'
<1> USE PtyAssumption DEF TypeInv, TypeOK, child, conns, output
<1>1. CASE Read(s)
  <2>1. /\ avail' \in [Sessions -> 0..MaxChunks]
        /\ \A t \in Sessions : avail'[t] <= produced[t]
    BY <1>1 DEF Read
  <2> QED BY <1>1, <2>1 DEF Read
<1>2. CASE ReadEnds(s)
  BY <1>2 DEF ReadEnds
<1>3. CASE Notify(s)
  <2>1. Event("dropped", pending[s]) \in Events
    BY DEF Event, Events
  <2>2. log' \in [Sessions -> Seq(Events)]
    BY <1>3, <2>1, TypeLog DEF Notify
  <2>3. pending \in [Sessions -> Nat]
    OBVIOUS
  <2>4. pending' \in [Sessions -> Nat]
    BY ONLY <1>3, <2>3 DEF Notify
  <2> QED BY <1>3, <2>2, <2>4 DEF Notify
<1>4. CASE PublishOutput(s)
  <2>1. Event("output", 0) \in Events
    BY DEF Event, Events
  <2>2. log' \in [Sessions -> Seq(Events)]
    BY <1>4, <2>1, TypeLog DEF PublishOutput
  <2>3. pending \in [Sessions -> Nat] /\ refused \in [Sessions -> Nat]
    OBVIOUS
  <2>4. pending' \in [Sessions -> Nat] /\ refused' \in [Sessions -> Nat]
    BY ONLY <1>4, <2>3 DEF PublishOutput
  <2> QED BY <1>4, <2>2, <2>4 DEF PublishOutput
<1> QED BY <1>1, <1>2, <1>3, <1>4 DEF OutputStep

-----------------------------------------------------------------------------
(* The life of a session.                                                  *)
LEMMA TablesUntouched ==
    ASSUME Tables, UNCHANGED <<reader, target, registered, owner, proc, waiter>>
    PROVE  Tables'
BY DEF Tables, BeingRegistered, Reaped

LEMMA TablesReader ==
    ASSUME TypeInv, Tables, TypeInv', NEW c \in Conns,
           Admit(c) \/ ReaderStep(c) \/ PeerLeaves(c)
    PROVE  Tables'
<1> USE PtyAssumption DEF TypeInv, TypeOK, Tables, BeingRegistered, Reaped,
                          Goto, child, conns, output
<1>1. CASE Admit(c)
  BY <1>1 DEF Admit
<1>2. CASE Spawn(c)
  BY <1>2 DEF Spawn
<1>3. CASE SpawnFails(c)
  BY <1>3 DEF SpawnFails
<1>4. CASE Register(c)
  BY <1>4 DEF Register
<1>5. CASE InputWritten(c)
  BY <1>5 DEF InputWritten
<1>6. CASE ReadFails(c)
  BY <1>6 DEF ReadFails
<1>7. CASE OnDisconnect(c)
  BY <1>7 DEF OnDisconnect
<1>8. CASE PeerLeaves(c)
  BY <1>8 DEF PeerLeaves
<1> QED BY <1>1, <1>2, <1>3, <1>4, <1>5, <1>6, <1>7, <1>8 DEF ReaderStep

LEMMA TablesRequest ==
    ASSUME TypeInv, Tables, TypeInv', NEW c \in Conns, NEW s \in Sessions,
           Input(c, s) \/ Close(c, s)
    PROVE  Tables'
<1> USE PtyAssumption DEF TypeInv, TypeOK, Tables, BeingRegistered, Reaped,
                          Goto, child, conns, output
<1>1. CASE Input(c, s)
  BY <1>1 DEF Input
<1>2. CASE Close(c, s)
  BY <1>2 DEF Close
<1> QED BY <1>1, <1>2

LEMMA TablesSession ==
    ASSUME TypeInv, Tables, TypeInv', NEW s \in Sessions,
           KillerStep(s) \/ WaiterStep(s) \/ OutputStep(s) \/ ChildStep(s)
    PROVE  Tables'
<1> USE PtyAssumption DEF TypeInv, TypeOK, Tables, BeingRegistered, Reaped,
                          child, conns, output
<1>1. CASE KillerStep(s)
  BY <1>1, TablesUntouched
     DEF KillerStep, KillerStops, KillerFires, KillerCloses
<1>2. CASE Wait(s)
  BY <1>2 DEF Wait
<1>3. CASE CloseMaster(s)
  BY <1>3 DEF CloseMaster
<1>4. CASE Unregister(s)
  BY <1>4 DEF Unregister
<1>5. CASE PublishExit(s)
  BY <1>5 DEF PublishExit
<1>6. CASE OutputStep(s)
  BY <1>6, TablesUntouched DEF OutputStep, Read, ReadEnds, Notify, PublishOutput
<1>7. CASE ChildReads(s) \/ ChildWrites(s)
  BY <1>7, TablesUntouched DEF ChildReads, ChildWrites
<1>8. CASE ChildExits(s)
  BY <1>8 DEF ChildExits
<1> QED
  BY <1>1, <1>2, <1>3, <1>4, <1>5, <1>6, <1>7, <1>8 DEF WaiterStep, ChildStep

-----------------------------------------------------------------------------
(* The end of a session.                                                   *)
LEMMA EndingsUntouched ==
    ASSUME Endings, UNCHANGED <<closing, killer, log, waiter>>
    PROVE  Endings'
BY DEF Endings

(* teardown gives every session it closes a killer.                        *)
LEMMA EndingsTeardown ==
    ASSUME TypeInv, Endings, NEW S, Teardown(S), UNCHANGED <<log, waiter>>
    PROVE  Endings'
BY DEF TypeInv, TypeOK, Endings, Teardown

(* An event that is not pty.exit adds none to the log.                     *)
LEMMA EndingsLog ==
    ASSUME TypeInv, Endings, NEW s \in Sessions, NEW event \in Events,
           event.kind # "exit", Published(s, event) \/ Unpublished,
           UNCHANGED <<closing, killer, waiter>>
    PROVE  Endings'
<1>1. CASE Unpublished
  BY <1>1, EndingsUntouched DEF Unpublished
<1>2. CASE Published(s, event)
  <2>1. log \in [Sessions -> Seq(Events)]
    BY DEF TypeInv, TypeOK
  <2>2. /\ log'[s] = Append(log[s], event)
        /\ \A t \in Sessions \ {s} : log'[t] = log[t]
    BY ONLY <1>2, <2>1 DEF Published
  <2>3. /\ DOMAIN log'[s] = 1..(Len(log[s]) + 1)
        /\ DOMAIN log[s] = 1..Len(log[s])
        /\ log'[s][Len(log[s]) + 1] = event
        /\ \A i \in 1..Len(log[s]) : log'[s][i] = log[s][i]
        /\ Len(log[s]) \in Nat
    BY ONLY <2>1, <2>2, event \in Events, s \in Sessions
  <2>4. \A i \in DOMAIN log'[s] :
           log'[s][i].kind = "exit" => i \in DOMAIN log[s] /\ log'[s][i] = log[s][i]
    BY <2>3
  <2> QED BY <2>2, <2>4 DEF Endings
<1> QED BY <1>1, <1>2

(* pty.exit is published by a wait goroutine that has not published it.    *)
LEMMA EndingsExit ==
    ASSUME TypeInv, Endings, NEW s \in Sessions, PublishExit(s)
    PROVE  Endings'
<1> DEFINE event == Event("exit", 0)
<1>1. /\ waiter[s] = "publish" /\ waiter' = [waiter EXCEPT ![s] = "done"]
      /\ Published(s, event) \/ Unpublished
      /\ UNCHANGED <<closing, killer>>
  BY DEF PublishExit
<1>2. /\ waiter'[s] = "done"
      /\ \A t \in Sessions \ {s} : waiter'[t] = waiter[t]
  BY <1>1 DEF TypeInv, TypeOK
<1>3. \A i \in DOMAIN log[s] : log[s][i].kind # "exit"
  BY <1>1 DEF Endings
<1>4. CASE Unpublished
  BY <1>1, <1>2, <1>4 DEF Endings, Unpublished
<1>5. CASE Published(s, event)
  <2>1. log \in [Sessions -> Seq(Events)] /\ event \in Events
    BY DEF TypeInv, TypeOK, Event, Events
  <2> HIDE DEF event
  <2>2. /\ log'[s] = Append(log[s], event)
        /\ \A t \in Sessions \ {s} : log'[t] = log[t]
    BY ONLY <1>5, <2>1 DEF Published
  <2>3. /\ DOMAIN log'[s] = 1..(Len(log[s]) + 1)
        /\ DOMAIN log[s] = 1..Len(log[s])
        /\ \A i \in 1..Len(log[s]) : log'[s][i] = log[s][i]
        /\ Len(log[s]) \in Nat
    BY ONLY <2>1, <2>2, s \in Sessions
  <2>4. \A i \in DOMAIN log'[s] :
           log'[s][i].kind = "exit" => i = Len(log[s]) + 1
    BY <1>3, <2>3
  <2> QED BY <1>1, <1>2, <2>2, <2>4 DEF Endings
<1> QED BY <1>1, <1>4, <1>5

LEMMA EndingsStep ==
    ASSUME TypeInv, Tables, Endings, Next
    PROVE  Endings'
<1> USE DEF Goto, child, conns, output
<1>1. ASSUME NEW c \in Conns, Register(c) PROVE Endings'
  BY <1>1 DEF Register, Endings, Tables, TypeInv, TypeOK
<1>2. ASSUME NEW c \in Conns, OnDisconnect(c) PROVE Endings'
  BY <1>2, EndingsTeardown DEF OnDisconnect
<1>3. ASSUME NEW c \in Conns,
             Admit(c) \/ Spawn(c) \/ SpawnFails(c) \/ InputWritten(c)
               \/ ReadFails(c) \/ PeerLeaves(c)
      PROVE  Endings'
  BY <1>3, EndingsUntouched
     DEF Admit, Spawn, SpawnFails, InputWritten, ReadFails, PeerLeaves
<1>4. ASSUME NEW c \in Conns, NEW s \in Sessions, Input(c, s) PROVE Endings'
  BY <1>4, EndingsUntouched DEF Input
<1>5. ASSUME NEW c \in Conns, NEW s \in Sessions, Close(c, s) PROVE Endings'
  BY <1>5, EndingsTeardown DEF Close
<1>6. ASSUME NEW s \in Sessions, KillerStep(s) PROVE Endings'
  BY <1>6 DEF KillerStep, KillerStops, KillerFires, KillerCloses, Endings,
              TypeInv, TypeOK
<1>7. ASSUME NEW s \in Sessions, Wait(s) \/ CloseMaster(s) \/ Unregister(s)
      PROVE  Endings'
  BY <1>7 DEF Wait, CloseMaster, Unregister, Endings, TypeInv, TypeOK
<1>8. ASSUME NEW s \in Sessions, PublishExit(s) PROVE Endings'
  BY <1>8, EndingsExit
<1>9. ASSUME NEW s \in Sessions, Read(s) \/ ReadEnds(s) PROVE Endings'
  BY <1>9, EndingsUntouched DEF Read, ReadEnds
<1>10. ASSUME NEW s \in Sessions, Notify(s) PROVE Endings'
  <2>1. Event("dropped", pending[s]) \in Events
        /\ Event("dropped", pending[s]).kind # "exit"
    BY DEF TypeInv, TypeOK, Event, Events
  <2> QED BY <1>10, <2>1, EndingsLog DEF Notify
<1>11. ASSUME NEW s \in Sessions, PublishOutput(s) PROVE Endings'
  <2>1. Event("output", 0) \in Events /\ Event("output", 0).kind # "exit"
    BY DEF Event, Events
  <2> QED BY <1>11, <2>1, EndingsLog DEF PublishOutput
<1>12. ASSUME NEW s \in Sessions, ChildStep(s) PROVE Endings'
  BY <1>12, EndingsUntouched DEF ChildStep, ChildReads, ChildWrites, ChildExits
<1> QED
  BY <1>1, <1>2, <1>3, <1>4, <1>5, <1>6, <1>7, <1>8, <1>9, <1>10, <1>11, <1>12
     DEF Next, ReaderStep, WaiterStep, OutputStep

-----------------------------------------------------------------------------
(* No orphans.                                                             *)
LEMMA OrphansUntouched ==
    ASSUME TypeInv, NoOrphans, UNCHANGED <<owner, killer, waiter>>,
           \A c \in Conns : reader'[c] = "gone" => reader[c] = "gone"
    PROVE  NoOrphans'
BY DEF TypeInv, TypeOK, NoOrphans

LEMMA NoOrphansStep ==
    ASSUME TypeInv, Tables, Endings, NoOrphans, Next
    PROVE  NoOrphans'
<1> USE DEF Goto, child, conns, output
<1>1. ASSUME NEW c \in Conns, Spawn(c) PROVE NoOrphans'
  BY <1>1, PtyAssumption DEF Spawn, NoOrphans, TypeInv, TypeOK
<1>2. ASSUME NEW c \in Conns, Register(c) PROVE NoOrphans'
  BY <1>2, PtyAssumption DEF Register, NoOrphans, Tables, TypeInv, TypeOK
<1>3. ASSUME NEW c \in Conns, OnDisconnect(c) PROVE NoOrphans'
  <2> SUFFICES ASSUME NEW s \in Sessions, owner[s] # None,
                      reader'[owner[s]] = "gone"
               PROVE  killer'[s] # "none" \/ waiter[s] \in {"publish", "done"}
    BY <1>3 DEF OnDisconnect, NoOrphans
  <2>1. CASE owner[s] # c
    BY <1>3, <2>1 DEF OnDisconnect, Teardown, NoOrphans, TypeInv, TypeOK
  <2>2. CASE owner[s] = c /\ s \in registered
    BY <1>3, <2>2 DEF OnDisconnect, Teardown, SessionsByConn, Endings,
                      TypeInv, TypeOK
  <2>3. CASE owner[s] = c /\ s \notin registered
    <3>1. proc[s] # "none" /\ reader[c] = "cleanup"
      BY <1>3 DEF OnDisconnect, Tables
    <3>2. CASE proc[s] = "reaped"
      BY <2>3, <3>2 DEF Tables, Reaped
    <3>3. CASE proc[s] \in {"running", "exited"}
      <4>1. ~BeingRegistered(s)
        BY <2>3, <3>1 DEF BeingRegistered
      <4>2. waiter[s] # "none"
        BY <3>3, <4>1 DEF Tables
      <4> QED BY <2>3, <4>2 DEF Tables, TypeInv, TypeOK
    <3> QED BY <3>1, <3>2, <3>3 DEF TypeInv, TypeOK
  <2> QED BY <2>1, <2>2, <2>3
<1>4. ASSUME NEW c \in Conns,
             Admit(c) \/ SpawnFails(c) \/ InputWritten(c) \/ ReadFails(c)
               \/ PeerLeaves(c)
      PROVE  NoOrphans'
  <2>1. \A d \in Conns : reader'[d] = "gone" => reader[d] = "gone"
    BY <1>4 DEF Admit, SpawnFails, InputWritten, ReadFails, PeerLeaves,
                TypeInv, TypeOK
  <2> QED BY <1>4, <2>1, OrphansUntouched
             DEF Admit, SpawnFails, InputWritten, ReadFails, PeerLeaves
<1>5. ASSUME NEW c \in Conns, NEW s \in Sessions, Input(c, s) PROVE NoOrphans'
  <2>1. \A d \in Conns : reader'[d] = "gone" => reader[d] = "gone"
    BY <1>5 DEF Input, TypeInv, TypeOK
  <2> QED BY <1>5, <2>1, OrphansUntouched DEF Input
<1>6. ASSUME NEW c \in Conns, NEW s \in Sessions, Close(c, s) PROVE NoOrphans'
  BY <1>6 DEF Close, Teardown, NoOrphans, TypeInv, TypeOK
<1>7. ASSUME NEW s \in Sessions, KillerStep(s) PROVE NoOrphans'
  BY <1>7 DEF KillerStep, KillerStops, KillerFires, KillerCloses, NoOrphans,
              TypeInv, TypeOK
<1>8. ASSUME NEW s \in Sessions, WaiterStep(s) PROVE NoOrphans'
  <2>1. /\ UNCHANGED <<reader, owner, killer>>
        /\ waiter[s] \notin {"publish", "done"} \/ waiter'[s] = "done"
        /\ \A t \in Sessions \ {s} : waiter'[t] = waiter[t]
    BY <1>8 DEF WaiterStep, Wait, CloseMaster, Unregister, PublishExit,
                TypeInv, TypeOK
  <2> QED BY <2>1 DEF NoOrphans
<1>9. ASSUME NEW s \in Sessions, OutputStep(s) \/ ChildStep(s) PROVE NoOrphans'
  BY <1>9, OrphansUntouched
     DEF OutputStep, Read, ReadEnds, Notify, PublishOutput, ChildStep,
         ChildReads, ChildWrites, ChildExits
<1> QED BY <1>1, <1>2, <1>3, <1>4, <1>5, <1>6, <1>7, <1>8, <1>9
           DEF Next, ReaderStep

-----------------------------------------------------------------------------
(* The cap.                                                                *)
LEMMA FiniteTable ==
    ASSUME TypeInv, NEW c \in Conns
    PROVE  /\ IsFiniteSet(SessionsByConn(c))
           /\ Cardinality(SessionsByConn(c)) \in Nat
<1>1. SessionsByConn(c) \in SUBSET Sessions
  BY DEF SessionsByConn, TypeInv, TypeOK
<1> QED BY <1>1, FS_Subset, FS_CardinalityType, PtyAssumption

(* A table that has not grown keeps under the cap if nobody was admitted.  *)
LEMMA CappedShrinks ==
    ASSUME TypeInv, Capped, registered' \subseteq registered, UNCHANGED owner,
           \A c \in Conns : Admitted(c)' => Admitted(c)
    PROVE  Capped'
<1> SUFFICES ASSUME NEW c \in Conns
             PROVE  /\ Cardinality(SessionsByConn(c)') <= MaxPTYsPerConn
                    /\ Admitted(c)' =>
                          Cardinality(SessionsByConn(c)') < MaxPTYsPerConn
  BY DEF Capped
<1>1. SessionsByConn(c)' \in SUBSET SessionsByConn(c)
  BY DEF SessionsByConn
<1>2. /\ Cardinality(SessionsByConn(c)') <= Cardinality(SessionsByConn(c))
      /\ Cardinality(SessionsByConn(c)') \in Nat
  BY <1>1, FiniteTable, FS_Subset, FS_CardinalityType
<1> QED BY <1>2, FiniteTable, PtyAssumption DEF Capped

LEMMA CappedStep ==
    ASSUME TypeInv, Tables, Capped, Next
    PROVE  Capped'
<1> USE DEF Goto, child, conns, output
<1>1. ASSUME NEW c \in Conns, Admit(c) PROVE Capped'
  <2>1. \A d \in Conns : SessionsByConn(d)' = SessionsByConn(d)
    BY <1>1 DEF Admit, SessionsByConn
  <2>2. \A d \in Conns \ {c} : Admitted(d)' => Admitted(d)
    BY <1>1 DEF Admit, Admitted, TypeInv, TypeOK
  <2>3. Cardinality(SessionsByConn(c)) < MaxPTYsPerConn
    BY <1>1 DEF Admit, CountByConn
  <2> QED BY <2>1, <2>2, <2>3 DEF Capped
<1>2. ASSUME NEW c \in Conns, Spawn(c) PROVE Capped'
  <2>1. \A d \in Conns : SessionsByConn(d)' = SessionsByConn(d)
    <3>1. PICK s \in Sessions : /\ proc[s] = "none"
                                 /\ owner' = [owner EXCEPT ![s] = c]
                                 /\ registered' = registered
      BY <1>2 DEF Spawn
    <3>2. s \notin registered
      BY <3>1 DEF Tables
    <3>3. \A t \in registered : owner'[t] = owner[t]
      BY <3>1, <3>2 DEF TypeInv, TypeOK
    <3> QED BY <3>1, <3>3 DEF SessionsByConn
  <2>2. \A d \in Conns : Admitted(d)' => Admitted(d)
    BY <1>2 DEF Spawn, Admitted, TypeInv, TypeOK
  <2> QED BY <2>1, <2>2 DEF Capped
<1>3. ASSUME NEW c \in Conns, Register(c) PROVE Capped'
  <2> SUFFICES ASSUME NEW d \in Conns
               PROVE  /\ Cardinality(SessionsByConn(d)') <= MaxPTYsPerConn
                      /\ Admitted(d)' =>
                            Cardinality(SessionsByConn(d)') < MaxPTYsPerConn
    BY DEF Capped
  <2>1. CASE d = c
    <3>1. SessionsByConn(c)' = SessionsByConn(c) \cup {target[c]}
      BY <1>3 DEF Register, SessionsByConn, Tables, TypeInv, TypeOK
    <3>2. Cardinality(SessionsByConn(c)')
            \in {Cardinality(SessionsByConn(c)), Cardinality(SessionsByConn(c)) + 1}
      <4>1. IsFiniteSet(SessionsByConn(c))
        BY FiniteTable
      <4> QED BY <3>1, <4>1, FS_AddElement, Zenon
    <3>4. Cardinality(SessionsByConn(c)) < MaxPTYsPerConn /\ ~Admitted(c)'
      BY <1>3 DEF Register, Capped, Admitted, TypeInv, TypeOK
    <3> QED BY <2>1, <3>2, <3>4, FiniteTable, PtyAssumption
  <2>2. CASE d # c
    <3>1. SessionsByConn(d)' = SessionsByConn(d)
      <4>1. owner[target[c]] # d
        BY <1>3, <2>2 DEF Register, Tables
      <4>2. registered' = registered \cup {target[c]} /\ owner' = owner
        BY <1>3 DEF Register
      <4> QED BY <4>1, <4>2 DEF SessionsByConn
    <3>2. Admitted(d)' => Admitted(d)
      BY <1>3, <2>2 DEF Register, Admitted, TypeInv, TypeOK
    <3> QED BY <3>1, <3>2 DEF Capped
  <2> QED BY <2>1, <2>2
<1>4. ASSUME NEW c \in Conns,
             SpawnFails(c) \/ InputWritten(c) \/ ReadFails(c) \/ OnDisconnect(c)
               \/ PeerLeaves(c)
      PROVE  Capped'
  <2>1. \A d \in Conns : Admitted(d)' => Admitted(d)
    BY <1>4 DEF SpawnFails, InputWritten, ReadFails, OnDisconnect, PeerLeaves,
                Admitted, TypeInv, TypeOK
  <2> QED BY <1>4, <2>1, CappedShrinks
             DEF SpawnFails, InputWritten, ReadFails, OnDisconnect, PeerLeaves
<1>5. ASSUME NEW c \in Conns, NEW s \in Sessions, Input(c, s) \/ Close(c, s)
      PROVE  Capped'
  <2>1. \A d \in Conns : Admitted(d)' => Admitted(d)
    BY <1>5 DEF Input, Close, Admitted, TypeInv, TypeOK
  <2> QED BY <1>5, <2>1, CappedShrinks DEF Input, Close
<1>6. ASSUME NEW s \in Sessions,
             KillerStep(s) \/ WaiterStep(s) \/ OutputStep(s) \/ ChildStep(s)
      PROVE  Capped'
  <2>1. /\ UNCHANGED <<reader, owner>>
        /\ registered' \subseteq registered
    BY <1>6 DEF KillerStep, KillerStops, KillerFires, KillerCloses, WaiterStep,
                Wait, CloseMaster, Unregister, PublishExit, OutputStep, Read,
                ReadEnds, Notify, PublishOutput, ChildStep, ChildReads,
                ChildWrites, ChildExits
  <2> QED BY <2>1, CappedShrinks DEF Admitted
<1> QED BY <1>1, <1>2, <1>3, <1>4, <1>5, <1>6 DEF Next, ReaderStep

-----------------------------------------------------------------------------
(* Sums.  Induction over Nat, as a statement about a set of numbers: the   *)
(* library's, over a predicate, cannot be instantiated here.               *)
LEMMA Least ==
    ASSUME NEW T, T \subseteq Nat, T # {}
    PROVE  \E n \in T : \A m \in T : ~(m < n)
<1>1. PICK R : R = {ss \in Nat \X Nat : ss[1] < ss[2]}
  OBVIOUS
<1>2. IsWellFoundedOn(OpToRel(<,Nat), Nat)
  BY NatLessThanWellFounded
<1>3. IsWellFoundedOn(R, Nat)
  BY <1>1, <1>2 DEF OpToRel
<1>4. \E x \in T : \A y \in T : ~(<<y, x>> \in R)
  BY <1>3, WFMin
<1> QED BY <1>1, <1>4

LEMMA Induction ==
    ASSUME NEW T, T \subseteq Nat, 0 \in T, \A n \in T : n + 1 \in T
    PROVE  T = Nat
<1> SUFFICES ASSUME Nat \ T # {} PROVE FALSE
  OBVIOUS
<1>1. PICK n \in Nat \ T : \A m \in Nat \ T : ~(m < n)
  BY Least
<1>2. n # 0 /\ n - 1 \in Nat
  BY <1>1
<1>3. n - 1 \in T
  BY <1>1, <1>2
<1> QED BY <1>1, <1>2, <1>3

(* SumFunction is defined from the totals of every subset of the domain,   *)
(* each taking an arbitrary element first.                                 *)
Picked(s) == CHOOSE x \in s : TRUE
Totals(f, F, iter) ==
  iter = [s \in F |-> IF s = {} THEN 0
                      ELSE f[Picked(s)] + iter[s \ {Picked(s)}]]

LEMMA SumIs == ASSUME NEW f, NEW g, Totals(f, SUBSET DOMAIN f, g)
  PROVE \E iter : Totals(f, SUBSET DOMAIN f, iter) /\ SumFunction(f) = iter[DOMAIN f]
<1>1. PICK iter : iter = CHOOSE h : Totals(f, SUBSET DOMAIN f, h)
  OBVIOUS
<1>2. Totals(f, SUBSET DOMAIN f, iter)
  BY <1>1
<1>3. SumFunction(f) = iter[DOMAIN f]
  BY <1>1 DEF SumFunction, SumFunctionOnSet, FoldFunctionOnSet, MapThenFoldSet, Totals, Picked
<1> QED BY <1>2, <1>3

(* Such totals exist: by induction on the size of the subset.              *)
LEMMA SubsetFacts ==
    ASSUME NEW S, IsFiniteSet(S), NEW s \in SUBSET S
    PROVE  /\ IsFiniteSet(s) /\ Cardinality(s) \in Nat
           /\ Cardinality(s) = 0 <=> s = {}
           /\ \A y \in s : Cardinality(s \ {y}) = Cardinality(s) - 1
<1>1. IsFiniteSet(s) /\ Cardinality(s) \in Nat
  BY FS_Subset, FS_CardinalityType
<1>2. Cardinality(s) = 0 <=> s = {}
  BY <1>1, FS_EmptySet
<1>3. \A y \in s : Cardinality(s \ {y}) = Cardinality(s) - 1
  BY <1>1, FS_RemoveElement
<1> QED BY <1>1, <1>2, <1>3

Small(S, k) == {s \in SUBSET S : Cardinality(s) <= k}

LEMMA SmallStep ==
    ASSUME NEW S, IsFiniteSet(S), NEW k \in Nat, NEW s \in Small(S, k + 1), s # {},
           NEW y \in s
    PROVE  s \ {y} \in Small(S, k)
BY SubsetFacts DEF Small

LEMMA PickedIn == ASSUME NEW s, s # {} PROVE Picked(s) \in s
BY DEF Picked

LEMMA TotalsExist ==
    ASSUME NEW f, NEW S, IsFiniteSet(S)
    PROVE  \E g : Totals(f, SUBSET S, g)
<1>1. PICK T : T = {k \in Nat : \E g : Totals(f, Small(S, k), g)}
  OBVIOUS
<1>2. 0 \in T
  <2>1. Small(S, 0) = {{}}
    <3>1. \A s \in SUBSET S : Cardinality(s) <= 0 <=> s = {}
      BY SubsetFacts
    <3> QED BY <3>1 DEF Small
  <2>2. Totals(f, Small(S, 0), [s \in Small(S, 0) |-> 0])
    BY <2>1 DEF Totals
  <2> QED BY <1>1, <2>2
<1>3. ASSUME NEW k \in T PROVE k + 1 \in T
  <2>1. PICK g : Totals(f, Small(S, k), g)
    BY <1>1
  <2>2. PICK h : h = [s \in Small(S, k + 1) |->
                       IF s = {} THEN 0 ELSE f[Picked(s)] + g[s \ {Picked(s)}]]
    OBVIOUS
  <2>3. k \in Nat
    BY <1>1
  <2>4. ASSUME NEW s \in Small(S, k + 1), s # {}
        PROVE  s \ {Picked(s)} \in Small(S, k)
    BY <2>3, <2>4, PickedIn, SmallStep
  <2>5. \A s \in Small(S, k) : s \in Small(S, k + 1)
    BY <2>3, SubsetFacts DEF Small
  <2>6. \A s \in Small(S, k) : h[s] = g[s]
    BY <2>1, <2>2, <2>5 DEF Totals
  <2>7. Totals(f, Small(S, k + 1), h)
    BY <2>2, <2>4, <2>6 DEF Totals
  <2> QED BY <1>1, <2>3, <2>7
<1>4. T = Nat
  <2>1. T \subseteq Nat
    BY <1>1
  <2> QED BY <1>2, <1>3, <2>1, Induction
<1>5. PICK n \in Nat : n = Cardinality(S)
  BY FS_CardinalityType
<1>6. Small(S, n) = SUBSET S
  BY <1>5, FS_Subset DEF Small
<1>7. n \in T
  BY <1>4
<1> QED BY <1>1, <1>6, <1>7

Takes(S, f, g) ==
    \A s \in SUBSET S : /\ g[s] \in Nat
                        /\ \A y \in s : g[s] = f[y] + g[s \ {y}]

(* Whatever element is taken first, the total is the same.                 *)
LEMMA TotalsTake ==
    ASSUME NEW S, IsFiniteSet(S), NEW f \in [S -> Nat], NEW g,
           Totals(f, SUBSET S, g)
    PROVE  Takes(S, f, g)
<1> DEFINE Fine(s) == g[s] \in Nat /\ \A y \in s : g[s] = f[y] + g[s \ {y}]
<1>1. PICK T : T = {k \in Nat : \A s \in Small(S, k) : Fine(s)}
  OBVIOUS
<1>2. \A s \in SUBSET S : g[s] = IF s = {} THEN 0
                                 ELSE f[Picked(s)] + g[s \ {Picked(s)}]
  BY DEF Totals
<1>3. 0 \in T
  <2>1. ASSUME NEW s \in Small(S, 0) PROVE Fine(s)
    <3>1. s = {}
      BY SubsetFacts DEF Small
    <3> QED BY <1>2, <3>1
  <2> QED BY <1>1, <2>1
<1>4. ASSUME NEW k \in T PROVE k + 1 \in T
  <2>1. k \in Nat /\ \A s \in Small(S, k) : Fine(s)
    BY <1>1
  <2>2. ASSUME NEW s \in Small(S, k + 1) PROVE Fine(s)
    <3>1. CASE s = {}
      BY <1>2, <3>1
    <3>2. CASE s # {}
      <4>1. PICK x \in s : x = Picked(s)
        BY <3>2, PickedIn
      <4>2. s \in SUBSET S
        BY DEF Small
      <4>3. g[s] = f[x] + g[s \ {x}]
        BY <1>2, <3>2, <4>1, <4>2
      <4>4. s \ {x} \in Small(S, k) /\ Fine(s \ {x})
        BY <2>1, <3>2, SmallStep
      <4>5. g[s] \in Nat
        BY <4>2, <4>3, <4>4
      <4>6. ASSUME NEW y \in s, y # x PROVE g[s] = f[y] + g[s \ {y}]
        <5>1. s \ {y} \in Small(S, k) /\ Fine(s \ {y})
          BY <2>1, <3>2, SmallStep
        <5>2. g[s \ {y}] = f[x] + g[(s \ {y}) \ {x}]
          BY <4>6, <5>1
        <5>3. g[s \ {x}] = f[y] + g[(s \ {x}) \ {y}]
          BY <4>4, <4>6
        <5>4. (s \ {x}) \ {y} = (s \ {y}) \ {x}
          OBVIOUS
        <5>5. PICK t \in Small(S, k) : t = s \ {y}
          BY <5>1
        <5>6. t \ {x} \in SUBSET S /\ Cardinality(t \ {x}) <= k
          <6>1. t \in SUBSET S /\ x \in t /\ Cardinality(t) <= k
            BY <4>6, <5>5 DEF Small
          <6>2. Cardinality(t) \in Nat /\ Cardinality(t \ {x}) = Cardinality(t) - 1
            BY <6>1, SubsetFacts
          <6> QED BY <2>1, <6>1, <6>2
        <5>7. g[(s \ {y}) \ {x}] \in Nat
          BY <2>1, <5>5, <5>6 DEF Small
        <5>8. PICK u \in Nat : u = g[(s \ {y}) \ {x}]
          BY <5>7
        <5>9. f[x] \in Nat /\ f[y] \in Nat
          BY <4>2
        <5>10. PICK v \in Nat, w \in Nat : v = f[x] /\ w = f[y]
          BY <5>9
        <5>11. g[s \ {y}] = v + u
          BY ONLY <5>2, <5>8, <5>10
        <5>12. g[s \ {x}] = w + u
          BY ONLY <5>3, <5>4, <5>8, <5>10
        <5>13. g[s] = v + g[s \ {x}]
          BY ONLY <4>3, <5>10
        <5>14. g[s] = v + (w + u) /\ f[y] + g[s \ {y}] = w + (v + u)
          BY ONLY <5>10, <5>11, <5>12, <5>13
        <5>15. v + (w + u) = w + (v + u)
          BY ONLY u \in Nat, v \in Nat, w \in Nat
        <5> QED BY ONLY <5>14, <5>15
      <4> QED BY <4>3, <4>5, <4>6
    <3> QED BY <3>1, <3>2
  <2> QED BY <1>1, <2>1, <2>2
<1>5. T = Nat
  <2>1. T \subseteq Nat
    BY <1>1
  <2> QED BY <1>3, <1>4, <2>1, Induction
<1>6. PICK n \in Nat : n = Cardinality(S)
  BY FS_CardinalityType
<1>7. Small(S, n) = SUBSET S
  BY <1>6, FS_Subset DEF Small
<1>8. n \in T
  BY <1>5
<1> HIDE DEF Fine
<1>9. \A s \in SUBSET S : Fine(s)
  BY <1>1, <1>7, <1>8
<1> QED BY <1>9 DEF Fine, Takes

(* A total depends on the values only.                                     *)
LEMMA TotalsUnique ==
    ASSUME NEW S, IsFiniteSet(S), NEW U, S \subseteq U,
           NEW f, NEW g, Totals(f, SUBSET S, g),
           NEW e, NEW h, Totals(e, SUBSET U, h),
           \A i \in S : e[i] = f[i]
    PROVE  \A s \in SUBSET S : h[s] = g[s]
<1>1. PICK T : T = {k \in Nat : \A s \in Small(S, k) : h[s] = g[s]}
  OBVIOUS
<1>2. 0 \in T
  <2>1. ASSUME NEW s \in Small(S, 0) PROVE h[s] = g[s]
    <3>1. s = {} /\ s \in SUBSET S /\ s \in SUBSET U
      BY SubsetFacts DEF Small
    <3> QED BY <3>1 DEF Totals
  <2> QED BY <1>1, <2>1
<1>3. ASSUME NEW k \in T PROVE k + 1 \in T
  <2>1. k \in Nat /\ \A s \in Small(S, k) : h[s] = g[s]
    BY <1>1
  <2>2. ASSUME NEW s \in Small(S, k + 1) PROVE h[s] = g[s]
    <3>1. CASE s = {}
      BY <3>1 DEF Totals
    <3>2. CASE s # {}
      <4>1. PICK x \in s : x = Picked(s)
        BY <3>2, PickedIn
      <4>2. s \in SUBSET S /\ s \in SUBSET U /\ x \in S
        BY DEF Small
      <4>3. g[s] = f[x] + g[s \ {x}] /\ h[s] = e[x] + h[s \ {x}]
        BY <3>2, <4>1, <4>2 DEF Totals
      <4>4. s \ {x} \in Small(S, k)
        BY <2>1, <3>2, SmallStep
      <4> QED BY <2>1, <4>2, <4>3, <4>4
    <3> QED BY <3>1, <3>2
  <2> QED BY <1>1, <2>1, <2>2
<1>4. T = Nat
  <2>1. T \subseteq Nat
    BY <1>1
  <2> QED BY <1>2, <1>3, <2>1, Induction
<1>5. PICK n \in Nat : n = Cardinality(S)
  BY FS_CardinalityType
<1>6. Small(S, n) = SUBSET S
  BY <1>5, FS_Subset DEF Small
<1>7. n \in T
  BY <1>4
<1> QED BY <1>1, <1>6, <1>7

(* The sum over no index is 0, and one more index adds its value.          *)
LEMMA SumEmpty == ASSUME NEW f, DOMAIN f = {} PROVE SumFunction(f) = 0
<1>1. PICK g : Totals(f, SUBSET DOMAIN f, g)
  BY FS_EmptySet, TotalsExist
<1>2. PICK iter : /\ Totals(f, SUBSET DOMAIN f, iter)
                  /\ SumFunction(f) = iter[DOMAIN f]
  BY <1>1, SumIs
<1> QED BY <1>2 DEF Totals

LEMMA SumAdd ==
    ASSUME NEW S, NEW U, IsFiniteSet(S), IsFiniteSet(U), S \subseteq U,
           NEW x \in U, U \ {x} = S,
           NEW f \in [S -> Nat], NEW e \in [U -> Nat], \A i \in S : e[i] = f[i]
    PROVE  SumFunction(e) = SumFunction(f) + e[x] /\ SumFunction(f) \in Nat
<1>1. PICK g : Totals(f, SUBSET S, g) /\ SumFunction(f) = g[S]
  <2>1. DOMAIN f = S
    OBVIOUS
  <2>2. \E g : Totals(f, SUBSET DOMAIN f, g)
    BY <2>1, TotalsExist
  <2> QED BY <2>1, <2>2, SumIs
<1>2. PICK h : Totals(e, SUBSET U, h) /\ SumFunction(e) = h[U]
  <2>1. DOMAIN e = U
    OBVIOUS
  <2>2. \E h : Totals(e, SUBSET DOMAIN e, h)
    BY <2>1, TotalsExist
  <2> QED BY <2>1, <2>2, SumIs
<1>3. S \in SUBSET S /\ U \in SUBSET U
  OBVIOUS
<1>4. Totals(f, SUBSET S, g) /\ Totals(e, SUBSET U, h)
  BY <1>1, <1>2
<1>5. h[S] = g[S]
  <2>1. \A s \in SUBSET S : h[s] = g[s]
    BY <1>4, TotalsUnique
  <2> QED BY <1>3, <2>1
<1>6. h[U] = e[x] + h[S]
  <2>1. Takes(U, e, h)
    BY <1>4, TotalsTake
  <2> QED BY <1>3, <2>1 DEF Takes
<1>7. g[S] \in Nat
  <2>1. Takes(S, f, g)
    BY <1>4, TotalsTake
  <2> QED BY <1>3, <2>1 DEF Takes
<1>8. PICK k \in Nat, l \in Nat : k = g[S] /\ l = e[x]
  BY <1>7
<1>9. SumFunction(f) = k /\ SumFunction(e) = l + k
  BY ONLY <1>1, <1>2, <1>5, <1>6, <1>8
<1> QED BY <1>8, <1>9

LEMMA SumNext ==
    ASSUME NEW n \in Nat, NEW f \in [1..n -> Nat], NEW e \in [1..(n + 1) -> Nat],
           \A i \in 1..n : e[i] = f[i]
    PROVE  SumFunction(e) = SumFunction(f) + e[n + 1] /\ SumFunction(f) \in Nat
<1>1. IsFiniteSet(1..n) /\ IsFiniteSet(1..(n + 1))
  <2>1. 1 \in Int /\ n \in Int /\ n + 1 \in Int
    OBVIOUS
  <2> QED BY <2>1, FS_Interval
<1>2. (1..(n + 1)) \ {n + 1} = 1..n /\ n + 1 \in 1..(n + 1) /\ 1..n \subseteq 1..(n + 1)
  OBVIOUS
<1>3. PICK S, U, x : S = 1..n /\ U = 1..(n + 1) /\ x = n + 1
  OBVIOUS
<1>4. /\ IsFiniteSet(S) /\ IsFiniteSet(U) /\ S \subseteq U /\ x \in U /\ U \ {x} = S
      /\ f \in [S -> Nat] /\ e \in [U -> Nat] /\ \A i \in S : e[i] = f[i]
  BY <1>1, <1>2, <1>3
<1>5. SumFunction(e) = SumFunction(f) + e[x] /\ SumFunction(f) \in Nat
  BY ONLY <1>4, SumAdd
<1> QED BY <1>3, <1>5

-----------------------------------------------------------------------------
(* The events announced as dropped.                                        *)
Counts(q) == [i \in DOMAIN q |-> q[i].count]

LEMMA AppendCounts ==
    ASSUME NEW q \in Seq(Events), NEW event \in Events
    PROVE  /\ SumFunction(Counts(Append(q, event)))
                = SumFunction(Counts(q)) + event.count
           /\ SumFunction(Counts(q)) \in Nat
<1>1. PICK n \in Nat : n = Len(q)
  OBVIOUS
<1>2. PICK r : r = Append(q, event)
  OBVIOUS
<1>3. /\ DOMAIN q = 1..n /\ DOMAIN r = 1..(n + 1)
      /\ \A i \in 1..n : q[i] \in Events /\ r[i] = q[i]
      /\ r[n + 1] = event
  BY <1>1, <1>2
<1>4. \A event1 \in Events : event1.count \in Nat
  BY DEF Events
<1>5. PICK f \in [1..n -> Nat] : f = Counts(q)
  BY <1>3, <1>4 DEF Counts
<1>6. PICK e \in [1..(n + 1) -> Nat] : e = Counts(r)
  <2>1. \A i \in 1..(n + 1) : r[i] \in Events
    BY <1>1, <1>3
  <2> QED BY <1>3, <1>4, <2>1 DEF Counts
<1>7. /\ \A i \in 1..n : e[i] = f[i]
      /\ e[n + 1] = event.count
  <2>1. \A i \in 1..n : f[i] = q[i].count
    BY <1>3, <1>5 DEF Counts
  <2>2. \A i \in 1..(n + 1) : e[i] = r[i].count
    BY <1>3, <1>6 DEF Counts
  <2>3. \A i \in 1..n : i \in 1..(n + 1)
    BY <1>1
  <2> QED BY <1>1, <1>3, <2>1, <2>2, <2>3
<1>8. SumFunction(e) = SumFunction(f) + e[n + 1] /\ SumFunction(f) \in Nat
  BY <1>7, SumNext
<1> QED BY <1>2, <1>5, <1>6, <1>7, <1>8

(* What Publish does to the announced count of each session.               *)
LEMMA AnnouncedPublished ==
    ASSUME TypeInv, NEW s \in Sessions, NEW event \in Events, Published(s, event)
    PROVE  /\ Announced(s) \in Nat
           /\ Announced(s)' = Announced(s) + event.count
           /\ \A t \in Sessions \ {s} : Announced(t)' = Announced(t)
<1>1. log \in [Sessions -> Seq(Events)]
  BY DEF TypeInv, TypeOK
<1>2. /\ log'[s] = Append(log[s], event)
      /\ \A t \in Sessions \ {s} : log'[t] = log[t]
  BY ONLY <1>1, Published(s, event), s \in Sessions DEF Published
<1>3. /\ Announced(s) = SumFunction(Counts(log[s]))
      /\ Announced(s)' = SumFunction(Counts(log'[s]))
  BY DEF Announced, Counts
<1>4. \A t \in Sessions \ {s} : Announced(t)' = Announced(t)
  BY <1>2 DEF Announced
<1> QED BY <1>1, <1>2, <1>3, <1>4, AppendCounts

LEMMA AnnouncedType ==
    ASSUME TypeInv, NEW s \in Sessions
    PROVE  Announced(s) \in Nat
<1>1. Event("exit", 0) \in Events /\ log[s] \in Seq(Events)
  BY DEF TypeInv, TypeOK, Event, Events
<1>2. SumFunction(Counts(log[s])) \in Nat
  BY <1>1, AppendCounts
<1> QED BY <1>2 DEF Announced, Counts

LEMMA AnnouncedUnpublished ==
    ASSUME Unpublished
    PROVE  \A t \in Sessions : Announced(t)' = Announced(t)
BY DEF Unpublished, Announced

LEMMA DropsUntouched ==
    ASSUME DropsCounted, UNCHANGED <<log, pending, refused>>
    PROVE  DropsCounted'
BY DEF DropsCounted, Announced

LEMMA DropsExit ==
    ASSUME TypeInv, DropsCounted, NEW s \in Sessions, PublishExit(s)
    PROVE  DropsCounted'
<1>1. CASE Published(s, Event("exit", 0))
  <2>1. Event("exit", 0) \in Events /\ Event("exit", 0).count = 0
    BY DEF Event, Events
  <2>2. \A t \in Sessions : Announced(t)' = Announced(t)
    BY <1>1, <2>1, AnnouncedPublished
  <2> QED BY <2>2 DEF PublishExit, output, DropsCounted
<1>2. CASE Unpublished
  BY <1>2, AnnouncedUnpublished DEF PublishExit, output, DropsCounted
<1> QED BY <1>1, <1>2 DEF PublishExit

(* A notification moves the pending count to the announced one.            *)
LEMMA DropsNotify ==
    ASSUME TypeInv, DropsCounted, NEW s \in Sessions, Notify(s)
    PROVE  DropsCounted'
<1>1. pending \in [Sessions -> Nat] /\ refused \in [Sessions -> Nat]
  BY DEF TypeInv, TypeOK
<1>2. CASE /\ Published(s, Event("dropped", pending[s]))
           /\ pending' = [pending EXCEPT ![s] = 0]
  <2>1. /\ Event("dropped", pending[s]) \in Events
        /\ Event("dropped", pending[s]).count = pending[s]
    BY <1>1 DEF Event, Events
  <2>2. /\ Announced(s) \in Nat
        /\ Announced(s)' = Announced(s) + pending[s]
        /\ \A t \in Sessions \ {s} : Announced(t)' = Announced(t)
    BY <1>2, <2>1, AnnouncedPublished
  <2>3. /\ pending'[s] = 0 /\ refused' = refused
        /\ \A t \in Sessions \ {s} : pending'[t] = pending[t]
    BY <1>1, <1>2 DEF Notify
  <2>4. Announced(s)' + pending'[s] = refused'[s]
    BY <1>1, <2>2, <2>3 DEF DropsCounted
  <2> QED BY <2>2, <2>3, <2>4 DEF DropsCounted
<1>3. CASE Unpublished /\ UNCHANGED pending
  BY <1>3, AnnouncedUnpublished DEF Notify, DropsCounted
<1> QED BY <1>2, <1>3 DEF Notify

(* A refused output event is pending until it is announced.                *)
LEMMA DropsOutput ==
    ASSUME TypeInv, DropsCounted, NEW s \in Sessions, PublishOutput(s)
    PROVE  DropsCounted'
<1>1. pending \in [Sessions -> Nat] /\ refused \in [Sessions -> Nat]
  BY DEF TypeInv, TypeOK
<1>2. CASE Published(s, Event("output", 0)) /\ UNCHANGED <<pending, refused>>
  <2>1. Event("output", 0) \in Events /\ Event("output", 0).count = 0
    BY DEF Event, Events
  <2>2. \A t \in Sessions : Announced(t)' = Announced(t)
    BY <1>2, <2>1, AnnouncedPublished
  <2> QED BY <1>2, <2>2 DEF DropsCounted
<1>3. CASE /\ Unpublished
           /\ pending' = [pending EXCEPT ![s] = @ + 1]
           /\ refused' = [refused EXCEPT ![s] = @ + 1]
  <2>1. \A t \in Sessions : Announced(t)' = Announced(t)
    BY <1>3, AnnouncedUnpublished
  <2>2. /\ pending'[s] = pending[s] + 1 /\ refused'[s] = refused[s] + 1
        /\ \A t \in Sessions \ {s} : /\ pending'[t] = pending[t]
                                      /\ refused'[t] = refused[t]
    BY <1>1, <1>3
  <2>3. Announced(s) + pending[s] = refused[s]
    BY DEF DropsCounted
  <2>4. Announced(s) + (pending[s] + 1) = refused[s] + 1
    BY <1>1, <2>3, AnnouncedType
  <2> QED BY <2>1, <2>2, <2>4 DEF DropsCounted
<1> QED BY <1>2, <1>3 DEF PublishOutput

LEMMA DropsStep ==
    ASSUME TypeInv, DropsCounted, Next
    PROVE  DropsCounted'
<1> USE DEF child, output
<1>1. ASSUME NEW c \in Conns, Admit(c) \/ ReaderStep(c) \/ PeerLeaves(c)
      PROVE  DropsCounted'
  BY <1>1, DropsUntouched
     DEF Admit, ReaderStep, PeerLeaves, Spawn, SpawnFails, Register,
         InputWritten, ReadFails, OnDisconnect
<1>2. ASSUME NEW c \in Conns, NEW s \in Sessions, Input(c, s) \/ Close(c, s)
      PROVE  DropsCounted'
  BY <1>2, DropsUntouched DEF Input, Close
<1>3. ASSUME NEW s \in Sessions, KillerStep(s) PROVE DropsCounted'
  BY <1>3, DropsUntouched DEF KillerStep, KillerStops, KillerFires, KillerCloses
<1>4. ASSUME NEW s \in Sessions, Wait(s) \/ CloseMaster(s) \/ Unregister(s)
      PROVE  DropsCounted'
  BY <1>4, DropsUntouched DEF Wait, CloseMaster, Unregister
<1>5. ASSUME NEW s \in Sessions, Read(s) \/ ReadEnds(s) PROVE DropsCounted'
  BY <1>5, DropsUntouched DEF Read, ReadEnds
<1>6. ASSUME NEW s \in Sessions, ChildStep(s) PROVE DropsCounted'
  BY <1>6, DropsUntouched DEF ChildStep, ChildReads, ChildWrites, ChildExits
<1> QED BY <1>1, <1>2, <1>3, <1>4, <1>5, <1>6, DropsExit, DropsNotify, DropsOutput
           DEF Next, WaiterStep, OutputStep

-----------------------------------------------------------------------------
(* The theorems.                                                           *)
LEMMA InductiveInit == Init => IInv
<1> SUFFICES ASSUME Init PROVE IInv
  OBVIOUS
<1>1. TypeInv
  BY PtyAssumption DEF Init, TypeInv, TypeOK
<1>2. Tables
  BY DEF Init, Tables, Reaped
<1>3. Endings /\ NoOrphans
  BY DEF Init, Endings, NoOrphans
<1>4. Capped
  <2>1. \A c \in Conns : SessionsByConn(c) = {} /\ ~Admitted(c)
    BY DEF Init, SessionsByConn, Admitted
  <2> QED BY <2>1, FS_EmptySet, PtyAssumption DEF Capped
<1> QED BY <1>1, <1>2, <1>3, <1>4 DEF IInv

LEMMA InductiveStep == IInv /\ [Next]_vars => IInv'
<1> SUFFICES ASSUME IInv, [Next]_vars PROVE IInv'
  OBVIOUS
<1> USE DEF IInv
<1>1. CASE Next
  <2>1. TypeInv'
    BY <1>1, TypeReader, TypeRequest, TypeKiller, TypeWaiter, TypeOutput,
       TypeChild DEF Next
  <2>2. Tables'
    BY <1>1, <2>1, TablesReader, TablesRequest, TablesSession DEF Next
  <2> QED BY <1>1, <2>1, <2>2, EndingsStep, NoOrphansStep, CappedStep
<1>2. CASE UNCHANGED vars
  <2> USE <1>2 DEF vars, conns, child, output
  <2>1. TypeInv'
    BY DEF TypeInv, TypeOK
  <2>2. Tables' /\ Endings'
    BY TablesUntouched, EndingsUntouched
  <2>3. NoOrphans'
    BY OrphansUntouched
  <2>4. Capped'
    BY CappedShrinks DEF Admitted
  <2> QED BY <2>1, <2>2, <2>3, <2>4
<1> QED BY <1>1, <1>2

THEOREM Inductive == Spec => []IInv
<1> QED BY InductiveInit, InductiveStep, PTL DEF Spec

(* Every variable keeps its type.                                          *)
THEOREM TypeCorrect == Spec => []TypeOK
<1>1. IInv => TypeOK
  BY DEF IInv, TypeInv
<1> QED BY Inductive, <1>1, PTL

(* No shell outlives the connection that opened it without somebody on the *)
(* way to kill it.                                                         *)
THEOREM ShellsAreNotOrphaned == Spec => []NoOrphans
<1>1. IInv => NoOrphans
  BY DEF IInv
<1> QED BY Inductive, <1>1, PTL

(* pty.exit is the last word on a session: published once, of a session    *)
(* that has left the table, its child reaped.                              *)
THEOREM ExitsAreFinal == Spec => []ExitIsFinal
<1>1. IInv => ExitIsFinal
  <2> SUFFICES ASSUME IInv, NEW s \in Sessions
               PROVE  LET exits == {i \in DOMAIN log[s] : log[s][i].kind = "exit"}
                      IN  /\ Cardinality(exits) <= 1
                          /\ exits # {} => /\ s \notin registered
                                           /\ proc[s] = "reaped"
    BY DEF ExitIsFinal
  <2> DEFINE exits == {i \in DOMAIN log[s] : log[s][i].kind = "exit"}
  <2>1. Cardinality(exits) <= 1
    <3>1. CASE exits = {}
      BY <3>1, FS_EmptySet
    <3>2. CASE exits # {}
      <4>1. PICK i : i \in exits
        BY <3>2
      <4>2. exits = {i}
        BY <4>1 DEF IInv, Endings
      <4>3. Cardinality({i}) = 1
        BY FS_Singleton
      <4>4. Cardinality(exits) = 1
        BY <4>2, <4>3, Zenon
      <4> HIDE DEF exits
      <4> QED BY <4>4
    <3> QED BY <3>1, <3>2
  <2>2. ASSUME exits # {} PROVE s \notin registered /\ proc[s] = "reaped"
    <3>1. waiter[s] = "done"
      BY <2>2 DEF IInv, Endings
    <3> QED BY <3>1 DEF IInv, Tables, Reaped
  <2> QED BY <2>1, <2>2
<1> QED BY Inductive, <1>1, PTL

(* No connection ever has more children than the cap allows, although the  *)
(* cap is checked in one critical section, the child spawned outside any   *)
(* and the session registered in another: a connection handles one request *)
(* at a time, and a child leaves the table only once it is reaped.         *)
THEOREM CapIsKept == Spec => []CapHolds
<1>1. IInv => CapHolds
  <2> SUFFICES ASSUME IInv, NEW c \in Conns
               PROVE  Cardinality(Live(c)) <= MaxPTYsPerConn
    BY DEF CapHolds
  <2> USE DEF IInv
  <2>a. ASSUME NEW s \in Live(c)
        PROVE  \/ s \in SessionsByConn(c)
               \/ reader[c] = "register" /\ s = target[c]
    <3>1. /\ s \in Sessions /\ owner[s] = c
          /\ proc[s] \in {"running", "exited"}
      BY DEF Live
    <3>2. waiter[s] \in {"none", "wait"}
      BY <3>1 DEF Tables, Reaped, TypeInv, TypeOK
    <3>3. CASE waiter[s] = "wait"
      BY <3>1, <3>3 DEF Tables, SessionsByConn
    <3>4. CASE waiter[s] = "none"
      BY <3>1, <3>4 DEF Tables, BeingRegistered
    <3> QED BY <3>2, <3>3, <3>4
  <2>1. CASE reader[c] = "register"
    <3>1. Live(c) \in SUBSET (SessionsByConn(c) \cup {target[c]})
      BY <2>a
    <3>2. /\ IsFiniteSet(SessionsByConn(c) \cup {target[c]})
          /\ Cardinality(SessionsByConn(c) \cup {target[c]})
                \in {Cardinality(SessionsByConn(c)),
                     Cardinality(SessionsByConn(c)) + 1}
      <4>1. IsFiniteSet(SessionsByConn(c))
        BY FiniteTable
      <4> QED BY <4>1, FS_AddElement, Zenon
    <3>3. Cardinality(SessionsByConn(c)) < MaxPTYsPerConn
      BY <2>1 DEF Capped, Admitted
    <3>4. /\ Cardinality(Live(c))
                <= Cardinality(SessionsByConn(c) \cup {target[c]})
          /\ Cardinality(Live(c)) \in Nat
          /\ Cardinality(SessionsByConn(c) \cup {target[c]}) \in Nat
      BY <3>1, <3>2, FS_Subset, FS_CardinalityType
    <3> QED BY <3>2, <3>3, <3>4, FiniteTable, PtyAssumption
  <2>2. CASE reader[c] # "register"
    <3>1. Live(c) \in SUBSET SessionsByConn(c)
      BY <2>2, <2>a
    <3>2. /\ Cardinality(Live(c)) <= Cardinality(SessionsByConn(c))
          /\ Cardinality(Live(c)) \in Nat
      BY <3>1, FiniteTable, FS_Subset, FS_CardinalityType
    <3> QED BY <3>2, FiniteTable, PtyAssumption DEF Capped
  <2> QED BY <2>1, <2>2
<1> QED BY Inductive, <1>1, PTL

(* The client is never lied to about dropped output: at every moment the   *)
(* drops announced by pty.output_dropped and those still to be announced   *)
(* add up to the output events refused.                                    *)
THEOREM DropsAreCounted == Spec => []DropsCounted
<1>1. Init => DropsCounted
  <2> SUFFICES ASSUME Init, NEW s \in Sessions
               PROVE  Announced(s) + pending[s] = refused[s]
    BY DEF DropsCounted
  <2>1. DOMAIN log[s] = {} /\ pending[s] = 0 /\ refused[s] = 0
    BY DEF Init
  <2>2. DOMAIN Counts(log[s]) = {} /\ Announced(s) = SumFunction(Counts(log[s]))
    BY <2>1 DEF Counts, Announced
  <2>3. Announced(s) = 0
    BY <2>2, SumEmpty
  <2> QED BY <2>1, <2>3
<1>2. IInv /\ DropsCounted /\ [Next]_vars => DropsCounted'
  <2>1. IInv /\ DropsCounted /\ Next => DropsCounted'
    BY DropsStep DEF IInv
  <2>2. DropsCounted /\ UNCHANGED vars => DropsCounted'
    BY DropsUntouched DEF vars, output
  <2> QED BY <2>1, <2>2
<1> QED BY Inductive, <1>1, <1>2, PTL DEF Spec
=============================================================================
