-------------------------------- MODULE Broker --------------------------------
(***************************************************************************)
(* The backend's workspace lifecycle and session broker                    *)
(* (backend/services/workspace_lifecycle.py, fly_orchestrator.py,          *)
(* session_broker.py, api/workspaces.py, api/sessions.py).                 *)
(*                                                                         *)
(* Each HTTP request is a coroutine in a database transaction of its own   *)
(* that commits when the route returns; between two awaits any other       *)
(* request may run.  What a request did at Fly is not undone when it dies: *)
(* a lost response, an error, a failed commit or a restart of the process  *)
(* all end a request between two of its steps.                             *)
(***************************************************************************)
EXTENDS Naturals, FiniteSets

CONSTANTS
    Requests,     \* HTTP requests
    Users,        \* Supabase subjects
    MaxIds,       \* bound: UUIDs drawn
    MaxFailures   \* bound: requests that die half-way

ASSUME BrokerAssumption == MaxIds \in Nat /\ MaxFailures \in Nat

Ids == 1..MaxIds
NoId == 0

VARIABLES
    pc,        \* control point of each request
    user,      \* who makes it
    row,       \* the workspace row it read
    machine,   \* the machine it created or is to destroy
    outcome,   \* how it ended
    rows,      \* the committed table of workspaces
    up,        \* the machines that exist at Fly, by the wid they carry
    drawn,     \* how many UUIDs were drawn
    tokens,    \* the session tokens minted
    failures

vars == <<pc, user, row, machine, outcome, rows, up, drawn, tokens, failures>>
locals == <<user, row, machine>>

-----------------------------------------------------------------------------
Init ==
    /\ pc = [r \in Requests |-> "new"] /\ user \in [Requests -> Users]
    /\ row = [r \in Requests |-> NoId] /\ machine = [r \in Requests |-> NoId]
    /\ outcome = [r \in Requests |-> "none"]
    /\ rows = {} /\ up = {} /\ drawn = 0 /\ tokens = {} /\ failures = 0

(* uuid.uuid4(): an identifier nobody has.                                 *)
uuid4 == drawn + 1
Draw == drawn < MaxIds /\ drawn' = uuid4

(* Row-level security: a user reads and deletes the rows he owns.          *)
Visible(r) == {w \in rows : w.owner = user[r]}

Finish(r, code) ==
    /\ pc' = [pc EXCEPT ![r] = "done"]
    /\ outcome' = [outcome EXCEPT ![r] = code]
Step(r, next) == pc' = [pc EXCEPT ![r] = next] /\ UNCHANGED outcome

-----------------------------------------------------------------------------
UserUnlocked(r) == \A q \in Requests : pc[q] = "insert" => user[q] # user[r]

(* Mutant of CreateMachine: a machine that is up may be used again.        *)
ReuseMachine(r) ==
    /\ pc[r] = "new" /\ Draw
    /\ \E m \in up \cup {uuid4} :
          up' = up \cup {m} /\ machine' = [machine EXCEPT ![r] = m]
    /\ Step(r, "insert")
    /\ UNCHANGED <<user, row, rows, tokens, failures>>

(* POST /workspaces: upserting the user locks his row until the request    *)
(* ends; the machine first, under a wid of its own ...                     *)
CreateMachine(r) ==
    /\ pc[r] = "new" /\ UserUnlocked(r) /\ Draw
    /\ up' = up \cup {uuid4}
    /\ machine' = [machine EXCEPT ![r] = uuid4]
    /\ Step(r, "insert")
    /\ UNCHANGED <<user, row, rows, tokens, failures>>

(* Mutant of InsertRow: the machine's id is not stored.                    *)
InsertBareRow(r) ==
    /\ pc[r] = "insert" /\ Draw
    /\ rows' = rows \cup {[id |-> uuid4, owner |-> user[r], machine |-> NoId]}
    /\ Finish(r, "created")
    /\ UNCHANGED <<locals, up, tokens, failures>>

(* ... then the row, under another.                                        *)
InsertRow(r) ==
    /\ pc[r] = "insert" /\ Draw
    /\ rows' = rows \cup {[id |-> uuid4, owner |-> user[r],
                           machine |-> machine[r]]}
    /\ Finish(r, "created")
    /\ UNCHANGED <<locals, up, tokens, failures>>

(* DELETE /workspaces/:id: the row is read, its machine destroyed, the row *)
(* deleted.  Fly answers 404 for a machine that is gone, and               *)
(* raise_for_status makes an error of it.                                  *)
ReadRow(r) ==
    /\ pc[r] = "new"
    /\ \E w \in Visible(r) :
          /\ row' = [row EXCEPT ![r] = w.id]
          /\ machine' = [machine EXCEPT ![r] = w.machine]
    /\ Step(r, "destroy")
    /\ UNCHANGED <<user, rows, up, drawn, tokens, failures>>

(* Mutant of DestroyMachine: the call to Fly is left out.                  *)
SkipDestroy(r) ==
    /\ pc[r] = "destroy" /\ Step(r, "delete")
    /\ UNCHANGED <<locals, rows, up, drawn, tokens, failures>>

DestroyMachine(r) ==
    /\ pc[r] = "destroy"
    /\ up' = up \ {machine[r]}
    /\ IF machine[r] \in up THEN Step(r, "delete") ELSE Finish(r, "error")
    /\ UNCHANGED <<locals, rows, drawn, tokens, failures>>

DeleteRow(r) ==
    /\ pc[r] = "delete"
    /\ LET gone == {w \in Visible(r) : w.id = row[r]}
       IN  /\ rows' = rows \ gone
           /\ Finish(r, IF gone = {} THEN "not_found" ELSE "deleted")
    /\ UNCHANGED <<locals, up, drawn, tokens, failures>>

(* POST /workspaces/:id/sessions: the token names the row's id.            *)
CreateSession(r) ==
    /\ pc[r] = "new"
    /\ \E w \in Visible(r) :
          tokens' = tokens \cup {[sub |-> user[r], wid |-> w.id]}
    /\ Finish(r, "created")
    /\ UNCHANGED <<locals, rows, up, drawn, failures>>

(* A row that is not there, or not the user's.                             *)
NotFound(r) ==
    /\ pc[r] = "new"
    /\ Finish(r, "not_found")
    /\ UNCHANGED <<locals, rows, up, drawn, tokens, failures>>

Die(r) ==
    /\ pc[r] \notin {"new", "done"}
    /\ failures < MaxFailures /\ failures' = failures + 1
    /\ Finish(r, "error")
    /\ UNCHANGED <<locals, rows, up, drawn, tokens>>

-----------------------------------------------------------------------------
Next ==
    \E r \in Requests :
        \/ CreateMachine(r) \/ InsertRow(r)
        \/ ReadRow(r) \/ DestroyMachine(r) \/ DeleteRow(r)
        \/ CreateSession(r) \/ NotFound(r)
        \/ Die(r)

Spec == Init /\ [][Next]_vars

-----------------------------------------------------------------------------
TypeOK ==
    /\ pc \in [Requests -> {"new", "insert", "destroy", "delete", "done"}]
    /\ user \in [Requests -> Users]
    /\ row \in [Requests -> Ids \cup {NoId}]
    /\ machine \in [Requests -> Ids \cup {NoId}]
    /\ outcome \in [Requests -> {"none", "created", "deleted", "not_found",
                                 "error"}]
    /\ rows \subseteq [id : Ids, owner : Users, machine : Ids]
    /\ up \subseteq Ids /\ drawn \in 0..MaxIds
    /\ tokens \subseteq [sub : Users, wid : Ids]
    /\ failures \in 0..MaxFailures

(* A machine that runs, and is paid for, that no workspace row and no      *)
(* request about to insert one knows of.                                   *)
Orphans ==
    {m \in up : /\ \A w \in rows : w.machine # m
               /\ \A r \in Requests : pc[r] = "insert" => machine[r] # m}

(* A workspace that is listed though its machine is gone and no request is *)
(* about to delete its row.                                                *)
Ghosts ==
    {w \in rows : /\ w.machine \notin up
                 /\ \A r \in Requests : pc[r] = "delete" => row[r] # w.id}

(* Rows and machines drift apart only when a request dies half-way, and by *)
(* one for each that does: interleaved requests, repeated deletions and    *)
(* errors answered by Fly leave none.                                      *)
DriftIsOnePerDeath == Cardinality(Orphans) + Cardinality(Ghosts) <= failures

(* A machine belongs to one workspace, whatever requests interleave or     *)
(* die: deleting one workspace never stops another's machine.              *)
MachinesUnshared ==
    /\ \A v, w \in rows : v.machine = w.machine => v = w
    /\ \A r \in Requests :
          pc[r] \in {"insert", "destroy"} =>
              \A w \in rows : w.machine = machine[r] => w.id = row[r]
=============================================================================
