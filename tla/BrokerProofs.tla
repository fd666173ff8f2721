----------------------------- MODULE BrokerProofs -----------------------------
(***************************************************************************)
(* Theorems about Broker, for any requests of any users, however many of   *)
(* them die half-way.                                                      *)
(***************************************************************************)
EXTENDS Broker, FiniteSetTheorems, TLAPS

-----------------------------------------------------------------------------
(* The inductive invariant.  Every identifier in use has been drawn; the   *)
(* rows are finitely many and have identifiers and machines of their own;  *)
Drawn ==
    /\ \A m \in up : m <= drawn
    /\ \A w \in rows : w.id <= drawn /\ w.machine <= drawn
    /\ \A r \in Requests : machine[r] <= drawn /\ row[r] <= drawn

Distinct ==
    /\ IsFiniteSet(rows)
    /\ \A v, w \in rows : v.id = w.id \/ v.machine = w.machine => v = w

(* a request about to insert a row has a machine that is up and that       *)
(* nobody else knows of;                                                   *)
Inserting ==
    \A r \in Requests : pc[r] = "insert" =>
        /\ machine[r] \in up
        /\ \A w \in rows : w.machine # machine[r]
        /\ \A q \in Requests :
              /\ pc[q] = "insert" /\ machine[q] = machine[r] => q = r
              /\ pc[q] \in {"destroy", "delete"} => machine[q] # machine[r]

(* and one that deletes knows the row of its machine, as long as there is  *)
(* one, and deletes it after the machine.                                  *)
Deleting ==
    \A r \in Requests : pc[r] \in {"destroy", "delete"} =>
        /\ \A w \in rows :
              /\ w.machine = machine[r] <=> w.id = row[r]
              /\ w.id = row[r] => w.owner = user[r]
        /\ pc[r] = "delete" => machine[r] \notin up

Inv == TypeOK /\ Drawn /\ Distinct /\ Inserting /\ Deleting
IInv == Inv /\ DriftIsOnePerDeath

RequestStep(r) ==
    CreateMachine(r) \/ InsertRow(r) \/ ReadRow(r) \/ DestroyMachine(r)
      \/ DeleteRow(r) \/ CreateSession(r) \/ NotFound(r) \/ Die(r)

-----------------------------------------------------------------------------
(* Each step preserves it.                                                 *)
LEMMA CreateMachineInv ==
    ASSUME Inv, NEW r \in Requests, CreateMachine(r)
    PROVE  Inv'
<1> USE BrokerAssumption DEF Inv, CreateMachine, Step, Draw, uuid4, Ids, NoId
<1>1. TypeOK'
  BY DEF TypeOK
<1>2. Drawn'
  BY DEF TypeOK, Drawn
<1>3. Distinct'
  BY DEF Distinct
<1>4. Inserting'
  BY DEF TypeOK, Drawn, Inserting
<1>5. Deleting'
  BY DEF TypeOK, Drawn, Deleting
<1> QED BY <1>1, <1>2, <1>3, <1>4, <1>5

LEMMA InsertRowInv ==
    ASSUME Inv, NEW r \in Requests, InsertRow(r)
    PROVE  Inv'
<1> USE BrokerAssumption DEF Inv, InsertRow, Finish, Draw, uuid4, Ids, NoId, locals
<1> DEFINE new == [id |-> uuid4, owner |-> user[r], machine |-> machine[r]]
<1>a. new \in [id : Ids, owner : Users, machine : Ids] /\ machine[r] \in up
  BY DEF TypeOK, Inserting
<1>1. TypeOK'
  BY <1>a DEF TypeOK
<1>2. Drawn'
  BY DEF TypeOK, Drawn
<1>3. Distinct'
  <2>1. IsFiniteSet(rows')
    BY FS_AddElement DEF Distinct
  <2>2. \A w \in rows : w.id # new.id /\ w.machine # new.machine
    BY DEF TypeOK, Drawn, Inserting
  <2> QED BY <2>1, <2>2 DEF Distinct
<1>4. Inserting'
  BY DEF TypeOK, Inserting
<1>5. Deleting'
  BY DEF TypeOK, Drawn, Inserting, Deleting
<1> QED BY <1>1, <1>2, <1>3, <1>4, <1>5

LEMMA ReadRowInv ==
    ASSUME Inv, NEW r \in Requests, ReadRow(r)
    PROVE  Inv'
<1> USE DEF Inv, ReadRow, Step, Visible
<1>1. TypeOK'
  BY DEF TypeOK
<1>2. Drawn'
  BY DEF TypeOK, Drawn
<1>3. Distinct'
  BY DEF Distinct
<1>4. Inserting'
  BY DEF TypeOK, Inserting
<1>5. Deleting'
  BY DEF TypeOK, Distinct, Deleting
<1> QED BY <1>1, <1>2, <1>3, <1>4, <1>5

LEMMA DestroyMachineInv ==
    ASSUME Inv, NEW r \in Requests, DestroyMachine(r)
    PROVE  Inv'
<1> USE DEF Inv, DestroyMachine, Step, Finish, locals
<1>1. TypeOK'
  BY DEF TypeOK
<1>2. Drawn'
  BY DEF TypeOK, Drawn
<1>3. Distinct'
  BY DEF Distinct
<1>4. Inserting'
  BY DEF TypeOK, Inserting
<1>5. Deleting'
  BY DEF TypeOK, Deleting
<1> QED BY <1>1, <1>2, <1>3, <1>4, <1>5

LEMMA DeleteRowInv ==
    ASSUME Inv, NEW r \in Requests, DeleteRow(r)
    PROVE  Inv'
<1> USE DEF Inv, DeleteRow, Finish, locals
<1>0. rows' \in SUBSET rows
  OBVIOUS
<1>1. TypeOK'
  BY <1>0 DEF TypeOK
<1>2. Drawn'
  BY <1>0 DEF TypeOK, Drawn
<1>3. Distinct'
  BY <1>0, FS_Subset DEF Distinct
<1>4. Inserting'
  BY <1>0 DEF TypeOK, Inserting
<1>5. Deleting'
  BY <1>0 DEF TypeOK, Deleting
<1> QED BY <1>1, <1>2, <1>3, <1>4, <1>5

LEMMA OtherInv ==
    ASSUME Inv, NEW r \in Requests, CreateSession(r) \/ NotFound(r) \/ Die(r)
    PROVE  Inv'
<1> USE DEF Inv, CreateSession, NotFound, Die, Finish, locals, Visible
<1>1. TypeOK'
  BY BrokerAssumption DEF TypeOK
<1>2. Drawn'
  BY DEF TypeOK, Drawn
<1>3. Distinct'
  BY DEF Distinct
<1>4. Inserting'
  BY DEF TypeOK, Inserting
<1>5. Deleting'
  BY DEF TypeOK, Deleting
<1> QED BY <1>1, <1>2, <1>3, <1>4, <1>5

LEMMA RequestInv ==
    ASSUME Inv, NEW r \in Requests, RequestStep(r)
    PROVE  Inv'
BY CreateMachineInv, InsertRowInv, ReadRowInv, DestroyMachineInv, DeleteRowInv,
   OtherInv DEF RequestStep

-----------------------------------------------------------------------------
(* Drift: only a death adds an orphan or a ghost, and no more than one.    *)
LEMMA FiniteDrift ==
    Inv => /\ IsFiniteSet(Orphans) /\ Cardinality(Orphans) \in Nat
           /\ IsFiniteSet(Ghosts) /\ Cardinality(Ghosts) \in Nat
<1>1. IsFiniteSet(Ids)
  BY FS_Interval, BrokerAssumption DEF Ids
<1>2. Inv => Orphans \in SUBSET Ids /\ Ghosts \in SUBSET rows
  BY DEF Inv, TypeOK, Orphans, Ghosts
<1> QED BY <1>1, <1>2, FS_Subset, FS_CardinalityType DEF Inv, Distinct

LEMMA NoNewDrift ==
    ASSUME Inv, Inv', NEW r \in Requests, RequestStep(r), ~Die(r)
    PROVE  /\ Orphans' \in SUBSET Orphans /\ Ghosts' \in SUBSET Ghosts
           /\ UNCHANGED failures
<1> USE DEF Inv, Orphans, Ghosts
<1>1. CASE CreateMachine(r)
  BY <1>1 DEF CreateMachine, Step, Draw, uuid4, TypeOK, Drawn, Ids
<1>2. CASE InsertRow(r)
  <2> DEFINE new == [id |-> uuid4, owner |-> user[r], machine |-> machine[r]]
  <2>1. /\ rows' = rows \cup {new} /\ new.machine = machine[r]
        /\ machine[r] \in up /\ pc' = [pc EXCEPT ![r] = "done"]
        /\ UNCHANGED <<machine, row, up, failures>>
    BY <1>2 DEF InsertRow, Finish, locals, Inserting
  <2> HIDE DEF new
  <2>2. Orphans' \in SUBSET Orphans
    BY <2>1 DEF TypeOK
  <2>3. Ghosts' \in SUBSET Ghosts
    BY <2>1, <1>2 DEF TypeOK, InsertRow
  <2> QED BY <2>1, <2>2, <2>3
<1>3. CASE ReadRow(r)
  BY <1>3 DEF ReadRow, Step, TypeOK
<1>4. CASE DestroyMachine(r)
  <2> USE <1>4 DEF DestroyMachine, Step, Finish, locals
  <2>1. Orphans' \in SUBSET Orphans
    BY DEF TypeOK
  <2>2. ASSUME NEW w \in Ghosts'
        PROVE  w \in Ghosts
    <3>1. w \in rows /\ w.machine \notin up'
          /\ \A q \in Requests : pc'[q] = "delete" => row[q] # w.id
      OBVIOUS
    <3>2. \A q \in Requests : pc[q] = "delete" => pc'[q] = "delete"
      BY DEF TypeOK
    <3>3. w.machine # machine[r] \/ machine[r] \notin up
      <4>1. SUFFICES ASSUME w.machine = machine[r], machine[r] \in up
                     PROVE  FALSE
        OBVIOUS
      <4>2. pc'[r] = "delete" /\ row[r] = w.id
        BY <3>1, <4>1 DEF TypeOK, Deleting
      <4> QED BY <3>1, <4>2
    <3> QED BY <3>1, <3>2, <3>3
  <2> QED BY <2>1, <2>2
<1>5. CASE DeleteRow(r)
  BY <1>5 DEF DeleteRow, Finish, locals, Visible, TypeOK, Deleting
<1>6. CASE CreateSession(r) \/ NotFound(r)
  BY <1>6 DEF CreateSession, NotFound, Finish, locals, TypeOK
<1> QED BY <1>1, <1>2, <1>3, <1>4, <1>5, <1>6 DEF RequestStep

LEMMA DeathDrift ==
    ASSUME Inv, Inv', NEW r \in Requests, Die(r)
    PROVE  \/ /\ Orphans' \in SUBSET (Orphans \cup {machine[r]})
              /\ Ghosts' \in SUBSET Ghosts
           \/ /\ Orphans' \in SUBSET Orphans
              /\ \E g : Ghosts' \in SUBSET (Ghosts \cup {g})
<1> USE DEF Inv, Orphans, Ghosts, Die, Finish, locals
<1>1. CASE pc[r] = "delete"
  <2>1. Orphans' \in SUBSET Orphans
    BY <1>1 DEF TypeOK
  <2>2. PICK g : \A w \in rows : w.id = row[r] => w = g
    BY DEF Distinct
  <2>3. Ghosts' \in SUBSET (Ghosts \cup {g})
    BY <1>1, <2>2 DEF TypeOK
  <2> QED BY <2>1, <2>3
<1>2. CASE pc[r] # "delete"
  <2>1. Ghosts' \in SUBSET Ghosts
    BY <1>2 DEF TypeOK
  <2>2. Orphans' \in SUBSET (Orphans \cup {machine[r]})
    BY <1>2 DEF TypeOK
  <2> QED BY <2>1, <2>2
<1> QED BY <1>1, <1>2

(* A finite set that gains at most one element.                            *)
LEMMA AtMostOneMore ==
    ASSUME NEW S, NEW T, NEW x, IsFiniteSet(S), T \in SUBSET (S \cup {x})
    PROVE  Cardinality(T) <= Cardinality(S) + 1
<1>1. IsFiniteSet(S \cup {x}) /\ Cardinality(S) \in Nat
  BY FS_AddElement, FS_CardinalityType
<1>2. Cardinality(S \cup {x}) <= Cardinality(S) + 1
  BY <1>1, FS_AddElement
<1>3. IsFiniteSet(T) /\ Cardinality(T) <= Cardinality(S \cup {x})
  BY <1>1, FS_Subset
<1> QED BY <1>1, <1>2, <1>3, FS_CardinalityType

LEMMA DriftStep ==
    ASSUME IInv, Inv', NEW r \in Requests, RequestStep(r)
    PROVE  DriftIsOnePerDeath'
<1>1. /\ Cardinality(Orphans) + Cardinality(Ghosts) <= failures
      /\ failures \in Nat /\ failures' \in Nat
  BY BrokerAssumption DEF IInv, Inv, TypeOK, DriftIsOnePerDeath
<1>2. /\ IsFiniteSet(Orphans) /\ Cardinality(Orphans) \in Nat
      /\ IsFiniteSet(Ghosts) /\ Cardinality(Ghosts) \in Nat
  BY FiniteDrift DEF IInv
<1>3. (/\ IsFiniteSet(Orphans) /\ Cardinality(Orphans) \in Nat
       /\ IsFiniteSet(Ghosts) /\ Cardinality(Ghosts) \in Nat)'
  BY FiniteDrift, PTL
<1>4. CASE ~Die(r)
  <2>1. /\ Orphans' \in SUBSET Orphans /\ Ghosts' \in SUBSET Ghosts
        /\ UNCHANGED failures
    BY <1>4, NoNewDrift DEF IInv
  <2>2. /\ Cardinality(Orphans') <= Cardinality(Orphans)
        /\ Cardinality(Ghosts') <= Cardinality(Ghosts)
    BY <1>2, <2>1, FS_Subset
  <2> QED BY <1>1, <1>2, <1>3, <2>1, <2>2 DEF DriftIsOnePerDeath
<1>5. CASE Die(r)
  <2>1. failures' = failures + 1
    BY <1>5 DEF Die
  <2>2. \/ /\ Orphans' \in SUBSET (Orphans \cup {machine[r]})
           /\ Ghosts' \in SUBSET Ghosts
        \/ /\ Orphans' \in SUBSET Orphans
           /\ \E g : Ghosts' \in SUBSET (Ghosts \cup {g})
    BY <1>5, DeathDrift DEF IInv
  <2>3. Cardinality(Orphans') + Cardinality(Ghosts')
          <= Cardinality(Orphans) + Cardinality(Ghosts) + 1
    <3>1. CASE /\ Orphans' \in SUBSET (Orphans \cup {machine[r]})
               /\ Ghosts' \in SUBSET Ghosts
      <4>1. Cardinality(Orphans') <= Cardinality(Orphans) + 1
        BY <1>2, <3>1, AtMostOneMore
      <4>2. Cardinality(Ghosts') <= Cardinality(Ghosts)
        BY <1>2, <3>1, FS_Subset
      <4> QED BY <1>2, <1>3, <4>1, <4>2
    <3>2. CASE /\ Orphans' \in SUBSET Orphans
               /\ \E g : Ghosts' \in SUBSET (Ghosts \cup {g})
      <4>1. Cardinality(Orphans') <= Cardinality(Orphans)
        BY <1>2, <3>2, FS_Subset
      <4>2. PICK g : Ghosts' \in SUBSET (Ghosts \cup {g})
        BY <3>2
      <4>3. Cardinality(Ghosts') <= Cardinality(Ghosts) + 1
        BY <1>2, <4>2, AtMostOneMore
      <4> QED BY <1>2, <1>3, <4>1, <4>3
    <3> QED BY <2>2, <3>1, <3>2
  <2> QED BY <1>1, <1>2, <1>3, <2>1, <2>3 DEF DriftIsOnePerDeath
<1> QED BY <1>4, <1>5

-----------------------------------------------------------------------------
LEMMA InductiveInit == Init => IInv
<1> SUFFICES ASSUME Init PROVE IInv
  OBVIOUS
<1> USE BrokerAssumption DEF Init, NoId, Ids
<1>1. TypeOK /\ Drawn /\ Inserting /\ Deleting
  BY DEF TypeOK, Drawn, Inserting, Deleting
<1>2. Distinct
  BY FS_EmptySet DEF Distinct
<1>3. Orphans = {} /\ Ghosts = {}
  BY DEF Orphans, Ghosts
<1>4. DriftIsOnePerDeath
  BY <1>3, FS_EmptySet DEF DriftIsOnePerDeath
<1> QED BY <1>1, <1>2, <1>4 DEF IInv, Inv

LEMMA InductiveStep == IInv /\ [Next]_vars => IInv'
<1> SUFFICES ASSUME IInv, [Next]_vars PROVE IInv'
  OBVIOUS
<1>1. ASSUME NEW r \in Requests, RequestStep(r)
      PROVE  IInv'
  BY <1>1, RequestInv, DriftStep DEF IInv
<1>2. CASE UNCHANGED vars
  BY <1>2 DEF vars, IInv, Inv, TypeOK, Drawn, Distinct, Inserting, Deleting,
     DriftIsOnePerDeath, Orphans, Ghosts
<1> QED BY <1>1, <1>2 DEF Next, RequestStep

(* The invariant holds in every state that is reached.                     *)
THEOREM Inductive == Spec => []IInv
BY InductiveInit, InductiveStep, PTL DEF Spec

(* Every request is at one of its control points, and every row, machine   *)
(* and token is made of identifiers that workspace_lifecycle.py drew.      *)
THEOREM TypeCorrect == Spec => []TypeOK
<1>1. IInv => TypeOK
  BY DEF IInv, Inv
<1> QED BY <1>1, Inductive, PTL

(* Machines without a row and rows without a machine number at most the    *)
(* requests that died half-way, whatever interleaves: neither a repeated   *)
(* deletion nor an error answered by Fly leaves one.                       *)
THEOREM DriftIsBounded == Spec => []DriftIsOnePerDeath
<1>1. IInv => DriftIsOnePerDeath
  BY DEF IInv
<1> QED BY <1>1, Inductive, PTL

(* A machine belongs to one workspace, and a request that deletes one      *)
(* destroys no other's machine.                                            *)
THEOREM MachinesAreUnshared == Spec => []MachinesUnshared
<1>1. IInv => MachinesUnshared
  BY DEF IInv, Inv, Distinct, Inserting, Deleting, MachinesUnshared
<1> QED BY <1>1, Inductive, PTL
=============================================================================
