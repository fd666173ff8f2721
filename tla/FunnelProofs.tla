----------------------------- MODULE FunnelProofs -----------------------------
(***************************************************************************)
(* Theorems about Funnel, for any tabs, agents and names, and any number   *)
(* of promotions.                                                          *)
(***************************************************************************)
EXTENDS Funnel, FiniteSetTheorems, TLAPS

-----------------------------------------------------------------------------
(* The stages in their order.                                              *)
LEMMA StageFacts ==
    /\ DOMAIN stages = 1..6
    /\ Stages = {"triage", "plans", "next-up", "executing", "completions",
                 "archive"}
    /\ "elsewhere" \notin Stages /\ "none" \notin Stages
    /\ "triage" \in Stages /\ "plans" \in Stages
<1>1. DOMAIN stages = 1..6
  BY DEF stages
<1>2. Stages = {stages[i] : i \in 1..6}
  BY <1>1 DEF Stages, ToSet
<1>3. Stages = {"triage", "plans", "next-up", "executing", "completions",
                "archive"}
  BY <1>2 DEF stages
<1> QED BY <1>1, <1>3

LEMMA StageIndexFacts ==
    ASSUME NEW s \in Stages
    PROVE  stageIndex(s) \in 1..6 /\ stages[stageIndex(s)] = s
<1>1. \E i \in 1..6 : stages[i] = s
  BY StageFacts DEF Stages, ToSet
<1>2. stageIndex(s) = CHOOSE i \in 1..6 : stages[i] = s
  BY StageFacts DEF stageIndex
<1> QED BY <1>1, <1>2

(* The archive is the last stage, so that every transition goes forward.   *)
LEMMA TransitionsGoForward ==
    ASSUME NEW from, NEW to, isValidTransition(from, to)
    PROVE  /\ from \in Stages /\ to \in Stages /\ from # to
           /\ stageIndex(from) < stageIndex(to)
<1>1. from \in Stages /\ to \in Stages
  BY DEF isValidTransition
<1>2. CASE to = "archive" /\ from # "archive"
  <2>1. stages[6] = "archive" /\ \A i \in 1..6 : stages[i] = "archive" => i = 6
    BY DEF stages
  <2> QED BY <1>1, <1>2, <2>1, StageIndexFacts
<1>3. CASE stageIndex(to) = stageIndex(from) + 1
  BY <1>1, <1>3, StageIndexFacts
<1> QED BY <1>1, <1>2, <1>3 DEF isValidTransition

-----------------------------------------------------------------------------
(* Type correctness.  A client at work has asked for what it works on.     *)
TypeInv ==
    /\ TypeOK
    /\ \A c \in Clients : pc[c] # "idle" => asked[c] > 0

LEMMA TypeInit == Init => TypeInv
<1> SUFFICES ASSUME Init PROVE TypeInv
  OBVIOUS
<1>1. board \in [Stages -> [Names -> Cards \cup {NoCard}]]
  BY DEF Init, Cards
<1>2. request \in [Clients -> Requests]
  BY FunnelAssumption, StageFacts DEF Init, Requests, StageWords
<1>3. /\ asked \in [Clients -> Nat]
      /\ \A c \in Clients : asked[c] <= MaxRequests[c]
  BY FunnelAssumption DEF Init, Clients
<1> QED BY <1>1, <1>2, <1>3 DEF Init, TypeInv, TypeOK

LEMMA TypeList ==
    ASSUME TypeInv, NEW t \in Tabs, NEW s \in Stages, List(t, s)
    PROVE  TypeInv'
BY DEF TypeInv, TypeOK, List, Shown

LEMMA TypePromote ==
    ASSUME TypeInv, NEW c \in Clients, NEW n \in Names, NEW f \in StageWords,
           NEW t \in StageWords, Promote(c, n, f, t)
    PROVE  TypeInv'
<1>1. [name |-> n, from |-> f, to |-> t] \in Requests
  BY DEF Requests
<1>2. request' \in [Clients -> Requests]
  BY <1>1 DEF TypeInv, TypeOK, Promote
<1>3. /\ asked' \in [Clients -> Nat] /\ asked'[c] > 0
      /\ \A d \in Clients : asked'[d] >= asked[d] /\ asked'[d] <= MaxRequests[d]
  BY FunnelAssumption DEF TypeInv, TypeOK, Promote, Clients
<1>4. /\ pc' \in [Clients -> {"idle", "stat", "rename", "poststat"}]
      /\ answer' \in [Clients -> {"none", "ok", "invalid_stage", "not_found",
                                  "invalid_transition", "io"}]
      /\ \A d \in Clients \ {c} : pc'[d] = pc[d] /\ request'[d] = request[d]
      /\ pc'[c] # "idle" => isValidTransition(f, t)
      /\ request'[c] = [name |-> n, from |-> f, to |-> t]
  BY DEF TypeInv, TypeOK, Promote, Reply
<1>5. \A d \in Clients :
          pc'[d] # "idle" => /\ isValidTransition(request'[d].from, request'[d].to)
                             /\ asked'[d] > 0
  BY <1>3, <1>4, FunnelAssumption DEF TypeInv, TypeOK
<1> QED BY <1>2, <1>3, <1>4, <1>5 DEF TypeInv, TypeOK, Promote

(* A client at work moves between stages.                                  *)
LEMMA Working ==
    ASSUME TypeInv, NEW c \in Clients, pc[c] # "idle"
    PROVE  /\ request[c].name \in Names
           /\ request[c].from \in Stages /\ request[c].to \in Stages
           /\ request[c].from # request[c].to
           /\ stageIndex(request[c].from) < stageIndex(request[c].to)
BY TransitionsGoForward DEF TypeInv, TypeOK, Requests

(* What a successful rename does to the board.                             *)
LEMMA RenameMoves ==
    ASSUME TypeInv, NEW c \in Clients, Rename(c), Source(c) # NoCard
    PROVE  /\ board' \in [Stages -> [Names -> Cards \cup {NoCard}]]
           /\ \A s \in Stages, n \in Names :
                At(s, n)' = IF n # request[c].name THEN At(s, n)
                            ELSE IF s = request[c].from THEN NoCard
                            ELSE IF s = request[c].to THEN Source(c)
                            ELSE At(s, n)
<1> DEFINE B == [Stages -> [Names -> Cards \cup {NoCard}]]
           from == request[c].from  to == request[c].to
           name == request[c].name  card == Source(c)
           b == [board EXCEPT ![to][name] = card]
<1>1. /\ board \in B /\ from \in Stages /\ to \in Stages /\ name \in Names
      /\ card \in Cards \cup {NoCard}
  BY Working DEF TypeInv, TypeOK, Rename, Source, At
<1>2. board' = [b EXCEPT ![from][name] = NoCard]
  BY DEF Rename
<1> HIDE DEF from, to, name, card
<1>3. /\ b \in B
      /\ \A s \in Stages, n \in Names :
            b[s][n] = IF s = to /\ n = name THEN card ELSE board[s][n]
  BY <1>1
<1> HIDE DEF b
<1>4. /\ board' \in B
      /\ \A s \in Stages, n \in Names :
            board'[s][n] = IF s = from /\ n = name THEN NoCard ELSE b[s][n]
  BY <1>1, <1>2, <1>3
<1> QED BY <1>3, <1>4 DEF At, from, to, name, card

LEMMA TypeServe ==
    ASSUME TypeInv, NEW c \in Clients,
           StatSource(c) \/ Rename(c) \/ PostStat(c)
    PROVE  TypeInv'
<1>1. CASE StatSource(c)
  BY <1>1 DEF TypeInv, TypeOK, StatSource, Reply
<1>2. CASE Rename(c)
  <2>1. board' \in [Stages -> [Names -> Cards \cup {NoCard}]]
    BY <1>2, RenameMoves DEF TypeInv, TypeOK, Rename
  <2>2. carried' \in [Clients -> Cards \cup {NoCard}]
    BY <1>2, Working DEF TypeInv, TypeOK, Rename, Source, At
  <2> QED BY <1>2, <2>1, <2>2 DEF TypeInv, TypeOK, Rename, Reply
<1>3. CASE PostStat(c)
  <2>1. granted' \subseteq [client : Clients, serial : Nat,
                            card : Cards \cup {NoCard}, from : Stages]
    BY <1>3, Working DEF TypeInv, TypeOK, PostStat
  <2> QED BY <1>3, <2>1 DEF TypeInv, TypeOK, PostStat, Reply
<1> QED BY <1>1, <1>2, <1>3

(* What a menu offers are stages.                                          *)
LEMMA MenuFacts ==
    ASSUME TypeInv, NEW t \in Tabs, PromoteFromMenu(t)
    PROVE  \E n \in Names, f, s \in StageWords : Promote(t, n, f, s)
<1>0. PICK f \in Stages : \E n \in seen[t][f], s \in validNextStages(f) :
         Promote(t, n, f, s)
  BY DEF PromoteFromMenu
<1>1. PICK n \in seen[t][f], s \in validNextStages(f) : Promote(t, n, f, s)
  BY <1>0
<1>2. n \in Names
  BY DEF TypeInv, TypeOK
<1>3. s \in Stages
  BY StageFacts DEF validNextStages, Stages, ToSet
<1> QED BY <1>1, <1>2, <1>3 DEF StageWords

LEMMA TypeStep == TypeInv /\ [Next]_vars => TypeInv'
<1> SUFFICES ASSUME TypeInv, [Next]_vars PROVE TypeInv'
  OBVIOUS
<1>1. Tabs \subseteq Clients /\ Agents \subseteq Clients
  BY DEF Clients
<1>2. CASE UNCHANGED vars
  BY <1>2 DEF vars, TypeInv, TypeOK
<1>3. ASSUME NEW t \in Tabs, PromoteFromMenu(t) PROVE TypeInv'
  BY <1>1, <1>3, MenuFacts, TypePromote
<1>4. ASSUME NEW c \in Agents, PromoteAny(c) PROVE TypeInv'
  BY <1>1, <1>4, TypePromote DEF PromoteAny
<1> QED BY <1>2, <1>3, <1>4, TypeList, TypeServe DEF Next

(* Every variable keeps its type, and no connection works on a promotion   *)
(* that isValidTransition would refuse.                                    *)
THEOREM TypeCorrect == Spec => []TypeOK
<1>1. TypeInv => TypeOK
  BY DEF TypeInv
<1> QED BY <1>1, TypeInit, TypeStep, PTL DEF Spec

-----------------------------------------------------------------------------
(* Cards are kept.  No card is at two stages; that of a rename is gone     *)
(* from its old one, and takes the place of what was at its new one.       *)
Distinct ==
    /\ \A s \in Stages, n \in Names :
          At(s, n) # NoCard => At(s, n) \in Cards /\ At(s, n).name = n
    /\ \A n \in Names, s, t \in Stages :
          At(s, n) # NoCard /\ At(s, n) = At(t, n) => s = t

(* What a rename does when it succeeds, to whatever is at the new place.   *)
Moved(card, from, to) ==
    /\ from \in Stages /\ to \in Stages /\ from # to /\ card.name \in Names
    /\ card # NoCard /\ At(from, card.name) = card
    /\ \A s \in Stages, n \in Names :
          At(s, n)' = IF n # card.name THEN At(s, n)
                      ELSE IF s = from THEN NoCard
                      ELSE IF s = to THEN card
                      ELSE At(s, n)

LEMMA DistinctInit == Init => Distinct
<1> SUFFICES ASSUME Init PROVE Distinct
  OBVIOUS
<1>1. PICK held \in [Names -> {S \in SUBSET Stages :
                                 Cardinality(S) <= MaxSameName}] :
         board = [s \in Stages |-> [n \in Names |->
                    IF s \in held[n] THEN [name |-> n, home |-> s]
                                     ELSE NoCard]]
  BY DEF Init
<1>2. \A s \in Stages, n \in Names :
         At(s, n) = IF s \in held[n] THEN [name |-> n, home |-> s] ELSE NoCard
  BY <1>1 DEF At
<1> QED BY <1>2 DEF Distinct, Cards

LEMMA BoardSteps ==
    ASSUME TypeInv, Distinct, [Next]_vars
    PROVE  \/ UNCHANGED board
           \/ \E card, from, to : Moved(card, from, to)
<1>1. \/ UNCHANGED board
      \/ \E c \in Clients : Rename(c) /\ Source(c) # NoCard
  BY DEF Next, vars, PromoteFromMenu, PromoteAny, Promote, List, StatSource,
         Rename, PostStat
<1>2. ASSUME NEW c \in Clients, Rename(c), Source(c) # NoCard
      PROVE  Moved(Source(c), request[c].from, request[c].to)
  <2>1. /\ request[c].from \in Stages /\ request[c].to \in Stages
        /\ request[c].from # request[c].to /\ request[c].name \in Names
    BY <1>2, Working DEF Rename
  <2>2. Source(c) = At(request[c].from, request[c].name)
        /\ Source(c).name = request[c].name
    BY <1>2, <2>1 DEF Source, Distinct
  <2> QED BY <1>2, <2>1, <2>2, RenameMoves DEF Moved
<1> QED BY <1>1, <1>2

LEMMA DistinctStep ==
    ASSUME TypeInv, Distinct, [Next]_vars
    PROVE  Distinct'
<1>1. CASE UNCHANGED board
  BY <1>1 DEF Distinct, At
<1>2. ASSUME NEW card, NEW from, NEW to, Moved(card, from, to)
      PROVE  Distinct'
  <2>1. card \in Cards
    BY <1>2 DEF Moved, Distinct
  <2>2. \A s \in Stages : At(s, card.name) = card => s = from
    BY <1>2 DEF Moved, Distinct
  <2> QED BY <1>2, <2>1, <2>2 DEF Moved, Distinct
<1> QED BY <1>1, <1>2, BoardSteps

LEMMA PlacesFacts ==
    ASSUME Distinct, NEW card \in OnBoard
    PROVE  \E s \in Stages : /\ Places(card) = {s} /\ At(s, card.name) = card
                             /\ card.name \in Names /\ card # NoCard
<1>1. PICK s \in Stages, n \in Names : At(s, n) = card /\ card # NoCard
  BY DEF OnBoard
<1>2. card.name = n
  BY <1>1 DEF Distinct
<1>3. \A t \in Stages : At(t, n) = card <=> t = s
  BY <1>1 DEF Distinct
<1> QED BY <1>1, <1>2, <1>3 DEF Places

LEMMA CardsStep ==
    ASSUME Distinct, Distinct', NEW card, NEW from, NEW to, Moved(card, from, to)
    PROVE  /\ OnBoard' \subseteq OnBoard
           /\ \A lost \in OnBoard \ OnBoard' :
                \E other \in OnBoard' : /\ other.name = lost.name /\ other # lost
                                        /\ Places(other)' = Places(lost)
<1>1. ASSUME NEW x \in OnBoard' PROVE x \in OnBoard
  <2>1. PICK s \in Stages, n \in Names : At(s, n)' = x /\ x # NoCard
    BY DEF OnBoard
  <2>2. x = At(s, n) \/ x = At(from, card.name)
    BY <2>1 DEF Moved
  <2> QED BY <2>1, <2>2 DEF OnBoard, Moved
<1>2. ASSUME NEW lost \in OnBoard, lost \notin OnBoard'
      PROVE  \E other \in OnBoard' : /\ other.name = lost.name /\ other # lost
                                     /\ Places(other)' = Places(lost)
  <2>1. PICK s \in Stages : /\ Places(lost) = {s} /\ At(s, lost.name) = lost
                            /\ lost.name \in Names /\ lost # NoCard
    BY PlacesFacts
  <2>2. At(s, lost.name)' # lost
    BY <1>2, <2>1 DEF OnBoard
  <2>3. At(to, card.name)' = card /\ card \in OnBoard' /\ card # NoCard
    BY DEF Moved, OnBoard
  <2>4. lost # card
    BY <1>2, <2>3
  <2>5. s = to /\ lost.name = card.name
    BY <2>1, <2>2, <2>4 DEF Moved
  <2>6. Places(card)' = {to}
    <3>1. \A t \in Stages : At(t, card.name)' = card => t = to
      BY <2>3 DEF Moved, Distinct
    <3> QED BY <2>3, <3>1 DEF Places, Moved
  <2> QED BY <2>1, <2>3, <2>4, <2>5, <2>6
<1> QED BY <1>1, <1>2

(* A promotion copies no card, and destroys none but the one of the same   *)
(* name that it is moved onto, whatever the clients that promote it do     *)
(* between its stat, its rename and its second stat, and however many      *)
(* stages hold a card of one name.                                         *)
THEOREM CardsAreKept == Spec => CardsKept
<1> DEFINE Kept == TypeInv /\ Distinct
<1>1. Init => Kept
  BY TypeInit, DistinctInit
<1>2. Kept /\ [Next]_vars => Kept'
  BY TypeStep, DistinctStep
<1>3. ASSUME Kept, Kept', [Next]_vars
      PROVE  /\ OnBoard' \subseteq OnBoard
             /\ \A card \in OnBoard' : Cardinality(Places(card)') = 1
             /\ \A card \in OnBoard \ OnBoard' :
                   \E other \in OnBoard' : /\ other.name = card.name /\ other # card
                                           /\ Places(other)' = Places(card)
  <2>1. ASSUME NEW card \in OnBoard' PROVE Cardinality(Places(card)') = 1
    <3>1. PICK s \in Stages, n \in Names : At(s, n)' = card /\ card # NoCard
      BY DEF OnBoard
    <3>2. card.name = n
      BY <1>3, <3>1 DEF Distinct
    <3>3. \A t \in Stages : At(t, n)' = card <=> t = s
      BY <1>3, <3>1 DEF Distinct
    <3>4. Places(card)' = {s}
      BY <3>2, <3>3 DEF Places
    <3> QED BY <3>4, FS_Singleton
  <2>2. CASE UNCHANGED board
    BY <2>1, <2>2 DEF OnBoard, At
  <2>3. ASSUME NEW card, NEW from, NEW to, Moved(card, from, to)
        PROVE  /\ OnBoard' \subseteq OnBoard
               /\ \A lost \in OnBoard \ OnBoard' :
                    \E other \in OnBoard' :
                       /\ other.name = lost.name /\ other # lost
                       /\ Places(other)' = Places(lost)
    BY <1>3, <2>3, CardsStep
  <2> QED BY <1>3, <2>1, <2>2, <2>3, BoardSteps
<1> HIDE DEF Kept
<1> QED BY <1>1, <1>2, <1>3, PTL DEF Spec, CardsKept

-----------------------------------------------------------------------------
(* One winner.  Each rename moves a card forward: to a stage that it left  *)
(* it never comes again, whatever other cards of its name do.              *)
Beyond(files, card, from) ==
    \A s \in Stages : files[s][card.name] = card => stageIndex(from) < stageIndex(s)

(* The client's rename of this card out of this stage has succeeded.       *)
Took(c, from, card) ==
    pc[c] = "poststat" /\ request[c].from = from /\ carried[c] = card

Winners ==
    /\ \A c \in Clients : pc[c] = "poststat" =>
          carried[c] \in Cards /\ Beyond(board, carried[c], request[c].from)
    /\ \A g \in granted : g.card \in Cards /\ Beyond(board, g.card, g.from)
    /\ \A c, d \in Clients : \A s \in Stages, card \in Cards :
          Took(c, s, card) /\ Took(d, s, card) => c = d
    /\ \A c \in Clients : \A g \in granted : ~Took(c, g.from, g.card)
    /\ OneWinner

Inv == TypeInv /\ Distinct /\ Winners

LEMMA InvInit == Init => Inv
<1> SUFFICES ASSUME Init PROVE Inv
  OBVIOUS
<1>1. Distinct /\ TypeInv
  BY DistinctInit, TypeInit
<1>2. granted = {} /\ \A c \in Clients : pc[c] # "poststat"
  BY DEF Init
<1>3. Winners
  BY <1>2 DEF Winners, Took, OneWinner
<1> QED BY <1>1, <1>3 DEF Inv

(* A step that leaves the board alone and brings nobody past its rename.   *)
LEMMA InvQuiet ==
    ASSUME Inv, TypeInv', UNCHANGED <<board, granted>>,
           \A c \in Clients : pc'[c] = "poststat" =>
               /\ pc[c] = "poststat" /\ request'[c] = request[c]
               /\ carried'[c] = carried[c]
    PROVE  Inv'
<1>1. Distinct'
  BY DEF Inv, Distinct, At
<1>2. \A c \in Clients : \A s, card : Took(c, s, card)' => Took(c, s, card)
  BY DEF Took
<1>3. Winners'
  BY <1>2 DEF Inv, Winners, OneWinner
<1> QED BY <1>1, <1>3 DEF Inv

LEMMA InvRename ==
    ASSUME Inv, TypeInv', NEW c \in Clients, Rename(c)
    PROVE  Inv'
<1>0. TypeInv /\ Distinct /\ Winners /\ [Next]_vars
  BY DEF Inv, Next
<1>1. CASE Source(c) = NoCard
  BY <1>1, InvQuiet DEF Rename, Reply, Inv, TypeInv, TypeOK
<1>2. CASE Source(c) # NoCard
  <2>1. Distinct'
    BY <1>0, DistinctStep
  <2>2. PICK from \in Stages, to \in Stages, name \in Names, card \in Cards :
            /\ from = request[c].from /\ to = request[c].to
            /\ name = request[c].name /\ card = Source(c) /\ card.name = name
            /\ from # to /\ stageIndex(from) < stageIndex(to)
            /\ board[from][name] = card
    <3>1. /\ request[c].from \in Stages /\ request[c].to \in Stages
          /\ request[c].name \in Names /\ request[c].from # request[c].to
          /\ stageIndex(request[c].from) < stageIndex(request[c].to)
      BY <1>0, Working DEF Rename
    <3>2. Source(c) \in Cards /\ Source(c).name = request[c].name
      BY <1>0, <1>2, <3>1 DEF Source, Distinct
    <3> QED BY <3>1, <3>2 DEF Source, At
  <2>3. \A s \in Stages, n \in Names :
            board'[s][n] = IF n # name THEN board[s][n]
                           ELSE IF s = from THEN NoCard
                           ELSE IF s = to THEN card
                           ELSE board[s][n]
    BY <1>0, <1>2, <2>2, RenameMoves DEF At
  <2>4. /\ request' = request /\ granted' = granted
        /\ pc' = [pc EXCEPT ![c] = "poststat"] /\ pc[c] = "rename"
        /\ pc \in [Clients -> {"idle", "stat", "rename", "poststat"}]
        /\ carried' = [carried EXCEPT ![c] = card]
        /\ carried \in [Clients -> Cards \cup {NoCard}]
    BY <1>0, <1>2, <2>2 DEF Rename, TypeInv, TypeOK
  <2>5. \A x \in Cards : x # NoCard /\ x.name \in Names
    BY StageFacts DEF Cards, NoCard
  <2>6. \A s \in Stages, x \in Cards : Beyond(board, x, s) => Beyond(board', x, s)
    <3> SUFFICES ASSUME NEW s \in Stages, NEW x \in Cards,
                        Beyond(board, x, s), NEW t \in Stages,
                        board'[t][x.name] = x
                 PROVE  stageIndex(s) < stageIndex(t)
      BY DEF Beyond
    <3>1. CASE board[t][x.name] = x
      BY <3>1 DEF Beyond
    <3>2. CASE board[t][x.name] # x
      <4>1. x.name = name /\ t = to /\ x = card
        BY <2>3, <2>5, <3>2
      <4>2. stageIndex(s) < stageIndex(from)
        BY <2>2, <4>1 DEF Beyond
      <4> QED BY <2>2, <4>1, <4>2, StageIndexFacts
    <3> QED BY <3>1, <3>2
  <2>7. Beyond(board', card, from) /\ ~Beyond(board, card, from)
    <3>1. ~Beyond(board, card, from)
      BY <2>2, StageIndexFacts DEF Beyond
    <3>2. \A s \in Stages : board[s][name] = card => s = from
      BY <1>0, <2>2, <2>5 DEF Distinct, At
    <3>3. \A s \in Stages : board'[s][name] = card => s = to
      BY <2>2, <2>3, <2>5, <3>2
    <3> QED BY <2>2, <3>1, <3>3 DEF Beyond
  <2>8. ~\E d \in Clients : Took(d, from, card)
    BY <1>0, <2>7 DEF Winners, Took
  <2>9. ~\E g \in granted : g.from = from /\ g.card = card
    BY <1>0, <2>7 DEF Winners
  <2>10. \A d \in Clients : \A s, x :
            Took(d, s, x)' => \/ Took(d, s, x)
                              \/ d = c /\ s = from /\ x = card
    BY <2>2, <2>4 DEF Took
  <2>11. ASSUME NEW d \in Clients, pc'[d] = "poststat"
         PROVE  carried'[d] \in Cards /\ Beyond(board', carried'[d], request[d].from)
    <3>1. CASE d = c
      BY <2>2, <2>4, <2>7, <3>1
    <3>2. CASE d # c
      <4>1. pc[d] = "poststat" /\ carried'[d] = carried[d]
        BY <2>4, <2>11, <3>2
      <4>2. request[d].from \in Stages
        BY <1>0, <4>1, Working
      <4> QED BY <1>0, <2>6, <4>1, <4>2 DEF Winners
    <3> QED BY <3>1, <3>2
  <2>12. \A g \in granted : g.card \in Cards /\ Beyond(board', g.card, g.from)
    <3>1. \A g \in granted : g.from \in Stages
      BY <1>0 DEF TypeInv, TypeOK
    <3> QED BY <1>0, <2>6, <3>1 DEF Winners
  <2>13. Winners'
    BY <1>0, <2>4, <2>8, <2>9, <2>10, <2>11, <2>12 DEF Winners, OneWinner
  <2> QED BY <2>1, <2>13 DEF Inv
<1> QED BY <1>1, <1>2

LEMMA InvPostStat ==
    ASSUME Inv, TypeInv', NEW c \in Clients, PostStat(c)
    PROVE  Inv'
<1>1. CASE Target(c) = NoCard
  BY <1>1, InvQuiet DEF PostStat, Reply, Inv, TypeInv, TypeOK
<1>2. CASE Target(c) # NoCard
  <2> DEFINE h == [client |-> c, serial |-> asked[c],
                   card |-> carried[c], from |-> request[c].from]
  <2>1. TypeInv /\ Distinct /\ Winners
    BY DEF Inv
  <2>2. /\ granted' = granted \cup {h} /\ board' = board /\ request' = request
        /\ pc[c] = "poststat" /\ pc' = [pc EXCEPT ![c] = "idle"]
        /\ pc \in [Clients -> {"idle", "stat", "rename", "poststat"}]
        /\ \A d \in Clients \ {c} : carried'[d] = carried[d]
    BY <1>2, <2>1 DEF PostStat, Reply, TypeInv, TypeOK
  <2>3. Took(c, h.from, h.card) /\ h.from \in Stages /\ h.card \in Cards
    BY <2>1, <2>2, Working DEF Took, Winners
  <2>4. /\ \A g \in granted : ~(g.from = h.from /\ g.card = h.card)
        /\ \A d \in Clients : Took(d, h.from, h.card) => d = c
        /\ Beyond(board, h.card, h.from)
    BY <2>1, <2>2, <2>3 DEF Winners, Took
  <2> HIDE DEF h
  <2>5. Distinct'
    BY <2>1, <2>2 DEF Distinct, At
  <2>6. \A d \in Clients : \A s, x : Took(d, s, x)' => Took(d, s, x) /\ d # c
    BY <2>2 DEF Took
  <2>7. Winners'
    <3>1. \A d \in Clients : pc'[d] = "poststat" =>
             carried'[d] \in Cards /\ Beyond(board', carried'[d], request'[d].from)
      BY <2>1, <2>2 DEF Winners
    <3>2. \A g \in granted' : g.card \in Cards /\ Beyond(board', g.card, g.from)
      BY <2>1, <2>2, <2>3, <2>4 DEF Winners
    <3>3. \A d, e \in Clients : \A s \in Stages, x \in Cards :
             Took(d, s, x)' /\ Took(e, s, x)' => d = e
      BY <2>1, <2>6 DEF Winners
    <3>4. \A d \in Clients : \A g \in granted' : ~Took(d, g.from, g.card)'
      BY <2>1, <2>2, <2>4, <2>6 DEF Winners
    <3>5. h.card # NoCard
      BY <2>3, StageFacts DEF Cards, NoCard
    <3>6. OneWinner'
      BY <2>1, <2>2, <2>4, <3>5 DEF Winners, OneWinner
    <3> QED BY <3>1, <3>2, <3>3, <3>4, <3>6 DEF Winners
  <2> QED BY <2>5, <2>7 DEF Inv
<1> QED BY <1>1, <1>2

LEMMA InvStep == Inv /\ [Next]_vars => Inv'
<1> SUFFICES ASSUME Inv, [Next]_vars PROVE Inv'
  OBVIOUS
<1>1. TypeInv /\ TypeInv' /\ Tabs \subseteq Clients /\ Agents \subseteq Clients
  BY TypeStep DEF Inv, Clients
<1>2. CASE UNCHANGED vars
  BY <1>1, <1>2, InvQuiet DEF vars
<1>3. ASSUME NEW c \in Clients, NEW n \in Names, NEW f \in StageWords,
             NEW t \in StageWords, Promote(c, n, f, t)
      PROVE  Inv'
  <2>1. \A d \in Clients : pc'[d] = "poststat" =>
            /\ pc[d] = "poststat" /\ request'[d] = request[d]
            /\ carried'[d] = carried[d]
    BY <1>1, <1>3 DEF Promote, Reply, TypeInv, TypeOK
  <2> QED BY <1>1, <1>3, <2>1, InvQuiet DEF Promote
<1>4. ASSUME NEW t \in Tabs, NEW s \in Stages, List(t, s) PROVE Inv'
  BY <1>1, <1>4, InvQuiet DEF List
<1>5. ASSUME NEW c \in Clients, StatSource(c) PROVE Inv'
  BY <1>1, <1>5, InvQuiet DEF StatSource, Reply, TypeInv, TypeOK
<1>6. ASSUME NEW t \in Tabs, PromoteFromMenu(t) PROVE Inv'
  BY <1>1, <1>3, <1>6, MenuFacts
<1>7. ASSUME NEW c \in Agents, PromoteAny(c) PROVE Inv'
  BY <1>1, <1>3, <1>7 DEF PromoteAny
<1> QED
  BY <1>1, <1>2, <1>4, <1>5, <1>6, <1>7, InvRename, InvPostStat DEF Next

(* Of any number of clients that promote one card out of one stage, one is *)
(* told that it did, and nobody is told so whose rename moved no card,     *)
(* whatever the names of the cards.                                        *)
THEOREM PromotionsHaveOneWinner == Spec => []OneWinner
<1>1. Inv => OneWinner
  BY DEF Inv, Winners
<1> QED BY <1>1, InvInit, InvStep, PTL DEF Spec
=============================================================================
