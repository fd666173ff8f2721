-------------------------------- MODULE Funnel --------------------------------
(***************************************************************************)
(* The planning funnel: cards are files rommel/<stage>/<name>, promoted    *)
(* from stage to stage (sandbox-daemon/internal/funnel/handler.go) by the  *)
(* board of each browser tab (frontend: FunnelBoard.tsx, lib/funnel.ts)    *)
(* and by other clients of the daemon.                                     *)
(*                                                                         *)
(* The daemon runs one request of a connection at a time, and requests of  *)
(* different connections side by side: each file-system call of a handler  *)
(* is a step of its own.  A stage's missing directory and an empty one are *)
(* the same to every handler, so MkdirAll leaves no trace here; names are  *)
(* basenames that validateName accepts.                                    *)
(***************************************************************************)
EXTENDS Naturals, FiniteSets, SequencesExt

CONSTANTS
    Tabs,         \* connections of browser tabs: they promote from the menu
    Agents,       \* other connections: they ask for any promotion
    Names,        \* basenames of cards
    MaxRequests,  \* bound: how many promotions each connection asks for
    MaxSameName   \* bound: stages that hold a card of one name at the start

ASSUME FunnelAssumption ==
    /\ Names # {} /\ MaxSameName \in Nat
    /\ MaxRequests \in [Tabs \cup Agents -> Nat]

Clients == Tabs \cup Agents

stages == <<"triage", "plans", "next-up", "executing", "completions",
            "archive">>
Stages == ToSet(stages)

(* What a request may name: a stage, or a word that is none.               *)
StageWords == Stages \cup {"elsewhere"}

(* The position of a stage, 0 for a word that is none.                     *)
stageIndex(stage) ==
    IF stage \in Stages THEN CHOOSE i \in DOMAIN stages : stages[i] = stage
                        ELSE 0

isValidTransition(from, to) ==
    /\ {from, to} \subseteq Stages
    /\ \/ to = "archive" /\ from # "archive"
       \/ stageIndex(to) = stageIndex(from) + 1

(* The targets of a card's menu, computed by the browser.                  *)
validNextStages(from) ==
    {stages[i] : i \in {stageIndex(from) + 1} \cap DOMAIN stages}
        \cup ({"archive"} \ {from})

(* A card is identified by where it was at the start.                      *)
Cards == [name : Names, home : Stages]
NoCard == [name |-> "none", home |-> "none"]

VARIABLES
    board,    \* the file system: the card at each stage and name
    seen,     \* the names each tab's board shows in each stage
    pc,       \* control point of each connection's handler
    request,  \* the promotion it works on, or worked on last
    carried,  \* the card that its rename has moved
    answer,   \* its last answer
    asked,    \* how many promotions it asked for
    granted   \* the promotions answered with success

vars == <<board, seen, pc, request, carried, answer, asked, granted>>

-----------------------------------------------------------------------------
At(stage, name) == board[stage][name]
Shown(stage) == {n \in Names : At(stage, n) # NoCard}

Init ==
    /\ \E held \in [Names -> {S \in SUBSET Stages :
                                Cardinality(S) <= MaxSameName}] :
          board = [s \in Stages |-> [n \in Names |->
                      IF s \in held[n] THEN [name |-> n, home |-> s]
                                       ELSE NoCard]]
    /\ seen = [t \in Tabs |-> [s \in Stages |-> {}]]
    /\ pc = [c \in Clients |-> "idle"]
    /\ request = [c \in Clients |-> [name |-> CHOOSE n \in Names : TRUE,
                                     from |-> "triage", to |-> "plans"]]
    /\ carried = [c \in Clients |-> NoCard]
    /\ answer = [c \in Clients |-> "none"]
    /\ asked = [c \in Clients |-> 0]
    /\ granted = {}

Reply(c, code) ==
    /\ answer' = [answer EXCEPT ![c] = code]
    /\ pc' = [pc EXCEPT ![c] = "idle"]

-----------------------------------------------------------------------------
(* funnel.list: a column of a tab's board is fetched, at any time.         *)
List(t, stage) ==
    /\ pc[t] = "idle"
    /\ seen' = [seen EXCEPT ![t][stage] = Shown(stage)]
    /\ UNCHANGED <<board, pc, request, carried, answer, asked, granted>>

(* Mutant of Promote: the request is not checked.                          *)
PromoteUnchecked(c, name, from, to) ==
    /\ pc[c] = "idle" /\ asked[c] < MaxRequests[c]
    /\ asked' = [asked EXCEPT ![c] = @ + 1]
    /\ request' = [request EXCEPT ![c] = [name |-> name, from |-> from,
                                          to |-> to]]
    /\ pc' = [pc EXCEPT ![c] = "stat"]
    /\ UNCHANGED <<board, seen, carried, answer, granted>>

(* A promotion arrives, and is checked before the disk is touched.         *)
Promote(c, name, from, to) ==
    /\ pc[c] = "idle" /\ asked[c] < MaxRequests[c]
    /\ asked' = [asked EXCEPT ![c] = @ + 1]
    /\ request' = [request EXCEPT ![c] = [name |-> name, from |-> from,
                                          to |-> to]]
    /\ CASE stageIndex(from) = 0 \/ stageIndex(to) = 0 ->
                Reply(c, "invalid_stage")
         [] OTHER ->
                IF isValidTransition(from, to)
                  THEN pc' = [pc EXCEPT ![c] = "stat"] /\ UNCHANGED answer
                  ELSE Reply(c, "invalid_transition")
    /\ UNCHANGED <<board, seen, carried, granted>>

PromoteFromMenu(t) ==
    \E from \in Stages : \E name \in seen[t][from] :
        \E to \in validNextStages(from) : Promote(t, name, from, to)

PromoteAny(c) ==
    \E name \in Names, from, to \in StageWords : Promote(c, name, from, to)

Source(c) == At(request[c].from, request[c].name)
Target(c) == At(request[c].to, request[c].name)

StatSource(c) ==
    /\ pc[c] = "stat"
    /\ IF Source(c) = NoCard
         THEN Reply(c, "not_found")
         ELSE pc' = [pc EXCEPT ![c] = "rename"] /\ UNCHANGED answer
    /\ UNCHANGED <<board, seen, request, carried, asked, granted>>

(* Mutants of Rename: its error is ignored; or the card is copied.         *)
RenameUnchecked(c) ==
    /\ pc[c] = "rename"
    /\ board' = IF Source(c) = NoCard THEN board ELSE
                   [board EXCEPT
                    ![request[c].to][request[c].name] = Source(c),
                    ![request[c].from][request[c].name] = NoCard]
    /\ carried' = [carried EXCEPT ![c] = Source(c)]
    /\ pc' = [pc EXCEPT ![c] = "poststat"]
    /\ UNCHANGED <<seen, request, answer, asked, granted>>

CopyCard(c) ==
    /\ pc[c] = "rename"
    /\ board' = [board EXCEPT ![request[c].to][request[c].name] = Source(c)]
    /\ carried' = [carried EXCEPT ![c] = Source(c)]
    /\ pc' = [pc EXCEPT ![c] = "poststat"]
    /\ UNCHANGED <<seen, request, answer, asked, granted>>

(* os.Rename replaces whatever has the new name.                           *)
Rename(c) ==
    /\ pc[c] = "rename"
    /\ IF Source(c) = NoCard
         THEN Reply(c, "io") /\ UNCHANGED <<board, carried>>
         ELSE /\ board' = [board EXCEPT
                    ![request[c].to][request[c].name] = Source(c),
                    ![request[c].from][request[c].name] = NoCard]
              /\ carried' = [carried EXCEPT ![c] = Source(c)]
              /\ pc' = [pc EXCEPT ![c] = "poststat"]
              /\ UNCHANGED answer
    /\ UNCHANGED <<seen, request, asked, granted>>

PostStat(c) ==
    /\ pc[c] = "poststat"
    /\ IF Target(c) = NoCard
         THEN Reply(c, "io") /\ UNCHANGED granted
         ELSE /\ Reply(c, "ok")
              /\ granted' = granted \cup
                    {[client |-> c, serial |-> asked[c],
                      card |-> carried[c], from |-> request[c].from]}
    /\ carried' = [carried EXCEPT ![c] = NoCard]
    /\ UNCHANGED <<board, seen, request, asked>>

-----------------------------------------------------------------------------
Next ==
    \/ \E t \in Tabs : PromoteFromMenu(t) \/ \E s \in Stages : List(t, s)
    \/ \E c \in Agents : PromoteAny(c)
    \/ \E c \in Clients : StatSource(c) \/ Rename(c) \/ PostStat(c)

Spec == Init /\ [][Next]_vars

-----------------------------------------------------------------------------
Requests == [name : Names, from : StageWords, to : StageWords]

TypeOK ==
    /\ board \in [Stages -> [Names -> Cards \cup {NoCard}]]
    /\ seen \in [Tabs -> [Stages -> SUBSET Names]]
    /\ pc \in [Clients -> {"idle", "stat", "rename", "poststat"}]
    /\ request \in [Clients -> Requests]
    /\ \A c \in Clients :
          pc[c] # "idle" => isValidTransition(request[c].from, request[c].to)
    /\ answer \in [Clients -> {"none", "ok", "invalid_stage", "not_found",
                               "invalid_transition", "io"}]
    /\ carried \in [Clients -> Cards \cup {NoCard}]
    /\ asked \in [Clients -> Nat]
    /\ \A c \in Clients : asked[c] <= MaxRequests[c]
    /\ granted \subseteq [client : Clients, serial : Nat,
                          card : Cards \cup {NoCard}, from : Stages]

OnBoard == {At(s, n) : s \in Stages, n \in Names} \ {NoCard}
Places(card) == {s \in Stages : At(s, card.name) = card}

(* A card has one file, even when two clients promote it at once: no       *)
(* promotion copies a card, and none destroys a card but by moving another *)
(* one of the same name into its place.                                    *)
CardsKept ==
    [][/\ OnBoard' \subseteq OnBoard
       /\ \A card \in OnBoard' : Cardinality(Places(card)') = 1
       /\ \A card \in OnBoard \ OnBoard' :
             \E other \in OnBoard' : /\ other.name = card.name /\ other # card
                                     /\ Places(other)' = Places(card)]_vars

(* Of several clients that promote one card out of one stage, one is told  *)
(* that it did: an answer of success is about a card that its own rename   *)
(* moved, also where another card of the name came to that stage meanwhile.*)
OneWinner ==
    \A g, h \in granted :
        g.card # NoCard /\ (g.card = h.card /\ g.from = h.from => g = h)
=============================================================================
