----------------------------- MODULE QueryClient -----------------------------
(***************************************************************************)
(* What Editor and FileTree have in common: TanStack Query's client, of    *)
(* lib/query.ts, between the hooks of useFs.ts and the daemon, and the     *)
(* bounds on what is asked for.                                            *)
(***************************************************************************)
EXTENDS Wire

CONSTANTS
    MaxAsks,   \* bound: changes asked for
    MaxWire,   \* bound: frames in flight when one of them is asked for
    MaxDrops   \* bound: times the connection breaks

ASSUME BoundsAssumption ==
    MaxAsks \in Nat /\ MaxWire \in Nat /\ MaxDrops \in Nat

VARIABLES
    disk,     \* what there is at each path
    ready,    \* the store's status is "ready": the hooks have a daemon
    cache,    \* the data of each path's query, if there are any
    fetching, \* the queries with a fetch in progress
    failed,   \* the queries whose last fetch failed
    asked,    \* counts changes asked for
    drops     \* counts breaks of the connection

bounds == <<asked, drops>>

(* Fetches that are cancelled are taken off the wire.  The n-th of the     *)
(* positions I, and what is left of s when those are kept, in their order. *)
Place(I, n) == CHOOSE i \in I : Cardinality(I \cap 1..i) = n
Keep(s, I) == [n \in 1..Cardinality(I) |-> s[Place(I, n)]]
=============================================================================
