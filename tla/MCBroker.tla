------------------------------- MODULE MCBroker -------------------------------
(* Broker with requests and users that are alike.                          *)
EXTENDS Broker, TLC

Symmetry == Permutations(Requests) \cup Permutations(Users)
===============================================================================
