------------------------------- MODULE MCFunnel -------------------------------
(* Funnel with two promotions for each tab and one for others.             *)
EXTENDS Funnel

MCMaxRequests == [c \in Clients |-> IF c \in Tabs THEN 2 ELSE 1]
=============================================================================
