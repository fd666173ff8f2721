----------------------------- MODULE MCWritePump -----------------------------
(* WritePump with two event goroutines, small enough for TLC.              *)
EXTENDS WritePump, TLC

PublisherSymmetry == Permutations(Publishers)
=============================================================================
