--------------------------- MODULE CodexRefreshMC ---------------------------
(* Instances of CodexRefresh for TLC. *)
EXTENDS CodexRefresh, TLC

\* Neither the requests nor the process ids are told apart.
Symmetric == Permutations(Requests) \cup Permutations(Pids)
=============================================================================
