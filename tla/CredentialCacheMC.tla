-------------------------- MODULE CredentialCacheMC --------------------------
(* Instances of CredentialCache for TLC. *)
EXTENDS CredentialCache, TLC

Symmetric == Permutations(Callers)
=============================================================================
