----------------------------- MODULE DispatchMC -----------------------------
(***************************************************************************)
(* Instances of Dispatch: every kind of path, the combinations of the two  *)
(* auth headers that the code tells apart, and only those choices of the   *)
(* stores that a request's provider reads.                                 *)
(***************************************************************************)
EXTENDS Dispatch

MCPaths ==
  {"/v1/messages", "/v1/messages/batches", "/v1/models", "/v1/chat/completions",
   "/v1beta/models", "/v1/responses", "/codex/v1/chat/completions"}

\* A header of its own, or both.
MCClientAuth ==
  {auth \in [AuthHeaders -> {"absent", "empty", "key", "oat"}] :
     \/ \E name \in AuthHeaders : auth[name] = "absent"
     \/ auth["authorization"] = "oat" /\ auth["x-api-key"] = "key"}

ReadsClaudeStores == request.path \in Disguised /\ ClaudeOwned
ReadsAuthFile ==
  \/ detect_provider(request.path) = "Codex" /\ config.sourceCodex = "codex"
  \/ request.path \in Disguised /\ config.source = "codex"

\* Stores that are not read, and settings that are not looked at, are one.
MCInit ==
  /\ Init
  /\ ~ReadsClaudeStores => keychain = Missing /\ memo = <<>> /\ file = Missing /\ ~config.macos
  /\ ~ReadsAuthFile => authFile = {}
  /\ detect_provider(request.path) = "Codex" => config.source = "keychain"
  /\ detect_provider(request.path) # "Codex" => config.sourceCodex = "codex"
  /\ request.path \notin Disguised => config.source = "keychain"

MCSpec == MCInit /\ [][Next]_vars

=============================================================================
