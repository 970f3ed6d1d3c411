------------------------------ MODULE Dispatch ------------------------------
(***************************************************************************)
(* One request on its way through `forward` (src/src/lib.rs): which        *)
(* upstream it goes to, whose credential it carries, what is sent again    *)
(* after a 401 and what the client is told.  Between two reads of a store  *)
(* its owner may rewrite it, and a read may fail: the credential is looked *)
(* up before the body has arrived, the token and the Claude Code version   *)
(* after it, the expiry and the replacement after upstream has answered.   *)
(*                                                                         *)
(* The headers and the billing prefix the hooks add are those of a build   *)
(* that has them (build.rs).  Of the memo in front of the keychain this    *)
(* module keeps that a read may give what the keychain held before.  Its   *)
(* clock, the poll's, the permit, compression, and how answers are         *)
(* translated have modules of their own.                                   *)
(***************************************************************************)
EXTENDS Naturals, Sequences, FiniteSets

CONSTANTS
  Paths,          \* the paths clients ask for, of those named below
  ClientAuth,     \* what a client may put into the two auth headers
  Versions,       \* what the version cache may answer
  Accounts,       \* ChatGPT accounts
  NoAccount,
  MaxIssued       \* bound: tokens are numbered in the order they are issued

VARIABLES
  config,         \* token_source, token_source_codex and the platform
  keychain, file, \* Claude Code's two stores, as they are
  memo,           \* earlier contents of the keychain that a read may still give, in order
  authFile,       \* ~/.codex/auth.json: one usable credential, or none
  refreshed,      \* the memoised grant, at most one
  issued,         \* the last token number given out
  pc, request,    \* the request and where forward is with it
  codexCred,      \* codex_cred
  override,       \* override_token
  rejectedExpiry, \* what anthropic_expiry says: {} if it was not read
  sent,           \* the attempts made, oldest first
  reply,          \* what the client got, at most one
  touched,        \* what was done to the user's stored credential on the way
  looks,          \* what looking up Claude Code's credential has given this request
  settled         \* the user has not gone over to another ChatGPT account

stores  == <<keychain, memo, file, authFile, refreshed, issued>>
choices == <<codexCred, override, rejectedExpiry>>
vars == <<config, stores, pc, request, choices, sent, reply, touched, looks, settled>>

-----------------------------------------------------------------------------
(* Paths, providers and targets. *)

Disguised == {"/v1/messages", "/v1/messages/count_tokens"}
Translated == {"/codex/v1/chat/completions"}

\* The lists of prefixes, and Anthropic for every path they leave out.
detect_provider(path) ==
  CASE path \in {"/v1/messages", "/v1/messages/count_tokens", "/v1/messages/batches"} -> "Anthropic"
    [] path \in {"/v1/chat/completions", "/v1/embeddings", "/v1/files"} -> "OpenAI"
    [] path = "/v1beta/models" -> "Gemini"
    [] path = "/v1/responses" \/ path \in Translated -> "Codex"
    [] OTHER -> "Anthropic"

upstream_for(provider) ==
  CASE provider = "Anthropic" -> "api.anthropic.com"
    [] provider = "OpenAI" -> "api.openai.com"
    [] provider = "Gemini" -> "generativelanguage.googleapis.com"
    [] provider = "Codex" -> "chatgpt.com"

token_source_for(provider) == IF provider = "Codex" THEN config.sourceCodex ELSE config.source

codex_target_path(path) == IF path \in Translated THEN "/responses" ELSE "less /v1"

(* Credentials. *)

\* A token; the account is what a header must name beside it, the place where
\* it was read.
Token(kind, id, account, place) ==
  [kind |-> kind, id |-> id, account |-> account, place |-> place]

ClaudeToken(c) == Token("claude", c.id, NoAccount, c.place)

\* What reading a store of Claude Code's gives: Result<Option<OauthCredential>>.
Denied == [ok |-> FALSE, found |-> {}]
Missing == [ok |-> TRUE, found |-> {}]
Holds(place, id, expired) ==
  [ok |-> TRUE, found |-> {[place |-> place, id |-> id, expired |-> expired]}]

\* What auth.json holds after a login or a refresh: the two auth_modes.
AuthFileTokens(id) ==
  {Token("chatgpt", id, a, "auth.json") : a \in Accounts}
    \cup {Token("openai", id, NoAccount, "auth.json")}
OauthIn(tokens) == {t \in tokens : t.kind = "chatgpt"}

\* What a read of the keychain may give: what it holds, or held when the memo was
\* filled; or it is refused (locked, a dialog dismissed, a timeout).
KeychainReads == {keychain, Denied} \cup {memo[i] : i \in DOMAIN memo}

\* Reads of the keychain are made one at a time, under REFRESH, so the memo never
\* goes back behind an answer.  Dropping it makes no difference here: a read under
\* way then, of another request, still fills it with what it found earlier.
ReadKeychain(answer) ==
  \/ answer = keychain /\ memo' = <<>>
  \/ answer = Denied /\ memo' = memo
  \/ \E i \in DOMAIN memo : answer = memo[i] /\ memo' = SubSeq(memo, i, Len(memo))

\* auth.json may be unreadable for a moment.
AuthFileReads == {authFile, {}}

\* Whether the client authenticates itself: an empty header does not count on the
\* Codex route, any header does on the disguised paths.
Carries(value) == value \notin {"absent", "empty"}
has_client_credential == \E name \in DOMAIN request.auth : Carries(request.auth[name])
AnyAuthHeader == \E name \in DOMAIN request.auth : request.auth[name] # "absent"
OauthShaped == \E name \in DOMAIN request.auth : request.auth[name] = "oat"

\* The file stands in for a keychain without the item or out of reach, never on
\* macOS.
keychain_fallback(fromKeychain) ==
  IF config.macos \/ fromKeychain.found # {} \/ file = Missing THEN fromKeychain ELSE file

resolve_credential(fromKeychain) ==
  CASE config.source = "keychain" -> keychain_fallback(fromKeychain)
    [] config.source = "file" -> file
    [] OTHER -> Missing

\* Claude Code's credential is looked up where the source says; the file has no memo.
LooksUp(fromKeychain) ==
  /\ IF config.source = "keychain" THEN ReadKeychain(fromKeychain) ELSE UNCHANGED memo
  /\ looks' = looks \cup {resolve_credential(fromKeychain)}

\* Only the OAuth mode of auth.json feeds the generic source.
resolve(fromKeychain, fromAuthFile) ==
  CASE config.source \in {"keychain", "file"} ->
         {ClaudeToken(c) : c \in resolve_credential(fromKeychain).found}
    [] config.source = "codex" -> OauthIn(fromAuthFile)
    [] config.source = "env" -> {Token("env", 0, NoAccount, "env")}
    [] OTHER -> {}

\* Claude Code owns what these two sources hold.
ClaudeOwned == config.source \in {"keychain", "file"}

\* parse_token_source_codex refuses the sources that hold Claude Code's credential.
Sources == {"keychain", "file", "codex", "env", "off"}
CodexSources == Sources \ {"keychain", "file"}

(* What is sent. *)

AuthHeaders == {"authorization", "x-api-key"}
InboundHeaders ==
  {"content-type", "accept", "anthropic-beta", "accept-encoding", "connection", "host"}
    \cup {name \in AuthHeaders : request.auth[name] # "absent"}
never_forwarded == {"accept-encoding", "connection", "host"}

\* The first attempt drops the client's auth headers if the gateway puts in a
\* credential, and its betas if the disguise sets them, merged.
FirstHeaders(disguise, attached) ==
  InboundHeaders \ (never_forwarded
                      \cup (IF attached # {} THEN AuthHeaders ELSE {})
                      \cup (IF disguise # {} THEN {"anthropic-beta"} ELSE {}))

CodexRetryHeaders == InboundHeaders \ (never_forwarded \cup AuthHeaders)

\* Slip: the client's betas go along beside the merged ones.
RetryHeadersRaw == InboundHeaders \ (never_forwarded \cup AuthHeaders)

AnthropicRetryHeaders ==
  InboundHeaders \ (never_forwarded \cup AuthHeaders \cup {"anthropic-beta"})

ApiKeyMode == \E t \in codexCred : t.kind = "openai"

Translating == request.path \in Translated

target_url ==
  IF ApiKeyMode
  THEN [host |-> "api.openai.com",
        path |-> IF Translating THEN "/v1/responses" ELSE "as received"]
  ELSE IF detect_provider(request.path) = "Codex"
  THEN [host |-> upstream_for("Codex"), path |-> codex_target_path(request.path)]
  ELSE [host |-> upstream_for(detect_provider(request.path)), path |-> "as received"]

\* The body is the client's, translated, or under a billing prefix that claims
\* a version.
Attempt(headers, token, account, claims) ==
  [url |-> target_url, headers |-> headers, token |-> token, account |-> account,
   claims |-> claims, translated |-> Translating]

-----------------------------------------------------------------------------
Init ==
  /\ config \in [source : Sources, sourceCodex : CodexSources, macos : BOOLEAN]
  /\ keychain \in {Missing, Holds("keychain", 3, FALSE), Holds("keychain", 3, TRUE)}
  /\ memo \in {<<>>, <<Holds("keychain", 2, FALSE)>>, <<Holds("keychain", 2, TRUE)>>}
  /\ file \in {Missing, Denied, Holds("file", 1, TRUE), Holds("file", 1, FALSE)}
  /\ authFile \in {{}} \cup {{t} : t \in AuthFileTokens(1)}
  /\ refreshed \in {{}} \cup {{t} : t \in OauthIn(authFile)}
  /\ issued = 3
  /\ request \in [path : Paths, auth : ClientAuth]
  /\ pc = "accepted"
  /\ codexCred = {} /\ override = {} /\ rejectedExpiry = {}
  /\ sent = <<>> /\ reply = {} /\ touched = {}
  /\ looks = {} /\ settled = TRUE

\* The mode of the Codex credential decides host and path before the body is read.
\* A token of another source has no account.
ResolveCodex ==
  /\ pc = "accepted"
  /\ \E fromAuthFile \in AuthFileReads :
       codexCred' =
         IF detect_provider(request.path) # "Codex" \/ has_client_credential THEN {}
         ELSE CASE token_source_for("Codex") = "codex" -> fromAuthFile
                [] token_source_for("Codex") = "env" -> {Token("env", 0, NoAccount, "env")}
                [] OTHER -> {}
  /\ pc' = "reading body"
  /\ UNCHANGED <<config, stores, request, override, rejectedExpiry, sent, reply, touched, looks, settled>>

\* The body is too long or breaks off, or it is not JSON: 502.  A chat that cannot
\* be translated: 400.
BodyRefused ==
  /\ pc = "reading body"
  /\ \E status \in {502} \cup (IF Translating THEN {400} ELSE {}) :
       reply' = {[by |-> "gateway", status |-> status]}
  /\ pc' = "done"
  /\ UNCHANGED <<config, stores, request, choices, sent, touched, looks, settled>>

AccountOf(tokens) == {t.account : t \in tokens} \ {NoAccount}

\* The gate, the version and the first attempt: nothing is awaited between them.
\* An OAuth-shaped token of the client's, or no auth header at all, is replaced
\* by the stored token; what cannot be read is not replaced.  The version cache is
\* asked once; VersionCache has its answers.
BodyArrives ==
  /\ pc = "reading body"
  /\ IF config.source # "off" /\ request.path \in Disguised /\ (OauthShaped \/ ~AnyAuthHeader)
     THEN \E fromKeychain \in KeychainReads, fromAuthFile \in AuthFileReads :
            override' = resolve(fromKeychain, fromAuthFile) /\ LooksUp(fromKeychain)
     ELSE override' = {} /\ UNCHANGED <<memo, looks>>
  /\ \E v \in Versions :
       LET attached == override' \cup codexCred IN
       sent' = <<Attempt(FirstHeaders(override', attached), attached, AccountOf(codexCred),
                         IF override' # {} THEN {v} ELSE {})>>
  /\ pc' = "sent"
  /\ UNCHANGED <<config, keychain, file, authFile, refreshed, issued, request, codexCred,
                 rejectedExpiry, reply, touched, settled>>

UpstreamAnswers(status) == reply' = {[by |-> "upstream", status |-> status]} /\ pc' = "done"

\* Slip: an API key is retried as well.
RetryAnyMode == codexCred # {}

\* Only a credential this gateway attached, and one that can be refreshed.
codex_retry_eligible == \E t \in codexCred : t.kind # "openai"

\* Slip: the source that is configured decides, not what this request carried.
AnthropicRejectedBySource == detect_provider(request.path) = "Anthropic" /\ ClaudeOwned

\* Only a token this gateway attached, from a store Claude Code owns.
AnthropicRejected == override # {} /\ ClaudeOwned

\* Anything but a 401 of the gateway's own credential goes back to the client.
\* Without an answer the client gets a 502.
FirstPasses ==
  /\ pc = "sent"
  /\ \/ \E status \in {200, 500} : UpstreamAnswers(status)
     \/ ~codex_retry_eligible /\ ~AnthropicRejected /\ UpstreamAnswers(401)
     \/ codex_retry_eligible /\ token_source_for("Codex") # "codex" /\ UpstreamAnswers(401)
     \/ reply' = {[by |-> "gateway", status |-> 502]} /\ pc' = "done"
  /\ UNCHANGED <<config, stores, request, choices, sent, touched, looks, settled>>

\* refreshed_access_token: the memoised grant, or one made with whatever the file
\* holds by now; without either upstream's 401 stands.  CodexRefresh has its steps.
CodexRejected ==
  /\ pc = "sent"
  /\ codex_retry_eligible
  /\ token_source_for("Codex") = "codex"
  /\ pc' = "refreshing"
  /\ UNCHANGED <<config, stores, request, choices, sent, reply, touched, looks, settled>>

\* Slip: the account is read again for the retry; a failed read leaves it out.
RetryWithRead(fresh) ==
  \E fromAuthFile \in AuthFileReads :
    sent' = Append(sent, Attempt(CodexRetryHeaders, {fresh}, AccountOf(fromAuthFile), {}))

\* The headers, the target and the translated body of the first attempt with the
\* account it named; only the token is another.
RetryWith(fresh) ==
  sent' = Append(sent, Attempt(CodexRetryHeaders, {fresh}, AccountOf(codexCred), {}))

CodexRetries ==
  /\ pc = "refreshing"
  /\ \/ /\ \E fresh \in refreshed : RetryWith(fresh)
        /\ UNCHANGED <<refreshed, issued, authFile, touched>>
     \/ /\ refreshed = {} /\ issued < MaxIssued
        /\ \E t \in OauthIn(authFile) :
             LET fresh == Token("chatgpt", issued + 1, t.account, t.place) IN
             /\ RetryWith(fresh)
             /\ refreshed' = {fresh}
             /\ authFile' \in {{fresh}, authFile}
        /\ issued' = issued + 1
        /\ touched' = touched \cup {"refresh token"}
  /\ pc' = "sent again"
  /\ UNCHANGED <<config, keychain, memo, file, request, choices, reply, looks, settled>>

CodexGivesUp ==
  /\ pc = "refreshing"
  /\ refreshed = {}
  /\ UpstreamAnswers(401)
  /\ UNCHANGED <<config, stores, request, choices, sent, touched, looks, settled>>

\* The memo is dropped, at most once per cooldown, then the expiry is read: of what
\* the store holds by now.  One that is unknown, or could not be read, counts as expired.
AnthropicRejects ==
  /\ pc = "sent"
  /\ AnthropicRejected
  /\ \E fromKeychain \in KeychainReads :
       /\ rejectedExpiry' = {\A c \in resolve_credential(fromKeychain).found : c.expired}
       /\ LooksUp(fromKeychain)
  /\ touched' = touched \cup {"memo"}
  /\ pc' = "waiting"
  /\ UNCHANGED <<config, keychain, file, authFile, refreshed, issued, request, codexCred,
                 override, sent, reply, settled>>

\* wait_for_rotation has found another token than the rejected one: the first
\* attempt's version is claimed again.
AnthropicRetries ==
  /\ pc = "waiting"
  /\ \E fromKeychain \in KeychainReads :
       /\ \E t \in resolve(fromKeychain, {}) \ override :
            sent' = Append(sent, Attempt(AnthropicRetryHeaders, {t}, {}, sent[1].claims))
       /\ LooksUp(fromKeychain)
  /\ pc' = "sent again"
  /\ UNCHANGED <<config, keychain, file, authFile, refreshed, issued, request, choices,
                 reply, touched, settled>>

\* Slip: off macOS the file is named, wherever the token came from.
DescribeByPlatform(fromKeychain) ==
  IF config.source = "keychain" /\ config.macos THEN "keychain" ELSE "file"

\* Where to look, in words.
describe_credential_store(fromKeychain) ==
  IF config.source = "file" THEN "file"
  ELSE IF config.macos \/ fromKeychain.found # {} THEN "keychain" ELSE "file"

\* What happened, and in which store.
auth_error_body(fromKeychain, retried) ==
  [by |-> "gateway", status |-> 401,
   what |-> IF retried THEN "newer one rejected too"
            ELSE IF TRUE \in rejectedExpiry THEN "expired" ELSE "revoked",
   store |-> describe_credential_store(fromKeychain)]

\* Off macOS the keychain is read once more for it, if it is the source.
Explained(retried) ==
  /\ IF config.source = "keychain" /\ ~config.macos
     THEN \E fromKeychain \in KeychainReads :
            reply' = {auth_error_body(fromKeychain, retried)} /\ LooksUp(fromKeychain)
     ELSE reply' = {auth_error_body(Missing, retried)} /\ UNCHANGED <<memo, looks>>
  /\ pc' = "done"

WaitEnds ==
  /\ pc = "waiting"
  /\ Explained(FALSE)
  /\ UNCHANGED <<config, keychain, file, authFile, refreshed, issued, request, choices,
                 sent, touched, settled>>

\* A second 401 is final: explained if it was the gateway's token, else passed on.
RetryAnswered ==
  /\ pc = "sent again"
  /\ \/ \E status \in {200, 500} : UpstreamAnswers(status) /\ UNCHANGED <<memo, looks>>
     \/ rejectedExpiry = {} /\ UpstreamAnswers(401) /\ UNCHANGED <<memo, looks>>
     \/ rejectedExpiry # {} /\ Explained(TRUE)
     \/ /\ reply' = {[by |-> "gateway", status |-> 502]} /\ pc' = "done"
        /\ UNCHANGED <<memo, looks>>
  /\ UNCHANGED <<config, keychain, file, authFile, refreshed, issued, request, choices,
                 sent, touched, settled>>

\* hyper drops the handler when the client hangs up, wherever it waits.
ClientLeaves ==
  /\ pc \in {"reading body", "sent", "refreshing", "waiting", "sent again"}
  /\ pc' = "done"
  /\ UNCHANGED <<config, stores, request, choices, sent, reply, touched, looks, settled>>

-----------------------------------------------------------------------------
Waits == pc \in {"reading body", "sent", "refreshing", "waiting", "sent again"}

\* The keychain has another content; a read under way or the memo keeps the old one.
KeychainBecomes(content) == keychain' = content /\ memo' = Append(memo, keychain)

\* Claude Code refreshes its credential, or logs out.
ClaudeRewrites ==
  /\ Waits
  /\ ClaudeOwned
  /\ \/ /\ issued < MaxIssued
        /\ issued' = issued + 1
        /\ \/ KeychainBecomes(Holds("keychain", issued', FALSE)) /\ UNCHANGED file
           \/ file' = Holds("file", issued', FALSE) /\ UNCHANGED <<keychain, memo>>
     \/ keychain.found # {} /\ KeychainBecomes(Missing) /\ UNCHANGED <<file, issued>>
     \/ file.found # {} /\ file' = Missing /\ UNCHANGED <<keychain, memo, issued>>
  /\ UNCHANGED <<config, authFile, refreshed, pc, request, choices, sent, reply, touched, looks, settled>>

\* Codex CLI refreshes, or the user logs in to an account or with an API key.
CodexRewrites ==
  /\ Waits
  /\ codexCred # {}
  /\ issued < MaxIssued
  /\ issued' = issued + 1
  /\ \E t \in AuthFileTokens(issued') :
       /\ authFile' = {t}
       /\ settled' = (settled /\ \A u \in OauthIn(codexCred \cup refreshed) : u.account = t.account)
  /\ UNCHANGED <<config, keychain, memo, file, refreshed, pc, request, choices, sent, reply,
                 touched, looks>>

\* The memoised grant ages out.
GrantExpires ==
  /\ Waits
  /\ refreshed # {}
  /\ refreshed' = {}
  /\ UNCHANGED <<config, keychain, memo, file, authFile, issued, pc, request, choices, sent,
                 reply, touched, looks, settled>>

Next ==
  \/ ResolveCodex \/ BodyRefused \/ BodyArrives \/ FirstPasses
  \/ CodexRejected \/ CodexRetries \/ CodexGivesUp
  \/ AnthropicRejects \/ AnthropicRetries \/ WaitEnds \/ RetryAnswered \/ ClientLeaves
  \/ ClaudeRewrites \/ CodexRewrites \/ GrantExpires

Spec == Init /\ [][Next]_vars

-----------------------------------------------------------------------------
\* A stored credential only ever goes where it belongs, also in a retry after the
\* store has changed its mode: an API key to the public API, a ChatGPT token to
\* its backend (or, where the operator made auth.json the generic source, to
\* Anthropic), Claude Code's token to Anthropic's Messages endpoints; and never
\* in company of the client's own.
CredentialsStayHome ==
  \A i \in DOMAIN sent : \A t \in sent[i].token :
    /\ AuthHeaders \cap sent[i].headers = {}
    /\ t.kind = "openai" => sent[i].url.host = "api.openai.com"
    /\ t.kind = "chatgpt" => \/ sent[i].url.host = "chatgpt.com"
                             \/ config.source = "codex" /\ request.path \in Disguised
    /\ t.kind = "claude" =>
         sent[i].url.host = "api.anthropic.com" /\ request.path \in Disguised

\* A client that authenticates itself is left alone: its headers go out as they
\* came, once; its bad key neither refreshes nor invalidates the user's stored
\* credential, and the 401 it gets is upstream's (lines 1062-1070, 1689-1695).
\* An OAuth-shaped token on a disguised path asks for the stored one.
OwnKeyUntouched ==
  has_client_credential /\ ~(OauthShaped /\ request.path \in Disguised) =>
    /\ Len(sent) <= 1
    /\ \A i \in DOMAIN sent :
         sent[i].token = {} /\ InboundHeaders \cap AuthHeaders \subseteq sent[i].headers
    /\ touched = {}
    /\ \A r \in reply : r.status = 401 => r.by = "upstream"

\* What is sent again is what was sent: target, headers, translation, account and
\* claimed version; and it is sent again only once.
RetryIsSameRequest ==
  /\ Len(sent) <= 2
  /\ Len(sent) = 2 => sent[2] = [sent[1] EXCEPT !.token = sent[2].token]

\* A ChatGPT token goes with the account it belongs to, unless the user has gone
\* over to another account since the token, or the memoised one, was read: the
\* account is the first attempt's, the token what the file or the memo holds now.
TokenMatchesAccount ==
  settled => \A i \in DOMAIN sent : \A t \in sent[i].token :
    sent[i].url.host = "chatgpt.com" => sent[i].account = {t.account} \ {NoAccount}

\* The gateway's own 401 is true of this request.  It is about a token the gateway
\* attached; it says that a newer one failed exactly if one was sent (newer by its
\* store: another store's may be older); and if every look of the request found the
\* same, be it out of date or the file in place of the keychain, it names the store
\* the token came from and blames the token's age exactly if it had expired.
ExplanationIsTrue ==
  \A r \in reply : r.by = "gateway" /\ r.status = 401 =>
    /\ override # {}
    /\ (r.what = "newer one rejected too") <=> (Len(sent) = 2)
    /\ Len(sent) = 2 => \A t \in sent[1].token, u \in sent[2].token :
                          t # u /\ (t.place = u.place => t.id < u.id)
    /\ \A look \in looks :
         looks = {look} => /\ r.store \in {t.place : t \in override}
                           /\ \A c \in look.found : (r.what = "expired") <=> c.expired

=============================================================================
