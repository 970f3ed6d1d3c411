--------------------------- MODULE DispatchProofs ---------------------------
(***************************************************************************)
(* Proofs about Dispatch: a stored credential never leaves for a host that *)
(* is not its own, a client that authenticates itself is left alone, a     *)
(* retry is the request it repeats, a ChatGPT token travels with its       *)
(* account, and what the gateway says of a 401 is true, for any paths,     *)
(* headers, accounts and number of rewrites of the stores.  The            *)
(* strengthening ties what has been chosen to the request, and the first   *)
(* attempt to what was chosen.                                             *)
(*                                                                         *)
(* And about VersionCache, which names the version a disguised request     *)
(* claims: no answer is older than CACHE_TTL and one run of the binary,    *)
(* for any number of callers and any lengths of the two.  The              *)
(* strengthening says what the memo and the runs know of the age of what   *)
(* they hold.                                                              *)
(***************************************************************************)
EXTENDS Dispatch, VersionCache, SequenceTheorems, TLAPS

OneOf(tokens, kinds) ==
  /\ \A t, u \in tokens : t = u
  /\ \A t \in tokens : t.kind \in kinds

\* auth.json holds one credential, the memo a refreshed one.
StoresHold ==
  OneOf(authFile, {"chatgpt", "openai"}) /\ \A t \in refreshed : t.kind = "chatgpt"

\* What a token on a disguised path may be.
Disguisable(t) == t.kind \in {"claude", "env"} \/ (t.kind = "chatgpt" /\ config.source = "codex")

\* A credential is chosen for a client that brought none, by its route: one for
\* Codex, or one for the disguise, not both.
Chosen ==
  /\ OneOf(codexCred, {"chatgpt", "openai", "env"})
  /\ codexCred # {} => detect_provider(request.path) = "Codex" /\ ~has_client_credential
  /\ override # {} => request.path \in Disguised /\ (OauthShaped \/ ~AnyAuthHeader)
  /\ \A t \in override : Disguisable(t)

\* The first attempt is made of what was chosen.
IsFirst(a) ==
  \E claims \in {{}} \cup {{v} : v \in Versions} :
    /\ a = Attempt(FirstHeaders(override, override \cup codexCred), override \cup codexCred,
                   AccountOf(codexCred), claims)
    /\ override = {} => claims = {}

\* The second is the first with another token that the gateway may put there.
IsAgain(a, b) ==
  /\ b = Attempt(a.headers, b.token, a.account, a.claims)
  /\ IF override # {} THEN \A t \in b.token : t.kind \in {"claude", "env"}
     ELSE codex_retry_eligible /\ \A t \in b.token : t.kind = "chatgpt"

Sends ==
  \/ sent = <<>>
  \/ sent = <<sent[1]>> /\ IsFirst(sent[1])
  \/ sent = <<sent[1], sent[2]>> /\ IsFirst(sent[1]) /\ IsAgain(sent[1], sent[2])

\* What has been decided by the time pc says.
Stage ==
  /\ pc = "accepted" => codexCred = {}
  /\ pc \in {"accepted", "reading body"} => override = {} /\ sent = <<>>
  /\ pc \in {"sent", "refreshing", "waiting"} => sent = <<sent[1]>>
  /\ pc = "refreshing" => codex_retry_eligible
  /\ pc = "waiting" \/ rejectedExpiry # {} => override # {}

\* Only for its own credential does the gateway touch a store or answer 401.
Answerable ==
  /\ touched # {} => override # {} \/ codexCred # {}
  /\ \A r \in reply : r.status = 401 => r.by = "upstream" \/ override # {}

Inv == StoresHold /\ Chosen /\ Sends /\ Stage /\ Answerable

-----------------------------------------------------------------------------
\* The disguised paths are Anthropic's, and not translated.
LEMMA DisguisedIsAnthropic ==
  ASSUME NEW path \in Disguised
  PROVE  detect_provider(path) = "Anthropic"
<1>1. path \in {"/v1/messages", "/v1/messages/count_tokens", "/v1/messages/batches"}
  BY DEF Disguised
<1>2. /\ path \notin {"/v1/chat/completions", "/v1/embeddings", "/v1/files"}
      /\ path # "/v1beta/models" /\ path # "/v1/responses" /\ path \notin Translated
  BY DEF Disguised, Translated
<1> HIDE DEF Disguised
<1> QED BY <1>1, <1>2 DEF detect_provider

\* What the client sent does not change on the way, nor what follows from it.
LEMMA SameClient ==
  ASSUME UNCHANGED request
  PROVE  /\ has_client_credential' <=> has_client_credential
         /\ AnyAuthHeader' <=> AnyAuthHeader
         /\ OauthShaped' <=> OauthShaped
         /\ Translating' <=> Translating
         /\ InboundHeaders' = InboundHeaders
  BY DEF Translating, has_client_credential, AnyAuthHeader, OauthShaped, InboundHeaders

\* The target and the kind of retry depend on the request and its Codex
\* credential only.
LEMMA SameRoute ==
  ASSUME UNCHANGED <<request, codexCred>>
  PROVE  target_url' = target_url /\ (codex_retry_eligible' <=> codex_retry_eligible)
  BY SameClient DEF target_url, ApiKeyMode, Translating, codex_retry_eligible

\* So do the descriptions of the first attempt and of the one that follows it.
LEMMA SameAttempts ==
  ASSUME UNCHANGED <<request, codexCred, override>>
  PROVE  /\ \A a : IsFirst(a)' <=> IsFirst(a)
         /\ \A a, b : IsAgain(a, b)' <=> IsAgain(a, b)
  BY SameRoute, SameClient DEF IsFirst, IsAgain, Attempt, FirstHeaders, AccountOf, Translating

\* What has been chosen and sent stays.
LEMMA Kept ==
  ASSUME Chosen, Sends, UNCHANGED <<config, request, codexCred, override, sent>>
  PROVE  Chosen' /\ Sends'
<1>1. Chosen'
  BY SameClient DEF Chosen, OneOf, Disguisable
<1>2. Sends'
  BY SameAttempts DEF Sends
<1> QED BY <1>1, <1>2

\* A client without either header has no credential of its own.
LEMMA NoHeaderNoCredential == ~AnyAuthHeader => ~has_client_credential
  BY DEF AnyAuthHeader, has_client_credential, Carries

\* Claude Code's stores hold nothing but its own token.
LEMMA ResolvedKinds ==
  ASSUME NEW fromKeychain, NEW fromAuthFile, OneOf(fromAuthFile, {"chatgpt", "openai"}),
         NEW t \in resolve(fromKeychain, fromAuthFile)
  PROVE  Disguisable(t) /\ (fromAuthFile = {} => t.kind \in {"claude", "env"})
<1>1. CASE config.source \in {"keychain", "file"}
  BY <1>1 DEF resolve, ClaudeToken, Token, Disguisable
<1>2. CASE config.source = "codex"
  BY <1>2 DEF resolve, OauthIn, Disguisable
<1>3. CASE config.source = "env"
  BY <1>3 DEF resolve, Token, Disguisable
<1>4. config.source \in {"keychain", "file", "codex", "env"}
  BY DEF resolve
<1> QED BY <1>1, <1>2, <1>3, <1>4

-----------------------------------------------------------------------------
\* The strengthening holds when the request comes in.
LEMMA InvAtStart == Init => Inv
<1> SUFFICES ASSUME Init PROVE Inv
  OBVIOUS
<1>1. OneOf(authFile, {"chatgpt", "openai"})
  BY DEF Init, AuthFileTokens, Token, OneOf
<1>2. \A t \in refreshed : t.kind = "chatgpt"
  BY DEF Init, OauthIn
<1>3. StoresHold
  BY <1>1, <1>2 DEF StoresHold
<1> QED BY <1>3 DEF Init, Inv, Chosen, Sends, Stage, Answerable, OneOf

\* The Codex credential is chosen by route, of one kind or the other.
LEMMA ResolveCodexStays == ASSUME Inv, ResolveCodex PROVE Inv'
<1>1. /\ pc = "accepted" /\ pc' = "reading body"
      /\ UNCHANGED <<config, stores, request, override, rejectedExpiry, sent, reply, touched>>
      /\ override = {} /\ sent = <<>> /\ codexCred = {}
  BY DEF ResolveCodex, Inv, Stage
<1>2. /\ OneOf(codexCred', {"chatgpt", "openai", "env"})
      /\ codexCred' # {} => detect_provider(request.path) = "Codex" /\ ~has_client_credential
  <2>1. PICK fromAuthFile \in AuthFileReads :
          codexCred' =
            IF detect_provider(request.path) # "Codex" \/ has_client_credential THEN {}
            ELSE CASE token_source_for("Codex") = "codex" -> fromAuthFile
                   [] token_source_for("Codex") = "env" -> {Token("env", 0, NoAccount, "env")}
                   [] OTHER -> {}
    BY DEF ResolveCodex
  <2>2. codexCred' \in {{}, fromAuthFile, {Token("env", 0, NoAccount, "env")}}
    BY <2>1
  <2>3. OneOf(fromAuthFile, {"chatgpt", "openai", "env"})
    BY DEF AuthFileReads, OneOf, Inv, StoresHold
  <2>4. OneOf(codexCred', {"chatgpt", "openai", "env"})
    BY <2>2, <2>3 DEF Token, OneOf
  <2> QED BY <2>1, <2>4
<1>3. Chosen'
  BY <1>1, <1>2, SameClient DEF Chosen, OneOf
<1>4. StoresHold'
  BY <1>1 DEF Inv, StoresHold, stores, OneOf
<1>5. Sends' /\ Stage' /\ Answerable'
  BY <1>1 DEF Inv, Sends, Stage, Answerable
<1> QED BY <1>3, <1>4, <1>5 DEF Inv

\* The gate chooses a token for the disguised paths, and the first attempt is sent.
LEMMA BodyArrivesStays == ASSUME Inv, BodyArrives PROVE Inv'
<1>1. /\ pc = "reading body" /\ pc' = "sent"
      /\ UNCHANGED <<config, authFile, refreshed, request, codexCred, rejectedExpiry, reply, touched>>
      /\ override = {} /\ sent = <<>>
  BY DEF BodyArrives, Inv, Stage
<1>2. PICK fromKeychain, fromAuthFile :
        /\ fromAuthFile \in AuthFileReads
        /\ override' \subseteq resolve(fromKeychain, fromAuthFile)
        /\ override' # {} => request.path \in Disguised /\ (OauthShaped \/ ~AnyAuthHeader)
  <2>1. CASE config.source # "off" /\ request.path \in Disguised /\ (OauthShaped \/ ~AnyAuthHeader)
    <3>1. \E k \in KeychainReads, a \in AuthFileReads : override' = resolve(k, a) /\ LooksUp(k)
      BY <2>1, Zenon DEF BodyArrives
    <3> QED BY <2>1, <3>1
  <2>2. CASE ~(config.source # "off" /\ request.path \in Disguised /\ (OauthShaped \/ ~AnyAuthHeader))
    <3>1. override' = {} /\ authFile \in AuthFileReads
      BY <2>2 DEF BodyArrives, AuthFileReads
    <3> QED BY <3>1
  <2> QED BY <2>1, <2>2
<1>3. PICK claims \in {{}} \cup {{v} : v \in Versions} :
        /\ override' = {} => claims = {}
        /\ sent' = <<Attempt(FirstHeaders(override', override' \cup codexCred), override' \cup codexCred,
                             AccountOf(codexCred), claims)>>
  BY DEF BodyArrives
<1>4. OneOf(fromAuthFile, {"chatgpt", "openai"})
  BY <1>2 DEF AuthFileReads, OneOf, Inv, StoresHold
<1>5. /\ override' # {} => request.path \in Disguised /\ (OauthShaped \/ ~AnyAuthHeader)
      /\ \A t \in override' : Disguisable(t)
  BY <1>2, <1>4, ResolvedKinds
<1>6. Chosen'
  BY <1>1, <1>5, SameClient DEF Inv, Chosen, OneOf, Disguisable
<1>7. sent' = <<sent'[1]>> /\ IsFirst(sent[1])'
  <2>1. UNCHANGED <<request, codexCred>>
    BY <1>1
  <2>2. sent'[1] = Attempt(FirstHeaders(override', override' \cup codexCred), override' \cup codexCred,
                           AccountOf(codexCred), claims)
    BY <1>3
  <2>3. sent'[1] = Attempt(FirstHeaders(override, override \cup codexCred), override \cup codexCred,
                           AccountOf(codexCred), claims)'
    BY <2>1, <2>2, SameRoute, SameClient DEF Attempt, FirstHeaders, AccountOf, Translating
  <2>4. IsFirst(sent[1])'
    BY <1>3, <2>3 DEF IsFirst
  <2> QED BY <1>3, <2>4
<1>8. Sends' /\ Stage'
  BY <1>1, <1>7 DEF Inv, Sends, Stage
<1>9. StoresHold' /\ Answerable'
  BY <1>1 DEF Inv, StoresHold, stores, OneOf, Answerable, Stage
<1> QED BY <1>6, <1>8, <1>9 DEF Inv

\* An unread body is not answered 401; a second 401 passes if it is not the gateway's.
LEMMA BodyRefusedSays ==
  ASSUME BodyRefused
  PROVE  \A r \in reply' : r.status = 401 => r.by = "upstream"
<1>1. PICK status \in {502} \cup (IF Translating THEN {400} ELSE {}) :
        reply' = {[by |-> "gateway", status |-> status]}
  BY DEF BodyRefused
<1>2. status # 401
  BY DEF Translating
<1> QED BY <1>1, <1>2

\* After a request whose token's expiry was not looked at, a 401 is upstream's.
LEMMA RetryAnsweredSays ==
  ASSUME RetryAnswered, rejectedExpiry = {}
  PROVE  \A r \in reply' : r.status = 401 => r.by = "upstream"
<1>1. CASE \E status \in {200, 500} : UpstreamAnswers(status) /\ UNCHANGED <<memo, looks>>
  BY <1>1 DEF UpstreamAnswers
<1>2. CASE UpstreamAnswers(401)
  BY <1>2 DEF UpstreamAnswers
<1>3. CASE reply' = {[by |-> "gateway", status |-> 502]}
  BY <1>3
<1> QED BY <1>1, <1>2, <1>3 DEF RetryAnswered

\* Most steps leave what was chosen and sent as it is.
LEMMA AnswersStay ==
  ASSUME Inv, BodyRefused \/ FirstPasses \/ CodexGivesUp \/ WaitEnds \/ RetryAnswered
  PROVE  Inv'
<1>1. /\ pc' = "done"
      /\ UNCHANGED <<config, authFile, refreshed, request, choices, sent, touched>>
  BY DEF BodyRefused, FirstPasses, CodexGivesUp, WaitEnds, RetryAnswered, UpstreamAnswers, Explained, stores
<1>2. \A r \in reply' : r.status = 401 => r.by = "upstream" \/ override # {}
  <2>1. CASE BodyRefused
    BY <2>1, BodyRefusedSays
  <2>2. CASE FirstPasses
    BY <2>2 DEF FirstPasses, UpstreamAnswers
  <2>3. CASE CodexGivesUp
    BY <2>3 DEF CodexGivesUp, UpstreamAnswers
  <2>4. CASE WaitEnds
    BY <2>4 DEF WaitEnds, Inv, Stage
  <2>5. CASE RetryAnswered
    <3>1. CASE rejectedExpiry # {}
      BY <3>1 DEF Inv, Stage
    <3>2. CASE rejectedExpiry = {}
      BY <3>2, <2>5, RetryAnsweredSays
    <3> QED BY <3>1, <3>2
  <2> QED BY <2>1, <2>2, <2>3, <2>4, <2>5
<1>3. Chosen' /\ Sends'
  BY <1>1, Kept DEF Inv, choices
<1>4. StoresHold'
  BY <1>1 DEF Inv, StoresHold, stores, OneOf
<1>5. Stage' /\ Answerable'
  BY <1>1, <1>2 DEF Inv, Stage, Answerable, choices
<1> QED BY <1>3, <1>4, <1>5 DEF Inv

\* So do the waits they come from.
LEMMA WaitsStay ==
  ASSUME Inv, CodexRejected \/ AnthropicRejects \/ ClientLeaves
  PROVE  Inv'
<1>1. UNCHANGED <<config, authFile, refreshed, request, codexCred, override, sent, reply>>
  BY DEF CodexRejected, AnthropicRejects, ClientLeaves, choices, stores
<1>2. Chosen' /\ Sends'
  BY <1>1, Kept DEF Inv
<1>3. StoresHold'
  BY <1>1 DEF Inv, StoresHold, stores, OneOf
<1>4. Stage'
  <2>1. CASE CodexRejected
    BY <2>1, <1>1, SameRoute DEF CodexRejected, Inv, Stage, choices
  <2>2. CASE AnthropicRejects
    BY <2>2, <1>1 DEF AnthropicRejects, AnthropicRejected, Inv, Stage
  <2>3. CASE ClientLeaves
    BY <2>3, <1>1 DEF ClientLeaves, Inv, Stage, choices
  <2> QED BY <2>1, <2>2, <2>3
<1>5. Answerable'
  <2>1. touched' # {} => touched # {} \/ override # {}
    BY DEF CodexRejected, AnthropicRejects, AnthropicRejected, ClientLeaves
  <2> QED BY <1>1, <2>1 DEF Inv, Answerable
<1> QED BY <1>2, <1>3, <1>4, <1>5 DEF Inv

\* The owners of the stores write credentials of the same kinds.
LEMMA OwnersStay ==
  ASSUME Inv, ClaudeRewrites \/ CodexRewrites \/ GrantExpires
  PROVE  Inv'
<1>1. UNCHANGED <<config, pc, request, choices, sent, reply, touched>>
  BY DEF ClaudeRewrites, CodexRewrites, GrantExpires
<1>2. Chosen' /\ Sends'
  BY <1>1, Kept DEF Inv, choices
<1>3. StoresHold'
  <2>1. authFile' = authFile \/ \E t : authFile' = {t} /\ t.kind \in {"chatgpt", "openai"}
    <3>1. CASE CodexRewrites
      <4>1. PICK t \in AuthFileTokens(issued') : authFile' = {t}
        BY <3>1 DEF CodexRewrites
      <4>2. t.kind \in {"chatgpt", "openai"}
        BY DEF AuthFileTokens, Token
      <4> QED BY <4>1, <4>2
    <3>2. CASE ClaudeRewrites \/ GrantExpires
      BY <3>2 DEF ClaudeRewrites, GrantExpires
    <3> QED BY <3>1, <3>2
  <2>2. refreshed' \subseteq refreshed
    BY DEF ClaudeRewrites, CodexRewrites, GrantExpires
  <2> QED BY <2>1, <2>2 DEF Inv, StoresHold, OneOf
<1>4. Stage'
  BY <1>1, SameRoute DEF Inv, Stage, choices
<1>5. Answerable'
  BY <1>1 DEF Inv, Answerable, choices
<1> QED BY <1>2, <1>3, <1>4, <1>5 DEF Inv

\* What has been sent first is made of what was chosen: the fields of the attempt.
LEMMA FirstIsFirst ==
  ASSUME Sends, sent = <<sent[1]>>
  PROVE  IsFirst(sent[1])
  BY DEF Sends

\* What `Sends` says of the first attempt, field by field.
LEMMA FirstFields ==
  ASSUME NEW a, IsFirst(a)
  PROVE  /\ a.headers = FirstHeaders(override, override \cup codexCred)
         /\ a.account = AccountOf(codexCred)
         /\ override = {} => a.claims = {}
  BY DEF IsFirst, Attempt

\* An attempt carries the token it is made with.
LEMMA AttemptFields ==
  ASSUME NEW headers, NEW token, NEW account, NEW claims
  PROVE  Attempt(headers, token, account, claims).token = token
  BY DEF Attempt

\* A second attempt appended to a first makes the pair of them.
LEMMA AppendSecond ==
  ASSUME NEW a, NEW b
  PROVE  Append(<<a>>, b) = <<a, b>>
<1>1. <<a>> \in Seq({a, b}) /\ <<a, b>> \in Seq({a, b}) /\ Len(<<a>>) = 1 /\ Len(<<a, b>>) = 2
  OBVIOUS
<1>2. /\ Append(<<a>>, b) \in Seq({a, b}) /\ Len(Append(<<a>>, b)) = 2
      /\ Append(<<a>>, b)[1] = a /\ Append(<<a>>, b)[2] = b
  BY <1>1
<1>3. \A i \in 1 .. 2 : Append(<<a>>, b)[i] = <<a, b>>[i]
  BY <1>2
<1> QED BY <1>1, <1>2, <1>3, SeqEqual

\* A second attempt like the first takes its place behind it.
LEMMA SecondJoins ==
  ASSUME Sends, sent = <<sent[1]>>, UNCHANGED <<request, codexCred, override>>,
         NEW b, IsAgain(sent[1], b), sent' = Append(sent, b)
  PROVE  Sends'
<1>1. PICK first : first = sent[1]
  OBVIOUS
<1>1a. sent = <<first>>
  BY <1>1
<1>1b. sent' = <<first, b>>
  BY <1>1a, AppendSecond, Zenon
<1>2. IsFirst(sent[1])
  BY FirstIsFirst
<1>3. PICK a, c : a = sent[1] /\ c = b /\ sent' = <<a, c>>
  BY <1>1, <1>1b
<1>4. IsFirst(a)' /\ IsAgain(a, c)'
  BY <1>2, <1>3, SameAttempts
<1>5. sent'[1] = a /\ sent'[2] = c
  BY <1>3
<1>6. (IsFirst(sent[1]) /\ IsAgain(sent[1], sent[2]))'
  BY <1>4, <1>5 DEF IsFirst, IsAgain
<1> QED BY <1>3, <1>5, <1>6 DEF Sends

\* After its own rejected credential the gateway repeats the first attempt with the
\* token of the grant.
LEMMA CodexRetriesStays == ASSUME Inv, CodexRetries PROVE Inv'
<1>1. /\ pc = "refreshing" /\ pc' = "sent again"
      /\ UNCHANGED <<config, request, choices, reply>>
      /\ sent = <<sent[1]>> /\ codex_retry_eligible
  BY DEF CodexRetries, Inv, Stage
<1>2. codexCred # {} /\ override = {}
  BY <1>1, DisguisedIsAnthropic DEF codex_retry_eligible, Inv, Chosen
<1>3. PICK fresh :
        /\ fresh.kind = "chatgpt"
        /\ RetryWith(fresh)
        /\ \/ UNCHANGED <<refreshed, authFile, touched>>
           \/ refreshed' = {fresh} /\ authFile' \in {{fresh}, authFile}
  <2>1. CASE \E fresh \in refreshed : RetryWith(fresh) /\ UNCHANGED <<refreshed, authFile, touched>>
    BY <2>1 DEF Inv, StoresHold
  <2>2. CASE \E t \in OauthIn(authFile) :
               LET fresh == Token("chatgpt", issued + 1, t.account, t.place) IN
               RetryWith(fresh) /\ refreshed' = {fresh} /\ authFile' \in {{fresh}, authFile}
    BY <2>2 DEF Token
  <2> QED BY <2>1, <2>2, Zenon DEF CodexRetries
<1>4. IsFirst(sent[1])
  BY <1>1, FirstIsFirst DEF Inv
<1>5. PICK b : b = Attempt(CodexRetryHeaders, {fresh}, AccountOf(codexCred), {})
  OBVIOUS
<1>6. b = Attempt(sent[1].headers, b.token, sent[1].account, sent[1].claims) /\ b.token = {fresh}
  <2>1. /\ sent[1].headers = CodexRetryHeaders
        /\ sent[1].account = AccountOf(codexCred)
        /\ sent[1].claims = {}
    BY <1>2, <1>4, FirstFields DEF FirstHeaders, CodexRetryHeaders
  <2> QED BY <2>1, <1>5, AttemptFields
<1>7. IsAgain(sent[1], b)
  BY <1>1, <1>2, <1>3, <1>6 DEF IsAgain
<1>8. sent' = Append(sent, b)
  BY <1>3, <1>5 DEF RetryWith
<1>9. Sends'
  BY <1>1, <1>7, <1>8, SecondJoins DEF Inv, choices
<1>10. Chosen'
  BY <1>1, SameClient DEF Inv, Chosen, OneOf, Disguisable, choices
<1>11. StoresHold'
  BY <1>3 DEF Inv, StoresHold, OneOf
<1>12. Stage' /\ Answerable'
  BY <1>1, <1>2 DEF Inv, Stage, Answerable, choices
<1> QED BY <1>9, <1>10, <1>11, <1>12 DEF Inv

\* After a rotation it repeats the first attempt with the token the source holds now.
LEMMA AnthropicRetriesStays == ASSUME Inv, AnthropicRetries PROVE Inv'
<1>1. /\ pc = "waiting" /\ pc' = "sent again"
      /\ UNCHANGED <<config, authFile, refreshed, request, choices, reply, touched>>
      /\ sent = <<sent[1]>> /\ override # {}
  BY DEF AnthropicRetries, Inv, Stage
<1>2. codexCred = {}
  BY <1>1, DisguisedIsAnthropic DEF Inv, Chosen
<1>2a. PICK fromKeychain \in KeychainReads : \E t \in resolve(fromKeychain, {}) :
         sent' = Append(sent, Attempt(AnthropicRetryHeaders, {t}, {}, sent[1].claims))
  BY DEF AnthropicRetries
<1>3. PICK t \in resolve(fromKeychain, {}) :
        sent' = Append(sent, Attempt(AnthropicRetryHeaders, {t}, {}, sent[1].claims))
  BY <1>2a
<1>4. t.kind \in {"claude", "env"}
  BY ResolvedKinds DEF OneOf
<1>5. IsFirst(sent[1])
  BY <1>1, FirstIsFirst DEF Inv
<1>6. PICK b : b = Attempt(AnthropicRetryHeaders, {t}, {}, sent[1].claims)
  OBVIOUS
<1>7. b = Attempt(sent[1].headers, b.token, sent[1].account, sent[1].claims) /\ b.token = {t}
  <2>1. sent[1].headers = AnthropicRetryHeaders /\ sent[1].account = {}
    BY <1>1, <1>2, <1>5, FirstFields DEF FirstHeaders, AnthropicRetryHeaders, AccountOf
  <2> QED BY <2>1, <1>6, AttemptFields
<1>8. IsAgain(sent[1], b)
  BY <1>1, <1>4, <1>7 DEF IsAgain
<1>9. Sends'
  BY <1>1, <1>3, <1>6, <1>8, SecondJoins DEF Inv, choices
<1>10. Chosen'
  BY <1>1, SameClient DEF Inv, Chosen, OneOf, Disguisable, choices
<1>11. StoresHold'
  BY <1>1 DEF Inv, StoresHold, OneOf, stores
<1>12. Stage' /\ Answerable'
  BY <1>1 DEF Inv, Stage, Answerable, choices
<1> QED BY <1>9, <1>10, <1>11, <1>12 DEF Inv

\* Every step keeps the strengthening, and so does a stutter.
LEMMA InvStays == Inv /\ [Next]_vars => Inv'
<1> SUFFICES ASSUME Inv, [Next]_vars PROVE Inv'
  OBVIOUS
<1>1. CASE UNCHANGED vars
  <2>1. UNCHANGED <<config, stores, pc, request, choices, sent, reply, touched>>
    BY <1>1 DEF vars
  <2>2. Chosen' /\ Sends'
    BY <2>1, Kept DEF Inv, choices
  <2>3. StoresHold'
    BY <2>1 DEF Inv, StoresHold, OneOf, stores
  <2>4. Stage' /\ Answerable'
    BY <2>1, SameRoute DEF Inv, Stage, Answerable, choices
  <2> QED BY <2>2, <2>3, <2>4 DEF Inv
<1>2. CASE ResolveCodex
  BY <1>2, ResolveCodexStays
<1>3. CASE BodyArrives
  BY <1>3, BodyArrivesStays
<1>4. CASE BodyRefused \/ FirstPasses \/ CodexGivesUp \/ WaitEnds \/ RetryAnswered
  BY <1>4, AnswersStay
<1>5. CASE CodexRejected \/ AnthropicRejects \/ ClientLeaves
  BY <1>5, WaitsStay
<1>6. CASE CodexRetries
  BY <1>6, CodexRetriesStays
<1>7. CASE AnthropicRetries
  BY <1>7, AnthropicRetriesStays
<1>8. CASE ClaudeRewrites \/ CodexRewrites \/ GrantExpires
  BY <1>8, OwnersStay
<1> QED BY <1>1, <1>2, <1>3, <1>4, <1>5, <1>6, <1>7, <1>8 DEF Next

\* The inductive invariant holds in every state of every request: what was
\* chosen and sent so far is what `forward` decided when it began.
THEOREM InvHolds == Spec => []Inv
<1>1. Init => Inv
  BY InvAtStart
<1>2. Inv /\ [Next]_vars => Inv'
  BY InvStays
<1> QED BY <1>1, <1>2, PTL DEF Spec

-----------------------------------------------------------------------------
\* Where an attempt goes follows from its token's kind.
LEMMA TokensGoHome ==
  ASSUME Inv, NEW t,
         \/ t \in override \cup codexCred
         \/ override # {} /\ t.kind \in {"claude", "env"}
         \/ codex_retry_eligible /\ t.kind = "chatgpt"
  PROVE  /\ t.kind = "openai" => target_url.host = "api.openai.com"
         /\ t.kind = "chatgpt" => \/ target_url.host = "chatgpt.com"
                                  \/ config.source = "codex" /\ request.path \in Disguised
         /\ t.kind = "claude" =>
              target_url.host = "api.anthropic.com" /\ request.path \in Disguised
<1>1. CASE override # {}
  <2>1. request.path \in Disguised /\ codexCred = {}
    BY <1>1, DisguisedIsAnthropic DEF Inv, Chosen
  <2>2. target_url.host = "api.anthropic.com"
    BY <2>1, DisguisedIsAnthropic DEF target_url, ApiKeyMode, upstream_for
  <2>3. t \in override => Disguisable(t)
    BY DEF Inv, Chosen
  <2> QED BY <2>1, <2>2, <2>3 DEF Disguisable, codex_retry_eligible
<1>2. CASE override = {} /\ codexCred # {}
  <2>1. detect_provider(request.path) = "Codex"
    BY <1>2 DEF Inv, Chosen
  <2>2. \A u \in codexCred : u.kind \in {"chatgpt", "openai", "env"}
    BY DEF Inv, Chosen, OneOf
  <2>3. \A u, w \in codexCred : u = w
    BY DEF Inv, Chosen, OneOf
  <2>4. CASE ApiKeyMode
    <3>1. \A u \in codexCred : u.kind = "openai"
      BY <2>3, <2>4 DEF ApiKeyMode
    <3> QED BY <1>2, <2>4, <3>1 DEF target_url, codex_retry_eligible
  <2>5. CASE ~ApiKeyMode
    BY <1>2, <2>1, <2>2, <2>5 DEF target_url, ApiKeyMode, upstream_for
  <2> QED BY <2>4, <2>5
<1>3. CASE override = {} /\ codexCred = {}
  BY <1>3 DEF codex_retry_eligible
<1> QED BY <1>1, <1>2, <1>3

\* What a sent attempt has in its fields.
LEMMA SentFields ==
  ASSUME Inv, NEW i \in DOMAIN sent
  PROVE  /\ sent[i].url = target_url
         /\ \A t \in sent[i].token :
              \/ t \in override \cup codexCred
              \/ override # {} /\ t.kind \in {"claude", "env"}
              \/ codex_retry_eligible /\ t.kind = "chatgpt"
         /\ sent[i].headers = FirstHeaders(override, override \cup codexCred)
         /\ sent[i].token # {} => override \cup codexCred # {}
<1>1. CASE sent = <<>>
  BY <1>1
<1>2. CASE sent # <<>>
  <2>1. IsFirst(sent[1])
    BY <1>2 DEF Inv, Sends
  <2>2. /\ sent[1].url = target_url
        /\ sent[1].token = override \cup codexCred
        /\ sent[1].headers = FirstHeaders(override, override \cup codexCred)
    BY <2>1 DEF IsFirst, Attempt
  <2>3. i = 1 \/ (i = 2 /\ IsAgain(sent[1], sent[2]))
    <3>1. CASE sent = <<sent[1]>>
      BY <3>1
    <3>2. CASE sent = <<sent[1], sent[2]>> /\ IsAgain(sent[1], sent[2])
      BY <3>2
    <3> QED BY <1>2, <3>1, <3>2 DEF Inv, Sends
  <2>4. CASE i = 2 /\ IsAgain(sent[1], sent[2])
    <3>1. sent[2].url = target_url /\ sent[2].headers = sent[1].headers
      BY <2>4 DEF IsAgain, Attempt
    <3>2. IF override # {} THEN \A t \in sent[2].token : t.kind \in {"claude", "env"}
          ELSE codex_retry_eligible /\ \A t \in sent[2].token : t.kind = "chatgpt"
      BY <2>4 DEF IsAgain
    <3>3. codex_retry_eligible => codexCred # {}
      BY DEF codex_retry_eligible
    <3> QED BY <2>2, <2>4, <3>1, <3>2, <3>3
  <2> QED BY <2>2, <2>3, <2>4
<1> QED BY <1>1, <1>2

\* A stored credential only ever goes where it belongs, also in a retry after the
\* store has changed its mode, and never in company of the client's own: the host
\* and the headers were fixed with the first credential (lib.rs, forward), and a
\* retry's credential is of a kind that may follow it there.
THEOREM StoredCredentialsStayHome == Spec => []CredentialsStayHome
<1>1. Inv => CredentialsStayHome
  <2> SUFFICES ASSUME Inv, NEW i \in DOMAIN sent, NEW t \in sent[i].token
               PROVE  /\ AuthHeaders \cap sent[i].headers = {}
                      /\ t.kind = "openai" => sent[i].url.host = "api.openai.com"
                      /\ t.kind = "chatgpt" => \/ sent[i].url.host = "chatgpt.com"
                                               \/ config.source = "codex" /\ request.path \in Disguised
                      /\ t.kind = "claude" =>
                           sent[i].url.host = "api.anthropic.com" /\ request.path \in Disguised
    BY DEF CredentialsStayHome
  <2>1. AuthHeaders \cap sent[i].headers = {}
    BY SentFields DEF FirstHeaders
  <2> QED BY <2>1, SentFields, TokensGoHome
<1> QED BY <1>1, InvHolds, PTL

\* A client that authenticates itself keeps its headers, is sent once, costs the
\* user's stored credential nothing and sees upstream's own 401.
THEOREM ClientKeysStayUntouched == Spec => []OwnKeyUntouched
<1>1. Inv => OwnKeyUntouched
  <2> SUFFICES ASSUME Inv, has_client_credential, ~(OauthShaped /\ request.path \in Disguised)
               PROVE  /\ Len(sent) <= 1
                      /\ \A i \in DOMAIN sent :
                           /\ sent[i].token = {}
                           /\ InboundHeaders \cap AuthHeaders \subseteq sent[i].headers
                      /\ touched = {}
                      /\ \A r \in reply : r.status = 401 => r.by = "upstream"
    BY DEF OwnKeyUntouched
  <2>1. override = {} /\ codexCred = {}
    BY NoHeaderNoCredential DEF Inv, Chosen
  <2>2. ~codex_retry_eligible
    BY <2>1 DEF codex_retry_eligible
  <2>3. Len(sent) <= 1
    BY <2>1, <2>2 DEF Inv, Sends, IsAgain
  <2>4. \A i \in DOMAIN sent :
          sent[i].token = {} /\ InboundHeaders \cap AuthHeaders \subseteq sent[i].headers
    BY <2>1, SentFields DEF FirstHeaders, AuthHeaders, never_forwarded
  <2>5. touched = {}
    BY <2>1 DEF Inv, Answerable
  <2>6. \A r \in reply : r.status = 401 => r.by = "upstream"
    BY <2>1 DEF Inv, Answerable
  <2> QED BY <2>3, <2>4, <2>5, <2>6
<1> QED BY <1>1, InvHolds, PTL

\* What is sent again is what was sent, but for the token, and at most once.
THEOREM RetriesAreTheSameRequest == Spec => []RetryIsSameRequest
<1>1. Inv => RetryIsSameRequest
  <2> SUFFICES ASSUME Inv PROVE RetryIsSameRequest
    OBVIOUS
  <2>1. Len(sent) <= 2
    BY DEF Inv, Sends
  <2>2. ASSUME Len(sent) = 2 PROVE sent[2] = [sent[1] EXCEPT !.token = sent[2].token]
    <3>1. IsFirst(sent[1]) /\ IsAgain(sent[1], sent[2])
      BY <2>2 DEF Inv, Sends
    <3> QED BY <3>1 DEF IsFirst, IsAgain, Attempt
  <2> QED BY <2>1, <2>2 DEF RetryIsSameRequest
<1> QED BY <1>1, InvHolds, PTL
-----------------------------------------------------------------------------
(* A token and its account.  While the user stays with one account, all that *)
(* auth.json and the memo hold belongs to it; the retry's account is the     *)
(* first attempt's, its token one of theirs.                                 *)

SameAccount(T, U) ==
  \A t \in T, u \in U : t.kind = "chatgpt" /\ u.kind = "chatgpt" => t.account = u.account

OneAccount ==
  /\ token_source_for("Codex") = "codex" => \A u \in codexCred : u.kind # "env"
  /\ pc = "refreshing" => token_source_for("Codex") = "codex"
  /\ settled =>
       /\ SameAccount(codexCred, refreshed) /\ SameAccount(codexCred, authFile)
       /\ pc = "accepted" => SameAccount(authFile, refreshed) /\ SameAccount(authFile, authFile)
       /\ override = {} /\ Len(sent) = 2 =>
            \A u \in codexCred, t \in sent[2].token : t.account = u.account

\* The steps that send nothing, and leave auth.json, the memo and the credential alone.
LEMMA AccountsKept ==
  ASSUME OneAccount,
         UNCHANGED <<config, authFile, refreshed, codexCred, sent, settled>>,
         pc' # "accepted" \/ pc = "accepted",
         override' = override \/ Len(sent) # 2,
         pc' = "refreshing" => token_source_for("Codex") = "codex"
  PROVE  OneAccount'
  BY DEF OneAccount, SameAccount, token_source_for

\* The credential a request begins with is the one auth.json holds then.
LEMMA ResolveCodexMatches == ASSUME Inv, OneAccount, ResolveCodex PROVE OneAccount'
<1>1. /\ pc = "accepted" /\ pc' = "reading body" /\ Len(sent') # 2
      /\ UNCHANGED <<config, authFile, refreshed, settled>>
  <2>1. /\ pc = "accepted" /\ pc' = "reading body" /\ sent' = sent
        /\ UNCHANGED <<config, authFile, refreshed, settled>>
    BY DEF ResolveCodex, stores
  <2>2. sent' = <<>>
    BY <2>1 DEF Inv, Stage
  <2>3. Len(sent') # 2
    BY <2>2
  <2> QED BY <2>1, <2>3
<1>2. PICK fromAuthFile \in AuthFileReads :
        codexCred' \in {{}, fromAuthFile} \/
          /\ codexCred' = {Token("env", 0, NoAccount, "env")}
          /\ token_source_for("Codex") # "codex"
  BY DEF ResolveCodex
<1>3. fromAuthFile \subseteq authFile /\ \A u \in authFile : u.kind \in {"chatgpt", "openai"}
  BY DEF AuthFileReads, Inv, StoresHold, OneOf
<1>4. CASE codexCred' \in {{}, fromAuthFile}
  <2>1. codexCred' \subseteq authFile
    BY <1>3, <1>4
  <2>2. settled => SameAccount(codexCred', refreshed) /\ SameAccount(codexCred', authFile)
    BY <1>1, <2>1 DEF OneAccount, SameAccount
  <2>3. \A u \in codexCred' : u.kind # "env"
    BY <1>3, <2>1
  <2> QED BY <1>1, <2>2, <2>3 DEF OneAccount, SameAccount, token_source_for
<1>5. CASE codexCred' = {Token("env", 0, NoAccount, "env")} /\ token_source_for("Codex") # "codex"
  <2>1. \A u \in codexCred' : u.kind # "chatgpt"
    BY <1>5 DEF Token
  <2>2. SameAccount(codexCred', refreshed) /\ SameAccount(codexCred', authFile)
    BY <2>1 DEF SameAccount
  <2> QED BY <1>1, <1>5, <2>2 DEF OneAccount, SameAccount, token_source_for
<1> QED BY <1>2, <1>4, <1>5

\* The grant is made with what auth.json holds, or remembered from then.
LEMMA CodexRetriesMatches == ASSUME Inv, OneAccount, CodexRetries PROVE OneAccount'
<1>1. /\ pc = "refreshing" /\ pc' = "sent again" /\ sent = <<sent[1]>>
      /\ UNCHANGED <<config, codexCred, override, settled>>
      /\ \A u \in codexCred : u.kind = "chatgpt"
  <2>1. /\ pc = "refreshing" /\ pc' = "sent again" /\ sent = <<sent[1]>> /\ codex_retry_eligible
        /\ UNCHANGED <<config, codexCred, override, settled>>
    BY DEF CodexRetries, choices, Inv, Stage
  <2>2. \A u \in codexCred : u.kind \in {"chatgpt", "openai", "env"} /\ \A w \in codexCred : u = w
    BY DEF Inv, Chosen, OneOf
  <2> QED BY <2>1, <2>2 DEF OneAccount, codex_retry_eligible
<1>2. PICK fresh :
        /\ RetryWith(fresh) /\ fresh.kind = "chatgpt"
        /\ \E t \in refreshed \cup authFile : t.kind = "chatgpt" /\ fresh.account = t.account
        /\ \/ UNCHANGED <<refreshed, authFile>>
           \/ refreshed' = {fresh} /\ authFile' \in {{fresh}, authFile}
  <2>1. CASE \E fresh \in refreshed : RetryWith(fresh) /\ UNCHANGED <<refreshed, authFile>>
    BY <2>1 DEF Inv, StoresHold
  <2>2. CASE \E t \in OauthIn(authFile) :
               LET fresh == Token("chatgpt", issued + 1, t.account, t.place) IN
               RetryWith(fresh) /\ refreshed' = {fresh} /\ authFile' \in {{fresh}, authFile}
    <3>1. PICK t \in OauthIn(authFile) :
            \E fresh : /\ fresh = Token("chatgpt", issued + 1, t.account, t.place)
                       /\ RetryWith(fresh)
                       /\ refreshed' = {fresh} /\ authFile' \in {{fresh}, authFile}
      BY <2>2
    <3>2. PICK fresh : /\ fresh = Token("chatgpt", issued + 1, t.account, t.place)
                       /\ RetryWith(fresh)
                       /\ refreshed' = {fresh} /\ authFile' \in {{fresh}, authFile}
      BY <3>1
    <3>3. fresh.account = t.account /\ fresh.kind = "chatgpt"
      BY <3>2 DEF Token
    <3> QED BY <3>1, <3>2, <3>3 DEF OauthIn
  <2> QED BY <2>1, <2>2, Zenon DEF CodexRetries
<1>3. Len(sent') = 2 /\ sent'[2].token = {fresh}
  <2>1. PICK first, b : /\ first = sent[1]
                        /\ b = Attempt(CodexRetryHeaders, {fresh}, AccountOf(codexCred), {})
    OBVIOUS
  <2>2. sent = <<first>> /\ sent' = Append(sent, b)
    BY <1>1, <1>2, <2>1 DEF RetryWith
  <2>3. sent' = <<first, b>>
    BY <2>2, AppendSecond, Zenon
  <2> QED BY <2>1, <2>3, AttemptFields
<1>4. settled => \A u \in codexCred : fresh.account = u.account
  BY <1>1, <1>2 DEF OneAccount, SameAccount
<1>5. settled => SameAccount(codexCred, refreshed') /\ SameAccount(codexCred, authFile')
  <2>1. refreshed' \subseteq refreshed \cup {fresh} /\ authFile' \subseteq authFile \cup {fresh}
    BY <1>2
  <2> QED BY <1>4, <2>1 DEF OneAccount, SameAccount
<1> QED BY <1>1, <1>3, <1>4, <1>5 DEF OneAccount, SameAccount, token_source_for

\* A login to another account ends the claim.
LEMMA OwnersMatch ==
  ASSUME OneAccount, ClaudeRewrites \/ CodexRewrites \/ GrantExpires
  PROVE  OneAccount'
<1>1. CASE ClaudeRewrites
  BY <1>1, AccountsKept DEF ClaudeRewrites, choices, OneAccount
<1>2. CASE GrantExpires
  BY <1>2 DEF GrantExpires, Waits, choices, OneAccount, SameAccount, token_source_for
<1>3. CASE CodexRewrites
  <2>1. /\ pc # "accepted" /\ UNCHANGED <<config, refreshed, pc, codexCred, override, sent>>
    BY <1>3 DEF CodexRewrites, Waits, choices
  <2>2. PICK t : /\ authFile' = {t}
                 /\ settled' = (settled /\ \A u \in OauthIn(codexCred \cup refreshed) : u.account = t.account)
    BY <1>3 DEF CodexRewrites
  <2>3. settled' => settled /\ SameAccount(codexCred, authFile')
    BY <2>2 DEF SameAccount, OauthIn
  <2> QED BY <2>1, <2>3 DEF OneAccount, SameAccount, token_source_for
<1> QED BY <1>1, <1>2, <1>3

\* A request sent twice keeps its first attempt, and its target is not the
\* backend if the disguise has put in a token.
LEMMA AccountsSuffice == Inv /\ OneAccount => TokenMatchesAccount
<1> SUFFICES ASSUME Inv, OneAccount, settled, NEW i \in DOMAIN sent, NEW t \in sent[i].token,
                    sent[i].url.host = "chatgpt.com"
             PROVE  sent[i].account = {t.account} \ {NoAccount}
  BY DEF TokenMatchesAccount
<1>1. sent # <<>> /\ IsFirst(sent[1])
  BY DEF Inv, Sends
<1>2. override = {}
  <2> SUFFICES ASSUME override # {} PROVE FALSE
    OBVIOUS
  <2>1. request.path \in Disguised /\ codexCred = {}
    BY DisguisedIsAnthropic DEF Inv, Chosen
  <2>2. target_url.host = "api.anthropic.com"
    BY <2>1, DisguisedIsAnthropic DEF target_url, ApiKeyMode, upstream_for
  <2> QED BY <2>2, SentFields
<1>3. sent[1].token = codexCred /\ sent[1].account = AccountOf(codexCred)
  BY <1>1, <1>2 DEF IsFirst, Attempt
<1>4. \A u, w \in codexCred : u = w
  BY DEF Inv, Chosen, OneOf
<1>5. CASE i = 1
  <2>1. codexCred = {t}
    BY <1>3, <1>4, <1>5
  <2> QED BY <1>3, <1>5, <2>1 DEF AccountOf
<1>6. CASE i # 1
  <2>1. i = 2 /\ Len(sent) = 2 /\ IsAgain(sent[1], sent[2])
    <3>1. CASE sent = <<sent[1]>>
      BY <1>6, <3>1
    <3>2. CASE sent = <<sent[1], sent[2]>> /\ IsAgain(sent[1], sent[2])
      BY <1>6, <3>2
    <3> QED BY <1>1, <3>1, <3>2 DEF Inv, Sends
  <2>2. sent[2].account = AccountOf(codexCred) /\ codexCred # {}
    BY <1>2, <1>3, <2>1 DEF IsAgain, Attempt, codex_retry_eligible
  <2>3. \A u \in codexCred : t.account = u.account
    BY <1>2, <2>1 DEF OneAccount
  <2>4. PICK u : codexCred = {u}
    BY <1>4, <2>2
  <2> QED BY <2>1, <2>2, <2>3, <2>4 DEF AccountOf
<1> QED BY <1>5, <1>6

\* A ChatGPT token is never sent beside the name of another account, for any
\* accounts and any number of grants, as long as the user stays with one: the
\* memo and the file are then both that account's.
THEOREM TokensMatchTheirAccounts == Spec => []TokenMatchesAccount
<1>1. Init => OneAccount
  <2> SUFFICES ASSUME Init PROVE OneAccount
    OBVIOUS
  <2>1. \A u, t \in authFile : t = u
    BY DEF Init
  <2>2. refreshed \subseteq authFile
    BY DEF Init, OauthIn
  <2> QED BY <2>1, <2>2 DEF Init, OneAccount, SameAccount
<1>2. Inv /\ OneAccount /\ [Next]_vars => OneAccount'
  <2> SUFFICES ASSUME Inv, OneAccount, [Next]_vars PROVE OneAccount'
    OBVIOUS
  <2>1. CASE UNCHANGED vars
    BY <2>1, AccountsKept DEF vars, stores, choices, OneAccount
  <2>2. CASE ResolveCodex
    BY <2>2, ResolveCodexMatches
  <2>3. CASE BodyArrives
    <3>1. /\ pc' = "sent" /\ Len(sent') = 1
          /\ UNCHANGED <<config, authFile, refreshed, codexCred, settled>>
      BY <2>3 DEF BodyArrives
    <3> QED BY <3>1 DEF OneAccount, SameAccount, token_source_for
  <2>4. CASE BodyRefused \/ FirstPasses \/ CodexGivesUp \/ WaitEnds \/ RetryAnswered
    <3>1. pc' = "done" /\ UNCHANGED <<config, authFile, refreshed, choices, sent, settled>>
      BY <2>4 DEF BodyRefused, FirstPasses, CodexGivesUp, WaitEnds, RetryAnswered, UpstreamAnswers,
                  Explained, stores
    <3> QED BY <3>1, AccountsKept DEF choices
  <2>5. CASE CodexRejected \/ AnthropicRejects \/ ClientLeaves
    <3>1. /\ pc' # "accepted" /\ (pc' = "refreshing" => token_source_for("Codex") = "codex")
          /\ UNCHANGED <<config, authFile, refreshed, codexCred, override, sent, settled>>
      BY <2>5 DEF CodexRejected, AnthropicRejects, ClientLeaves, choices, stores
    <3> QED BY <3>1, AccountsKept
  <2>6. CASE CodexRetries
    BY <2>6, CodexRetriesMatches
  <2>7. CASE AnthropicRetries
    <3>1. /\ pc' = "sent again" /\ override # {}
          /\ UNCHANGED <<config, authFile, refreshed, codexCred, override, settled>>
      BY <2>7 DEF AnthropicRetries, stores, choices, Inv, Stage
    <3> QED BY <3>1 DEF OneAccount, SameAccount, token_source_for
  <2>8. CASE ClaudeRewrites \/ CodexRewrites \/ GrantExpires
    BY <2>8, OwnersMatch
  <2> QED BY <2>1, <2>2, <2>3, <2>4, <2>5, <2>6, <2>7, <2>8 DEF Next
<1> QED BY <1>1, <1>2, AccountsSuffice, InvHolds, PTL DEF Spec

-----------------------------------------------------------------------------
(* The gateway's own 401.  What it says was looked up at four moments, each  *)
(* of which may give what the store held before: if all four gave the same,  *)
(* that is the credential that was rejected.                                 *)

\* A store's one credential, numbered n at most.
OneAt(store, place, n) ==
  \A c, d \in store.found :
    c = d /\ c.place = place /\ c.id \in Nat /\ c.id <= n /\ c.expired \in BOOLEAN

NotLater(s, t) == \A c \in s.found, d \in t.found : c.id <= d.id

\* What the keychain may hold, and its contents one after the other: m, then current.
Contents == {Missing} \cup {Holds("keychain", n, b) : n \in Nat, b \in BOOLEAN}
InOrder(m, current, n) ==
  /\ m \in Seq(Contents) /\ current \in Contents
  /\ OneAt(current, "keychain", n)
  /\ \A i \in DOMAIN m : OneAt(m[i], "keychain", n) /\ NotLater(m[i], current)
  /\ \A i, j \in DOMAIN m : i < j => NotLater(m[i], m[j])

NoOlder(t, s) == \A d \in s.found : d.place = t.place => t.id <= d.id

\* Tokens are numbered in the order they are issued, in each store, and none that
\* can still be read is older than the one chosen from the same store.
Ordered ==
  /\ issued \in Nat
  /\ InOrder(memo, keychain, issued) /\ OneAt(file, "file", issued)
  /\ ClaudeOwned =>
       \A t \in override :
         /\ t = Token("claude", t.id, NoAccount, t.place) /\ t.id \in Nat /\ t.id <= issued
         /\ NoOlder(t, keychain) /\ NoOlder(t, file)
         /\ \A i \in DOMAIN memo : NoOlder(t, memo[i])

AllExpired(found) == \A c \in found : c.expired

\* Where there is only one place to look, what was found is from there.
AsksAgain == config.source = "keychain" /\ ~config.macos
Fits(look) ==
  \A c, d \in look.found :
    /\ c = d /\ c.expired \in BOOLEAN
    /\ ~AsksAgain => c.place = describe_credential_store(Missing)

\* What a request knows whose looks gave the same: the token and its age.
Looked ==
  ClaudeOwned =>
    /\ \A look \in looks : Fits(look)
    /\ override # {} => looks # {}
    /\ \A look \in looks : override # {} /\ looks = {look} =>
         /\ override = {ClaudeToken(c) : c \in look.found}
         /\ rejectedExpiry \subseteq {AllExpired(look.found)}
         /\ Len(sent) # 2

\* Another token, and a later one if the two are of one store.
Later(T, U) == \A t \in T, u \in U : t # u /\ (t.place = u.place => t.id < u.id)

Newer == ClaudeOwned /\ override # {} /\ Len(sent) = 2 => Later(override, sent[2].token)

Steps ==
  /\ pc = "waiting" => rejectedExpiry # {}
  /\ rejectedExpiry # {} => ClaudeOwned
  /\ pc = "sent again" => Len(sent) = 2
  /\ reply # {} => pc = "done"

\* What ExplanationIsTrue says of one answer r.
Blames(r, found) == \A c \in found : (r.what = "expired") <=> c.expired
TrueOf(r, tokens, attempts, seen) ==
  /\ tokens # {}
  /\ (r.what = "newer one rejected too") <=> (Len(attempts) = 2)
  /\ Len(attempts) = 2 => Later(attempts[1].token, attempts[2].token)
  /\ \A look \in seen :
       seen = {look} => r.store \in {t.place : t \in tokens} /\ Blames(r, look.found)

Told ==
  \A r \in reply : r.by = "gateway" /\ r.status = 401 => TrueOf(r, override, sent, looks)

Explains == Ordered /\ Looked /\ Newer /\ Steps /\ Told

\* What follows from the settings stays with them.
LEMMA SameSettings ==
  ASSUME UNCHANGED config
  PROVE  /\ ClaudeOwned' <=> ClaudeOwned
         /\ AsksAgain' <=> AsksAgain
         /\ \A k : describe_credential_store(k)' = describe_credential_store(k)
         /\ \A look : Fits(look)' <=> Fits(look)
  BY DEF ClaudeOwned, AsksAgain, describe_credential_store, Fits

\* What is kept of a sequence is what it held from the answer on.
LEMMA Trimmed ==
  ASSUME NEW m \in Seq(Contents), NEW i \in DOMAIN m
  PROVE  /\ SubSeq(m, i, Len(m)) \in Seq(Contents)
         /\ \A j \in DOMAIN SubSeq(m, i, Len(m)) :
              i + j - 1 \in DOMAIN m /\ SubSeq(m, i, Len(m))[j] = m[i + j - 1]
  OBVIOUS

\* A read gives nothing older than the read before it.
LEMMA ReadInOrder ==
  ASSUME NEW n \in Nat, InOrder(memo, keychain, n), NEW k, ReadKeychain(k)
  PROVE  /\ InOrder(memo', keychain, n)
         /\ OneAt(k, "keychain", n) /\ NotLater(k, keychain)
         /\ \A j \in DOMAIN memo' : NotLater(k, memo'[j]) /\ \E i \in DOMAIN memo : memo'[j] = memo[i]
<1>0. \A c : OneAt(c, "keychain", n) => NotLater(c, c)
  BY DEF OneAt, NotLater
<1>1. CASE k = keychain /\ memo' = <<>>
  <2>1. DOMAIN memo' = {} /\ memo' \in Seq(Contents)
    BY <1>1
  <2> QED BY <1>0, <1>1, <2>1 DEF InOrder
<1>2. CASE k = Denied /\ memo' = memo
  <2>1. k.found = {}
    BY <1>2 DEF Denied
  <2> QED BY <1>2, <2>1 DEF InOrder, OneAt, NotLater
<1>3. CASE \E i \in DOMAIN memo : k = memo[i] /\ memo' = SubSeq(memo, i, Len(memo))
  <2>1. PICK i \in DOMAIN memo : k = memo[i] /\ memo' = SubSeq(memo, i, Len(memo))
    BY <1>3
  <2>2. memo \in Seq(Contents)
    BY DEF InOrder
  <2>3. /\ memo' \in Seq(Contents)
        /\ \A j \in DOMAIN memo' : i + j - 1 \in DOMAIN memo /\ memo'[j] = memo[i + j - 1]
    BY <2>1, <2>2, Trimmed
  <2>4. ASSUME NEW j \in DOMAIN memo' PROVE NotLater(k, memo'[j])
    <3>1. i \in Nat /\ j \in Nat /\ j >= 1
      BY <2>2, <2>3, <2>4
    <3>2. CASE j = 1
      <4>1. memo'[j] = k
        BY <2>1, <2>3, <3>1, <3>2
      <4>2. OneAt(k, "keychain", n)
        BY <2>1 DEF InOrder
      <4> QED BY <1>0, <4>1, <4>2
    <3>3. CASE j > 1
      <4>1. i < i + j - 1 /\ i + j - 1 \in DOMAIN memo
        BY <2>3, <3>1, <3>3
      <4>2. NotLater(memo[i], memo[i + j - 1])
        BY <4>1 DEF InOrder
      <4> QED BY <2>1, <2>3, <4>2
    <3> QED BY <3>1, <3>2, <3>3
  <2>5. ASSUME NEW j \in DOMAIN memo', NEW h \in DOMAIN memo', j < h
        PROVE  NotLater(memo'[j], memo'[h])
    <3>1. i + j - 1 < i + h - 1
      BY <2>2, <2>3, <2>5
    <3>2. NotLater(memo[i + j - 1], memo[i + h - 1])
      BY <2>3, <3>1 DEF InOrder
    <3> QED BY <2>3, <3>2
  <2>6. \A j \in DOMAIN memo' : OneAt(memo'[j], "keychain", n) /\ NotLater(memo'[j], keychain)
    BY <2>3 DEF InOrder
  <2>7. InOrder(memo', keychain, n)
    BY <2>3, <2>5, <2>6 DEF InOrder
  <2>8. OneAt(k, "keychain", n) /\ NotLater(k, keychain)
    BY <2>1 DEF InOrder
  <2> QED BY <2>3, <2>4, <2>7, <2>8
<1> QED BY <1>1, <1>2, <1>3 DEF ReadKeychain

\* Without a read the memo stays; a look reads the keychain or leaves it alone.
LEMMA LookInOrder ==
  ASSUME NEW n \in Nat, InOrder(memo, keychain, n),
         (\E k : ReadKeychain(k)) \/ UNCHANGED memo
  PROVE  /\ InOrder(memo', keychain, n)
         /\ \A j \in DOMAIN memo' : \E i \in DOMAIN memo : memo'[j] = memo[i]
<1>1. CASE \E k : ReadKeychain(k)
  BY <1>1, ReadInOrder
<1>2. CASE UNCHANGED memo
  BY <1>2
<1> QED BY <1>1, <1>2

\* A look finds a credential where the words for the place say it is.
LEMMA PlaceIsNamed ==
  ASSUME NEW n, NEW k, OneAt(k, "keychain", n), OneAt(file, "file", n), ClaudeOwned
  PROVE  /\ Fits(resolve_credential(k))
         /\ \A c \in resolve_credential(k).found :
              /\ c.place = describe_credential_store(k)
              /\ (c \in k.found /\ config.source = "keychain") \/ c \in file.found
<1>1. Missing.found = {}
  BY DEF Missing
<1>2. CASE config.source = "file"
  BY <1>2 DEF OneAt, resolve_credential, describe_credential_store, Fits
<1>3. CASE config.source = "keychain"
  <2>1. resolve_credential(k) = keychain_fallback(k)
    BY <1>3 DEF resolve_credential
  <2>2. CASE config.macos \/ k.found # {} \/ file = Missing
    <3>1. resolve_credential(k) = k
      BY <2>1, <2>2 DEF keychain_fallback
    <3>2. \A c \in k.found : c.place = describe_credential_store(k)
      BY <1>3 DEF OneAt, describe_credential_store
    <3>3. \A c \in k.found : ~AsksAgain => c.place = describe_credential_store(Missing)
      BY <1>3 DEF OneAt, describe_credential_store, AsksAgain
    <3> QED BY <1>3, <3>1, <3>2, <3>3 DEF OneAt, Fits
  <2>3. CASE ~(config.macos \/ k.found # {} \/ file = Missing)
    <3>1. resolve_credential(k) = file /\ AsksAgain
      BY <1>3, <2>1, <2>3 DEF keychain_fallback, AsksAgain
    <3>2. \A c \in file.found : c.place = describe_credential_store(k)
      BY <1>3, <2>3 DEF OneAt, describe_credential_store
    <3> QED BY <3>1, <3>2 DEF OneAt, Fits
  <2> QED BY <2>2, <2>3
<1> QED BY <1>2, <1>3 DEF ClaudeOwned

\* Whatever a look gives, the order stays, and it fits.
LEMMA LookFits ==
  ASSUME Ordered, Looked, NEW k \in KeychainReads, LooksUp(k), UNCHANGED <<config, keychain, file, issued>>
  PROVE  /\ InOrder(memo', keychain, issued) /\ OneAt(file, "file", issued)
         /\ \A j \in DOMAIN memo' : \E i \in DOMAIN memo : memo'[j] = memo[i]
         /\ OneAt(k, "keychain", issued)
         /\ ClaudeOwned => \A look \in looks' : Fits(look)'
<1>1. /\ issued \in Nat /\ InOrder(memo, keychain, issued) /\ OneAt(file, "file", issued)
      /\ (\E j : ReadKeychain(j)) \/ UNCHANGED memo
  BY DEF Ordered, LooksUp
<1>2. InOrder(memo', keychain, issued) /\ \A j \in DOMAIN memo' : \E i \in DOMAIN memo : memo'[j] = memo[i]
  BY <1>1, LookInOrder
<1>3. OneAt(k, "keychain", issued)
  <2>1. OneAt(Denied, "keychain", issued)
    BY DEF OneAt, Denied
  <2> QED BY <1>1, <2>1 DEF KeychainReads, InOrder
<1>4. ClaudeOwned => \A look \in looks' : Fits(look)'
  <2> SUFFICES ASSUME ClaudeOwned PROVE \A look \in looks' : Fits(look)'
    OBVIOUS
  <2>1. Fits(resolve_credential(k))
    BY <1>1, <1>3, PlaceIsNamed
  <2> QED BY <2>1, SameSettings DEF Looked, LooksUp
<1> QED BY <1>1, <1>2, <1>3, <1>4

\* The token chosen before a look is still not newer than what can be read after it.
LEMMA LookKeepsOrder ==
  ASSUME Ordered, InOrder(memo', keychain, issued), UNCHANGED <<config, keychain, file, issued, override>>,
         \A j \in DOMAIN memo' : \E i \in DOMAIN memo : memo'[j] = memo[i]
  PROVE  Ordered'
  BY SameSettings DEF Ordered, InOrder, OneAt, NotLater, NoOlder

\* Told is the property of the runs.
LEMMA ToldIsTrue == Told => ExplanationIsTrue
  BY Zenon DEF Told, ExplanationIsTrue, TrueOf, Later, Blames

\* The steps that read and answer nothing.
LEMMA QuietExplains ==
  ASSUME Explains,
         UNCHANGED <<config, keychain, memo, file, issued, override, rejectedExpiry, sent, reply, looks>>,
         pc' = pc \/ pc' \notin {"waiting", "sent again"},
         reply # {} => pc' = "done"
  PROVE  Explains'
<1>0. (ClaudeOwned' <=> ClaudeOwned) /\ \A look : Fits(look)' <=> Fits(look)
  BY SameSettings
<1>1. Ordered'
  <2>1. InOrder(memo', keychain, issued)
    BY DEF Explains, Ordered
  <2> QED BY <2>1, LookKeepsOrder DEF Explains
<1>2. Looked'
  BY <1>0 DEF Explains, Looked
<1>3. Newer'
  BY <1>0 DEF Explains, Newer
<1>4. Steps'
  BY <1>0 DEF Explains, Steps
<1>5. Told'
  BY DEF Explains, Told
<1> QED BY <1>1, <1>2, <1>3, <1>4, <1>5 DEF Explains

\* A store holds one credential or none.
LEMMA AnyHolds ==
  ASSUME NEW place, NEW n \in Nat, NEW m \in Nat, n <= m, NEW b \in BOOLEAN
  PROVE  OneAt(Holds(place, n, b), place, m) /\ \A c \in Holds(place, n, b).found : c.id = n
<1>1. \A c, d \in Holds(place, n, b).found : c = d /\ c.place = place /\ c.id = n /\ c.expired = b
  <2> DEFINE e == [place |-> place, id |-> n, expired |-> b]
  <2>1. e.place = place /\ e.id = n /\ e.expired = b
    OBVIOUS
  <2>2. Holds(place, n, b).found = {e}
    BY DEF Holds
  <2> HIDE DEF e
  <2> QED BY <2>1, <2>2
<1> QED BY <1>1, Zenon DEF OneAt

\* Every credential of the keychain's is a content it may have.
LEMMA HoldsContent == \A n \in Nat, b \in BOOLEAN : Holds("keychain", n, b) \in Contents
  BY DEF Contents

\* A store that is emptied, or rewritten with the token issued last.
LEMMA RewrittenStore ==
  ASSUME NEW place, NEW n \in Nat
  PROVE  /\ OneAt(Missing, place, n) /\ Missing.found = {}
         /\ OneAt(Holds(place, n, FALSE), place, n)
         /\ \A c \in Holds(place, n, FALSE).found : c.id = n
<1>1. OneAt(Missing, place, n) /\ Missing.found = {}
  BY DEF OneAt, Missing
<1>2. n <= n /\ FALSE \in BOOLEAN
  OBVIOUS
<1> QED BY <1>1, <1>2, AnyHolds, Zenon

\* A store s with tokens up to n, and t, the store a step later with tokens up to m.
Rewritten(s, t, place, n, m) ==
  /\ n \in Nat /\ m \in {n, n + 1}
  /\ t = s \/ t = Missing \/ (m = n + 1 /\ t = Holds(place, m, FALSE))

\* It is still in order, and nothing in it is older than before.
LEMMA StoreStaysOrdered ==
  ASSUME NEW s, NEW t, NEW place, NEW n, NEW m, OneAt(s, place, n), Rewritten(s, t, place, n, m)
  PROVE  OneAt(t, place, m) /\ \A c \in t.found : c \in s.found \/ c.id = n + 1
<1>1. CASE t = s
  BY <1>1 DEF OneAt, Rewritten
<1>2. CASE t = Missing
  <2>1. m \in Nat
    BY DEF Rewritten
  <2>2. OneAt(Missing, place, m) /\ Missing.found = {}
    BY <2>1, RewrittenStore, Zenon
  <2> QED BY <1>2, <2>2
<1>3. CASE m = n + 1 /\ t = Holds(place, m, FALSE)
  <2>1. m \in Nat
    BY DEF Rewritten
  <2>2. /\ OneAt(Holds(place, m, FALSE), place, m)
        /\ \A c \in Holds(place, m, FALSE).found : c.id = m
    BY <2>1, RewrittenStore, Zenon
  <2> QED BY <1>3, <2>2
<1> QED BY <1>1, <1>2, <1>3 DEF Rewritten

\* The contents in order, with one more: nothing in it is older than before.
LEMMA AppendedInOrder ==
  ASSUME NEW m, NEW s, NEW t \in Contents, NEW n \in Nat, NEW o \in {n, n + 1}, InOrder(m, s, n),
         OneAt(t, "keychain", o), \A c \in t.found : c.id = n + 1
  PROVE  InOrder(Append(m, s), t, o)
<1>1. m \in Seq(Contents) /\ s \in Contents /\ OneAt(s, "keychain", n)
  BY DEF InOrder
<1>2. /\ Append(m, s) \in Seq(Contents) /\ DOMAIN Append(m, s) = 1 .. Len(m) + 1
      /\ \A i \in 1 .. Len(m) : i \in DOMAIN m /\ Append(m, s)[i] = m[i]
      /\ Append(m, s)[Len(m) + 1] = s /\ Len(m) \in Nat
  BY <1>1
<1>3. ASSUME NEW x, OneAt(x, "keychain", n) PROVE OneAt(x, "keychain", o) /\ NotLater(x, t)
  BY <1>3 DEF OneAt, NotLater
<1>4. ASSUME NEW i \in DOMAIN Append(m, s) PROVE OneAt(Append(m, s)[i], "keychain", n)
  BY <1>1, <1>2 DEF InOrder
<1>5. ASSUME NEW i \in DOMAIN Append(m, s), NEW j \in DOMAIN Append(m, s), i < j
      PROVE  NotLater(Append(m, s)[i], Append(m, s)[j])
  <2>1. i \in 1 .. Len(m)
    BY <1>2, <1>5
  <2>2. CASE j \in 1 .. Len(m)
    BY <1>2, <1>5, <2>1, <2>2 DEF InOrder
  <2>3. CASE j = Len(m) + 1
    BY <1>2, <2>1, <2>3 DEF InOrder
  <2> QED BY <1>2, <2>2, <2>3
<1> QED BY <1>2, <1>3, <1>4, <1>5 DEF InOrder

\* The owners only add to what can be read, and only newer tokens.
LEMMA KeychainStaysOrdered ==
  ASSUME Ordered, ClaudeRewrites \/ CodexRewrites
  PROVE  /\ InOrder(memo', keychain', issued') /\ OneAt(file', "file", issued')
         /\ \A t : NoOlder(t, keychain) /\ NoOlder(t, file) /\ (\A i \in DOMAIN memo : NoOlder(t, memo[i]))
                     /\ t.id \in Nat /\ t.id <= issued =>
                   /\ NoOlder(t, keychain') /\ NoOlder(t, file')
                   /\ \A i \in DOMAIN memo' : NoOlder(t, memo'[i])
<1>1. /\ issued \in Nat /\ issued' \in {issued, issued + 1}
      /\ \/ UNCHANGED <<keychain, memo>>
         \/ KeychainBecomes(Missing)
         \/ issued' = issued + 1 /\ KeychainBecomes(Holds("keychain", issued', FALSE))
      /\ \/ file' = file \/ file' = Missing
         \/ issued' = issued + 1 /\ file' = Holds("file", issued', FALSE)
  BY DEF ClaudeRewrites, CodexRewrites, Ordered
<1>2. InOrder(memo, keychain, issued) /\ OneAt(keychain, "keychain", issued) /\ OneAt(file, "file", issued)
  BY DEF Ordered, InOrder
<1>3. /\ OneAt(file', "file", issued')
      /\ \A c \in file'.found : c \in file.found \/ c.id = issued + 1
  <2>1. Rewritten(file, file', "file", issued, issued')
    BY <1>1 DEF Rewritten
  <2> QED BY <1>2, <2>1, StoreStaysOrdered, Zenon
<1>4. /\ InOrder(memo', keychain', issued')
      /\ \A c \in keychain'.found : c \in keychain.found \/ c.id = issued + 1
      /\ \A i \in DOMAIN memo' : memo'[i] = keychain \/ \E j \in DOMAIN memo : memo'[i] = memo[j]
  <2>1. CASE UNCHANGED <<keychain, memo>>
    <3>1. \A x : OneAt(x, "keychain", issued) => OneAt(x, "keychain", issued')
      BY <1>1 DEF OneAt
    <3> QED BY <1>2, <2>1, <3>1 DEF InOrder
  <2>2. ASSUME NEW t \in Contents, KeychainBecomes(t), OneAt(t, "keychain", issued'),
               \A c \in t.found : c.id = issued + 1
        PROVE  /\ InOrder(memo', keychain', issued')
               /\ \A c \in keychain'.found : c.id = issued + 1
               /\ \A i \in DOMAIN memo' : memo'[i] = keychain \/ \E j \in DOMAIN memo : memo'[i] = memo[j]
    <3>1. keychain' = t /\ memo' = Append(memo, keychain)
      BY <2>2 DEF KeychainBecomes
    <3>2. InOrder(memo', keychain', issued')
      BY <1>1, <1>2, <2>2, <3>1, AppendedInOrder
    <3>3. memo \in Seq(Contents) /\ keychain \in Contents
      BY <1>2 DEF InOrder
    <3>4. \A i \in DOMAIN memo' : memo'[i] = keychain \/ \E j \in DOMAIN memo : memo'[i] = memo[j]
      BY <3>1, <3>3
    <3> QED BY <2>2, <3>1, <3>2, <3>4
  <2>3. CASE KeychainBecomes(Missing)
    <3>1. Missing \in Contents /\ Missing.found = {} /\ OneAt(Missing, "keychain", issued')
      BY DEF Contents, OneAt, Missing
    <3> QED BY <2>2, <2>3, <3>1
  <2>4. CASE issued' = issued + 1 /\ KeychainBecomes(Holds("keychain", issued', FALSE))
    <3>1. issued' \in Nat
      BY <1>1
    <3>2. Holds("keychain", issued', FALSE) \in Contents
      BY <3>1, HoldsContent
    <3>3. /\ OneAt(Holds("keychain", issued', FALSE), "keychain", issued')
          /\ \A c \in Holds("keychain", issued', FALSE).found : c.id = issued'
      BY <3>1, RewrittenStore, Zenon
    <3> QED BY <2>2, <2>4, <3>2, <3>3
  <2> QED BY <1>1, <2>1, <2>3, <2>4
<1>5. ASSUME NEW t, NoOlder(t, keychain), NoOlder(t, file), \A i \in DOMAIN memo : NoOlder(t, memo[i]),
             t.id \in Nat, t.id <= issued
      PROVE  /\ NoOlder(t, keychain') /\ NoOlder(t, file')
             /\ \A i \in DOMAIN memo' : NoOlder(t, memo'[i])
  <2>1. NoOlder(t, keychain') /\ NoOlder(t, file')
    BY <1>1, <1>3, <1>4, <1>5 DEF NoOlder
  <2>2. \A i \in DOMAIN memo' : NoOlder(t, memo'[i])
    BY <1>4, <1>5
  <2> QED BY <2>1, <2>2
<1> QED BY <1>3, <1>4, <1>5

\* While a request waits, its owners' rewrites change nothing it has seen.
LEMMA OwnersExplain ==
  ASSUME Explains, ClaudeRewrites \/ CodexRewrites
  PROVE  Explains'
<1>1. /\ UNCHANGED <<config, pc, override, rejectedExpiry, sent, reply, looks>>
      /\ issued \in Nat /\ issued' \in {issued, issued + 1}
  BY DEF ClaudeRewrites, CodexRewrites, choices, Explains, Ordered
<1>2. (ClaudeOwned' <=> ClaudeOwned) /\ \A look : Fits(look)' <=> Fits(look)
  BY <1>1, SameSettings
<1>3. Looked' /\ Told'
  BY <1>1, <1>2 DEF Explains, Looked, Told
<1>4. Newer' /\ Steps'
  BY <1>1, <1>2 DEF Explains, Newer, Steps
<1>5. InOrder(memo', keychain', issued') /\ OneAt(file', "file", issued')
  BY KeychainStaysOrdered DEF Explains
<1>6. ASSUME ClaudeOwned, NEW t \in override
      PROVE  /\ t = Token("claude", t.id, NoAccount, t.place)
             /\ t.id \in Nat /\ t.id <= issued'
             /\ NoOlder(t, keychain') /\ NoOlder(t, file')
             /\ \A i \in DOMAIN memo' : NoOlder(t, memo'[i])
  <2>1. /\ t = Token("claude", t.id, NoAccount, t.place)
        /\ t.id \in Nat /\ t.id <= issued
        /\ NoOlder(t, keychain) /\ NoOlder(t, file)
        /\ \A i \in DOMAIN memo : NoOlder(t, memo[i])
    BY <1>6 DEF Explains, Ordered
  <2>2. /\ NoOlder(t, keychain') /\ NoOlder(t, file')
        /\ \A i \in DOMAIN memo' : NoOlder(t, memo'[i])
    BY <2>1, KeychainStaysOrdered DEF Explains
  <2>3. t.id <= issued'
    BY <1>1, <2>1
  <2> QED BY <2>1, <2>2, <2>3
<1>7. Ordered'
  <2>1. issued' \in Nat
    BY <1>1
  <2> QED BY <1>1, <1>2, <1>5, <1>6, <2>1 DEF Ordered, InOrder, OneAt, NotLater, NoOlder
<1> QED BY <1>3, <1>4, <1>7 DEF Explains

\* The token a look gives is not newer than what can be read after it.
LEMMA ChosenInOrder ==
  ASSUME Ordered, ClaudeOwned, NEW k \in KeychainReads, LooksUp(k),
         UNCHANGED <<keychain, file, issued>>, NEW c \in resolve_credential(k).found
  PROVE  LET t == ClaudeToken(c) IN
         /\ t = Token("claude", t.id, NoAccount, t.place) /\ t.id \in Nat /\ t.id <= issued
         /\ NoOlder(t, keychain) /\ NoOlder(t, file)
         /\ \A i \in DOMAIN memo' : NoOlder(t, memo'[i])
<1>1. /\ issued \in Nat /\ InOrder(memo, keychain, issued) /\ OneAt(file, "file", issued)
      /\ OneAt(keychain, "keychain", issued) /\ "keychain" # "file"
  BY DEF Ordered, InOrder
<1>2. OneAt(k, "keychain", issued)
  <2>1. OneAt(Denied, "keychain", issued)
    BY DEF OneAt, Denied
  <2> QED BY <1>1, <2>1 DEF KeychainReads, InOrder
<1>3. PICK t : t = ClaudeToken(c) /\ t.id = c.id /\ t.place = c.place
               /\ t = Token("claude", t.id, NoAccount, t.place)
  <2>1. /\ ClaudeToken(c).id = c.id /\ ClaudeToken(c).place = c.place
        /\ ClaudeToken(c) = Token("claude", c.id, NoAccount, c.place)
    BY DEF ClaudeToken, Token
  <2> QED BY <2>1
<1>4. \A j \in DOMAIN memo' : OneAt(memo'[j], "keychain", issued)
  <2>1. (\E j : ReadKeychain(j)) \/ UNCHANGED memo
    BY DEF LooksUp
  <2> QED BY <1>1, <2>1, LookInOrder DEF InOrder
<1>5. CASE c \in k.found /\ config.source = "keychain"
  <2>1. ReadKeychain(k)
    BY <1>5 DEF LooksUp
  <2>2. NotLater(k, keychain) /\ \A j \in DOMAIN memo' : NotLater(k, memo'[j])
    BY <1>1, <2>1, ReadInOrder
  <2>3. c.place = "keychain" /\ c.id \in Nat /\ c.id <= issued
    BY <1>2, <1>5 DEF OneAt
  <2>4. NoOlder(t, keychain) /\ \A j \in DOMAIN memo' : NoOlder(t, memo'[j])
    BY <1>3, <1>5, <2>2 DEF NotLater, NoOlder
  <2>5. NoOlder(t, file)
    BY <1>1, <1>3, <2>3 DEF OneAt, NoOlder
  <2> QED BY <1>3, <2>3, <2>4, <2>5
<1>6. CASE c \in file.found
  <2>1. c.place = "file" /\ c.id \in Nat /\ c.id <= issued
    BY <1>1, <1>6 DEF OneAt
  <2>2. NoOlder(t, file)
    BY <1>1, <1>3, <1>6, <2>1 DEF OneAt, NoOlder
  <2>3. NoOlder(t, keychain) /\ \A j \in DOMAIN memo' : NoOlder(t, memo'[j])
    BY <1>1, <1>3, <1>4, <2>1 DEF OneAt, NoOlder
  <2> QED BY <1>3, <2>1, <2>2, <2>3
<1> QED BY <1>1, <1>2, <1>5, <1>6, PlaceIsNamed

\* The request is read: what is chosen is what the first look gives.
LEMMA BodyArrivesExplains ==
  ASSUME Inv, Explains, BodyArrives
  PROVE  Explains'
<1>1. /\ reply' = reply /\ reply = {} /\ pc' = "sent" /\ Len(sent') = 1 /\ override = {}
      /\ UNCHANGED <<config, keychain, file, issued, rejectedExpiry>>
  BY DEF BodyArrives, Explains, Steps, Inv, Stage
<1>2. rejectedExpiry = {}
  BY <1>1 DEF BodyArrives, Inv, Stage
<1>3. ClaudeOwned' <=> ClaudeOwned
  BY <1>1, SameSettings
<1>4. Newer' /\ Steps' /\ Told'
  BY <1>1, <1>2 DEF Newer, Steps, Told
<1>5. CASE override' = {} /\ UNCHANGED <<memo, looks>>
  <2>1. Ordered'
    BY <1>1, <1>3, <1>5 DEF Explains, Ordered, InOrder, OneAt, NotLater
  <2>2. Looked'
    BY <1>1, <1>3, <1>5, SameSettings DEF Explains, Looked
  <2> QED BY <1>4, <2>1, <2>2 DEF Explains
<1>6. CASE \E k \in KeychainReads, fromAuthFile \in AuthFileReads :
             override' = resolve(k, fromAuthFile) /\ LooksUp(k)
  <2>1. PICK k \in KeychainReads :
          /\ LooksUp(k)
          /\ ClaudeOwned => override' = {ClaudeToken(c) : c \in resolve_credential(k).found}
    BY <1>6 DEF resolve, ClaudeOwned
  <2>2. /\ InOrder(memo', keychain, issued) /\ OneAt(file, "file", issued)
        /\ ClaudeOwned => \A look \in looks' : Fits(look)'
    BY <1>1, <2>1, LookFits DEF Explains
  <2>3. ASSUME ClaudeOwned, NEW t \in override'
        PROVE  /\ t = Token("claude", t.id, NoAccount, t.place) /\ t.id \in Nat /\ t.id <= issued
               /\ NoOlder(t, keychain) /\ NoOlder(t, file)
               /\ \A i \in DOMAIN memo' : NoOlder(t, memo'[i])
    <3>1. PICK c \in resolve_credential(k).found : t = ClaudeToken(c)
      BY <2>1, <2>3
    <3> QED BY <1>1, <2>1, <2>3, <3>1, ChosenInOrder DEF Explains
  <2>4. Ordered'
    BY <1>1, <1>3, <2>2, <2>3 DEF Explains, Ordered, InOrder, OneAt, NotLater, NoOlder
  <2>5. resolve_credential(k) \in looks'
    BY <2>1 DEF LooksUp
  <2>6. Looked'
    BY <1>1, <1>2, <1>3, <2>1, <2>2, <2>5 DEF Looked
  <2> QED BY <1>4, <2>4, <2>6 DEF Explains
<1> QED BY <1>5, <1>6 DEF BodyArrives

\* A step that leaves the stores, the looks and what was chosen and sent alone.
LEMMA AnswerExplains ==
  ASSUME Explains, pc' = "done",
         UNCHANGED <<config, keychain, memo, file, issued, choices, sent, looks>>,
         \A r \in reply' : r.by = "upstream" \/ r.status # 401
  PROVE  Explains'
<1>0. (ClaudeOwned' <=> ClaudeOwned) /\ \A look : Fits(look)' <=> Fits(look)
  BY SameSettings
<1>1. Ordered'
  BY <1>0 DEF Explains, Ordered, InOrder, OneAt, NotLater, NoOlder, choices
<1>2. Looked' /\ Newer' /\ Steps'
  BY <1>0 DEF Explains, Looked, Newer, Steps, choices
<1>3. Told'
  BY DEF Told
<1> QED BY <1>1, <1>2, <1>3 DEF Explains

\* The token is rejected: whether it had expired is asked of the same store.
LEMMA AnthropicRejectsExplains ==
  ASSUME Inv, Explains, AnthropicRejects
  PROVE  Explains'
<1>1. /\ reply' = reply /\ reply = {} /\ pc' = "waiting" /\ Len(sent) = 1 /\ ClaudeOwned /\ override # {}
      /\ UNCHANGED <<config, keychain, file, issued, override, sent>>
  BY DEF AnthropicRejects, Explains, Steps, Inv, Stage, AnthropicRejected
<1>2. PICK k \in KeychainReads :
        /\ rejectedExpiry' = {AllExpired(resolve_credential(k).found)}
        /\ LooksUp(k)
  BY Zenon DEF AnthropicRejects, AllExpired
<1>3. /\ InOrder(memo', keychain, issued)
      /\ \A j \in DOMAIN memo' : \E i \in DOMAIN memo : memo'[j] = memo[i]
      /\ \A look \in looks' : Fits(look)'
  BY <1>1, <1>2, LookFits DEF Explains
<1>4. Ordered'
  BY <1>1, <1>3, LookKeepsOrder DEF Explains
<1>5. ClaudeOwned' <=> ClaudeOwned
  BY <1>1, SameSettings
<1>6. Looked'
  <2>1. ASSUME NEW look \in looks', looks' = {look}
        PROVE  /\ override = {ClaudeToken(c) : c \in look.found}
               /\ rejectedExpiry' \subseteq {AllExpired(look.found)}
    <3>1. looks = {look} /\ resolve_credential(k) = look
      BY <1>1, <1>2, <2>1 DEF Explains, Looked, LooksUp
    <3> QED BY <1>1, <1>2, <3>1 DEF Explains, Looked
  <2>2. looks' # {}
    BY <1>2 DEF LooksUp
  <2> QED BY <1>1, <1>3, <1>5, <2>1, <2>2 DEF Looked
<1>7. Newer' /\ Told' /\ Steps'
  BY <1>1, <1>2, <1>5 DEF Explains, Newer, Told, Steps
<1> QED BY <1>4, <1>6, <1>7 DEF Explains

\* Another token than the rejected one: not every look gave the same.
LEMMA AnthropicRetriesExplains ==
  ASSUME Inv, Explains, AnthropicRetries
  PROVE  Explains'
<1>1. /\ reply' = reply /\ reply = {} /\ pc' = "sent again" /\ ClaudeOwned /\ override # {}
      /\ sent = <<sent[1]>>
      /\ UNCHANGED <<config, keychain, file, issued, override, rejectedExpiry>>
  BY DEF AnthropicRetries, choices, Explains, Steps, Inv, Stage
<1>2. PICK k, t :
        /\ k \in KeychainReads /\ LooksUp(k)
        /\ t \in resolve(k, {}) \ override
        /\ sent' = Append(sent, Attempt(AnthropicRetryHeaders, {t}, {}, sent[1].claims))
  BY DEF AnthropicRetries
<1>3. Len(sent') = 2 /\ sent'[2].token = {t}
  <2>1. PICK a, b : a = sent[1] /\ sent = <<a>> /\ sent' = Append(<<a>>, b) /\ b.token = {t}
    BY <1>1, <1>2, AttemptFields
  <2>2. sent' = <<a, b>>
    BY <2>1, AppendSecond, Zenon
  <2> QED BY <2>1, <2>2
<1>4. resolve(k, {}) = {ClaudeToken(c) : c \in resolve_credential(k).found}
  BY <1>1 DEF resolve, ClaudeOwned
<1>5. /\ InOrder(memo', keychain, issued)
      /\ \A j \in DOMAIN memo' : \E i \in DOMAIN memo : memo'[j] = memo[i]
      /\ \A look \in looks' : Fits(look)'
      /\ OneAt(k, "keychain", issued) /\ OneAt(file, "file", issued)
  BY <1>1, <1>2, LookFits DEF Explains
<1>6. Ordered'
  BY <1>1, <1>5, LookKeepsOrder DEF Explains
<1>7. ClaudeOwned' <=> ClaudeOwned
  BY <1>1, SameSettings
<1>8. Looked'
  <2>1. ASSUME NEW look \in looks', looks' = {look} PROVE FALSE
    <3>1. looks = {look} /\ resolve_credential(k) = look
      BY <1>1, <1>2, <2>1 DEF Explains, Looked, LooksUp
    <3> QED BY <1>1, <1>2, <1>4, <3>1 DEF Explains, Looked
  <2>2. looks' # {}
    BY <1>2 DEF LooksUp
  <2> QED BY <1>5, <1>7, <2>1, <2>2 DEF Looked
<1>9. Told' /\ Steps'
  BY <1>1, <1>3, <1>7 DEF Told, Steps, Explains
<1>10. Newer'
  <2>1. PICK c \in resolve_credential(k).found : t = ClaudeToken(c)
    BY <1>2, <1>4
  <2>2. t.id = c.id /\ t.place = c.place /\ t = Token("claude", t.id, NoAccount, t.place)
    BY <2>1 DEF ClaudeToken, Token
  <2>3. c \in k.found \/ c \in file.found
    BY <1>1, <1>5, PlaceIsNamed
  <2>4. c.id \in Nat
    BY <1>5, <2>3 DEF OneAt
  <2>5. ASSUME NEW u \in override PROVE u # t /\ (u.place = t.place => u.id < t.id)
    <3>1. /\ u = Token("claude", u.id, NoAccount, u.place) /\ u.id \in Nat
          /\ NoOlder(u, keychain) /\ NoOlder(u, file)
          /\ \A i \in DOMAIN memo : NoOlder(u, memo[i])
      BY <1>1, <2>5 DEF Explains, Ordered
    <3>2. NoOlder(u, k)
      <4>1. NoOlder(u, Denied)
        BY DEF NoOlder, Denied
      <4> QED BY <1>2, <3>1, <4>1 DEF KeychainReads
    <3>3. c.place = u.place => u.id <= c.id
      BY <2>3, <3>1, <3>2 DEF NoOlder
    <3>4. u # t
      BY <1>2, <2>5
    <3>5. u.place = t.place => u.id # t.id
      BY <2>2, <3>1, <3>4
    <3> QED BY <2>2, <2>4, <3>1, <3>3, <3>4, <3>5
  <2> QED BY <1>1, <1>3, <2>5 DEF Newer, Later
<1> QED BY <1>6, <1>8, <1>9, <1>10 DEF Explains

\* The Codex route carries no disguise, and asks nothing of Claude Code's stores.
LEMMA CodexRetriesExplains ==
  ASSUME Inv, Explains, CodexRetries
  PROVE  Explains'
<1>1. /\ reply' = reply /\ reply = {} /\ pc' = "sent again" /\ override = {} /\ looks' = looks
      /\ sent = <<sent[1]>> /\ issued \in Nat /\ issued' \in {issued, issued + 1}
      /\ UNCHANGED <<config, keychain, memo, file, override, rejectedExpiry>>
  <2>1. codexCred # {}
    BY DEF CodexRetries, Inv, Stage, codex_retry_eligible
  <2>2. override = {}
    BY <2>1, DisguisedIsAnthropic DEF Inv, Chosen
  <2>3. reply = {} /\ sent = <<sent[1]>> /\ issued \in Nat
    BY DEF CodexRetries, Explains, Steps, Ordered, Inv, Stage
  <2> QED BY <2>2, <2>3 DEF CodexRetries, choices
<1>2. (ClaudeOwned' <=> ClaudeOwned) /\ \A look : Fits(look)' <=> Fits(look)
  BY <1>1, SameSettings
<1>3. Len(sent') = 2
  <2>1. PICK b : sent' = Append(sent, b)
    <3>1. \E fresh : RetryWith(fresh)
      BY Zenon DEF CodexRetries
    <3> QED BY <3>1, Zenon DEF RetryWith
  <2>2. PICK a : sent = <<a>>
    BY <1>1
  <2>3. sent' = <<a, b>>
    BY <2>1, <2>2, AppendSecond, Zenon
  <2> QED BY <2>3
<1>4. Newer' /\ Told' /\ Looked'
  BY <1>1, <1>2 DEF Newer, Told, Explains, Looked
<1>5. Steps'
  BY <1>1, <1>2, <1>3 DEF Explains, Steps
<1>6. Ordered'
  <2>0. issued \in Nat /\ issued' \in {issued, issued + 1} /\ override' = {}
    BY <1>1
  <2>1. \A x, place : OneAt(x, place, issued) => OneAt(x, place, issued')
    BY <2>0 DEF OneAt
  <2>2. issued' \in Nat /\ override' = {}
    BY <2>0
  <2>3. InOrder(memo, keychain, issued') /\ OneAt(file, "file", issued')
    BY <2>1 DEF Explains, Ordered, InOrder
  <2> QED BY <1>1, <2>2, <2>3 DEF Ordered, InOrder, OneAt, NotLater
<1> QED BY <1>4, <1>5, <1>6 DEF Explains

\* The texts of the two kinds of 401, and the place each names: the one the last
\* look found, or the only one there is.
LEMMA ExplainedSays ==
  ASSUME NEW retried \in BOOLEAN, Explained(retried)
  PROVE  \E k, r :
           /\ reply' = {r}
           /\ r.store = describe_credential_store(k)
           /\ (r.what = "newer one rejected too") <=> retried
           /\ ~retried => ((r.what = "expired") <=> TRUE \in rejectedExpiry)
           /\ IF AsksAgain THEN k \in KeychainReads /\ LooksUp(k)
              ELSE k = Missing /\ UNCHANGED <<memo, looks>>
<1>1. PICK k :
        /\ reply' = {auth_error_body(k, retried)}
        /\ IF AsksAgain THEN k \in KeychainReads /\ LooksUp(k)
           ELSE k = Missing /\ UNCHANGED <<memo, looks>>
  BY DEF Explained, AsksAgain
<1>2. PICK r : r = auth_error_body(k, retried)
  OBVIOUS
<1>3. /\ r.store = describe_credential_store(k)
      /\ r.what = IF retried THEN "newer one rejected too"
                  ELSE IF TRUE \in rejectedExpiry THEN "expired" ELSE "revoked"
  BY <1>2 DEF auth_error_body
<1>4. /\ (r.what = "newer one rejected too") <=> retried
      /\ ~retried => ((r.what = "expired") <=> TRUE \in rejectedExpiry)
  BY <1>3
<1> QED BY <1>1, <1>2, <1>3, <1>4

\* What was found out about the expiry is the one thing there is to find out.
LEMMA BlamesTheAge ==
  ASSUME NEW B, NEW all \in BOOLEAN, B # {}, B \subseteq {all}
  PROVE  TRUE \in B <=> all
<1>1. B = {all}
  OBVIOUS
<1>2. CASE all = TRUE
  BY <1>1, <1>2
<1>3. CASE all = FALSE
  BY <1>1, <1>3
<1> QED BY <1>2, <1>3

\* The explanation keeps the order, and what the request has seen still fits.
LEMMA ExplainedKeeps ==
  ASSUME Explains, NEW k, ClaudeOwned, override # {},
         UNCHANGED <<config, keychain, file, issued, override, rejectedExpiry, sent>>,
         IF AsksAgain THEN k \in KeychainReads /\ LooksUp(k)
         ELSE k = Missing /\ UNCHANGED <<memo, looks>>
  PROVE  /\ Ordered' /\ Looked' /\ Newer' /\ (ClaudeOwned' <=> ClaudeOwned)
         /\ \A look \in looks' : looks' = {look} =>
              looks = {look} /\ \A c \in look.found : c.place = describe_credential_store(k)
<1>1. (ClaudeOwned' <=> ClaudeOwned) /\ \A look : Fits(look)' <=> Fits(look)
  BY SameSettings
<1>2. Newer'
  BY <1>1 DEF Explains, Newer
<1>3. CASE AsksAgain /\ k \in KeychainReads /\ LooksUp(k)
  <2>1. /\ InOrder(memo', keychain, issued) /\ OneAt(file, "file", issued)
        /\ \A j \in DOMAIN memo' : \E i \in DOMAIN memo : memo'[j] = memo[i]
        /\ \A look \in looks' : Fits(look)'
        /\ OneAt(k, "keychain", issued)
    BY <1>3, LookFits DEF Explains
  <2>2. Ordered'
    BY <2>1, LookKeepsOrder DEF Explains
  <2>3. ASSUME NEW look \in looks', looks' = {look}
        PROVE  looks = {look} /\ resolve_credential(k) = look
    BY <1>3, <2>3 DEF Explains, Looked, LooksUp
  <2>4. \A c \in resolve_credential(k).found : c.place = describe_credential_store(k)
    BY <2>1, PlaceIsNamed
  <2>5. looks' # {}
    BY <1>3 DEF LooksUp
  <2>6. Looked'
    BY <1>1, <2>1, <2>3, <2>5 DEF Explains, Looked
  <2> QED BY <1>1, <1>2, <2>2, <2>3, <2>4, <2>6
<1>4. CASE ~AsksAgain /\ k = Missing /\ UNCHANGED <<memo, looks>>
  <2>1. Ordered'
    BY <1>1, <1>4 DEF Explains, Ordered, InOrder, OneAt, NotLater, NoOlder
  <2>2. Looked'
    BY <1>1, <1>4 DEF Explains, Looked
  <2>3. \A look \in looks : \A c \in look.found : c.place = describe_credential_store(k)
    BY <1>4 DEF Explains, Looked, Fits
  <2> QED BY <1>1, <1>2, <1>4, <2>1, <2>2, <2>3
<1> QED BY <1>3, <1>4

\* No rotation came: the store is asked once more where the token is.
LEMMA WaitEndsExplains ==
  ASSUME Inv, Explains, WaitEnds
  PROVE  Explains'
<1>1. /\ pc' = "done" /\ Len(sent) = 1 /\ override # {} /\ ClaudeOwned /\ rejectedExpiry # {}
      /\ UNCHANGED <<config, keychain, file, issued, override, rejectedExpiry, sent>>
  BY DEF WaitEnds, Explained, choices, Explains, Steps, Inv, Stage
<1>2. PICK k, r :
        /\ reply' = {r}
        /\ r.store = describe_credential_store(k)
        /\ r.what # "newer one rejected too"
        /\ (r.what = "expired") <=> TRUE \in rejectedExpiry
        /\ IF AsksAgain THEN k \in KeychainReads /\ LooksUp(k)
           ELSE k = Missing /\ UNCHANGED <<memo, looks>>
  BY ExplainedSays DEF WaitEnds
<1>3. /\ Ordered' /\ Looked' /\ Newer' /\ (ClaudeOwned' <=> ClaudeOwned)
      /\ \A look \in looks' : looks' = {look} =>
           looks = {look} /\ \A c \in look.found : c.place = describe_credential_store(k)
  BY <1>1, <1>2, ExplainedKeeps
<1>4. ASSUME NEW look \in looks', looks' = {look}
      PROVE  r.store \in {t.place : t \in override} /\ Blames(r, look.found)
  <2>1. /\ looks = {look} /\ override = {ClaudeToken(c) : c \in look.found}
        /\ rejectedExpiry \subseteq {AllExpired(look.found)} /\ Fits(look)
    BY <1>1, <1>3, <1>4 DEF Explains, Looked
  <2>2. PICK c \in look.found : ClaudeToken(c) \in override
    BY <1>1, <2>1
  <2>3. \A d \in look.found : d = c /\ c.expired \in BOOLEAN
    BY <2>1 DEF Fits
  <2>4. c.place = describe_credential_store(k)
    BY <1>3, <1>4
  <2>5. ClaudeToken(c).place = c.place
    BY DEF ClaudeToken, Token
  <2>6. AllExpired(look.found) <=> c.expired
    BY <2>2, <2>3, Zenon DEF AllExpired
  <2>7. AllExpired(look.found) \in BOOLEAN
    BY Zenon DEF AllExpired
  <2>8. TRUE \in rejectedExpiry <=> AllExpired(look.found)
    BY <1>1, <2>1, <2>7, BlamesTheAge, Zenon
  <2>9. Blames(r, look.found)
    BY <1>2, <2>3, <2>6, <2>8, Zenon DEF Blames
  <2>10. r.store \in {t.place : t \in override}
    BY <1>2, <2>2, <2>4, <2>5
  <2> QED BY <2>9, <2>10
<1>5. Told'
  <2>1. TrueOf(r, override, sent, looks')
    <3>1. Len(sent) # 2
      BY <1>1
    <3> QED BY <1>1, <1>2, <1>4, <3>1, Zenon DEF TrueOf
  <2> QED BY <1>1, <1>2, <2>1 DEF Told
<1>6. Steps'
  BY <1>1, <1>3 DEF Steps
<1> QED BY <1>3, <1>5, <1>6 DEF Explains

\* A newer token was rejected as well; had every look given the same, there was none.
LEMMA RetryAnsweredExplains ==
  ASSUME Inv, Explains, RetryAnswered
  PROVE  Explains'
<1>1. /\ pc' = "done" /\ Len(sent) = 2
      /\ UNCHANGED <<config, keychain, file, issued, choices, sent>>
  <2>1. pc' = "done"
    BY DEF RetryAnswered, UpstreamAnswers, Explained
  <2> QED BY <2>1 DEF RetryAnswered, choices, Explains, Steps
<1>2. CASE UNCHANGED <<memo, looks>> /\ \A r \in reply' : r.by = "upstream" \/ r.status # 401
  BY <1>1, <1>2, AnswerExplains
<1>3. CASE rejectedExpiry # {} /\ Explained(TRUE)
  <2>1. ClaudeOwned /\ override # {} /\ UNCHANGED <<override, rejectedExpiry>>
    BY <1>1, <1>3 DEF Explains, Steps, Inv, Stage, choices
  <2>2. PICK k, r :
          /\ reply' = {r}
          /\ r.what = "newer one rejected too"
          /\ IF AsksAgain THEN k \in KeychainReads /\ LooksUp(k)
             ELSE k = Missing /\ UNCHANGED <<memo, looks>>
    BY <1>3, ExplainedSays
  <2>3. /\ Ordered' /\ Looked' /\ Newer' /\ (ClaudeOwned' <=> ClaudeOwned)
        /\ \A look \in looks' : looks' = {look} => looks = {look}
    BY <1>1, <2>1, <2>2, ExplainedKeeps
  <2>4. \A look \in looks' : looks' # {look}
    BY <1>1, <2>1, <2>3 DEF Explains, Looked
  <2>5. Steps'
    BY <1>1, <2>1, <2>3 DEF Steps
  <2>6. sent[1].token = override
    <3>1. IsFirst(sent[1])
      BY <1>1 DEF Inv, Sends
    <3>2. codexCred = {}
      BY <2>1, DisguisedIsAnthropic DEF Inv, Chosen
    <3> QED BY <3>1, <3>2 DEF IsFirst, Attempt
  <2>7. Later(sent[1].token, sent[2].token)
    BY <1>1, <2>1, <2>6 DEF Explains, Newer
  <2>8. TrueOf(r, override, sent, looks')
    BY <1>1, <2>1, <2>2, <2>4, <2>7, Zenon DEF TrueOf
  <2>9. Told'
    BY <1>1, <2>1, <2>2, <2>8 DEF Told
  <2> QED BY <2>3, <2>5, <2>9 DEF Explains
<1>4. \/ rejectedExpiry # {} /\ Explained(TRUE)
      \/ UNCHANGED <<memo, looks>> /\ \A r \in reply' : r.by = "upstream" \/ r.status # 401
  <2>1. CASE \E status \in {200, 500} : UpstreamAnswers(status) /\ UNCHANGED <<memo, looks>>
    BY <2>1 DEF UpstreamAnswers
  <2>2. CASE UpstreamAnswers(401) /\ UNCHANGED <<memo, looks>>
    BY <2>2 DEF UpstreamAnswers
  <2>3. CASE reply' = {[by |-> "gateway", status |-> 502]} /\ UNCHANGED <<memo, looks>>
    BY <2>3
  <2> QED BY <2>1, <2>2, <2>3 DEF RetryAnswered
<1> QED BY <1>2, <1>3, <1>4

\* The gateway's own 401 is true, for any path, settings, stores and order of
\* rewrites: a newer token is said to have failed exactly if one did, and if the
\* request's looks gave the same the store named and the reason are the rejected token's.
THEOREM ExplanationsAreTrue == Spec => []ExplanationIsTrue
<1>1. Init => Explains
  <2> SUFFICES ASSUME Init PROVE Explains
    OBVIOUS
  <2>1. override = {} /\ rejectedExpiry = {} /\ sent = <<>> /\ reply = {} /\ pc = "accepted"
    BY DEF Init
  <2>2. Looked /\ Newer /\ Steps /\ Told
    <3>1. looks = {}
      BY DEF Init
    <3> QED BY <2>1, <3>1 DEF Looked, Newer, Steps, Told
  <2>3. InOrder(memo, keychain, issued)
    <3>0. 2 \in Nat /\ 3 \in Nat /\ 2 <= 3 /\ 3 <= 3
      OBVIOUS
    <3>1. ASSUME NEW b \in BOOLEAN
          PROVE  /\ Holds("keychain", 3, b) \in Contents /\ OneAt(Holds("keychain", 3, b), "keychain", 3)
                 /\ Holds("keychain", 2, b) \in Contents /\ OneAt(Holds("keychain", 2, b), "keychain", 3)
                 /\ \A c \in Holds("keychain", 3, b).found : c.id = 3
                 /\ \A c \in Holds("keychain", 2, b).found : c.id = 2
      BY <3>0, AnyHolds, HoldsContent, Zenon
    <3>2. OneAt(Missing, "keychain", 3) /\ Missing.found = {} /\ Missing \in Contents
      <4>1. 3 \in Nat /\ Missing \in Contents
        BY DEF Contents
      <4> QED BY <4>1, RewrittenStore, Zenon
    <3>3. keychain \in Contents /\ OneAt(keychain, "keychain", 3) /\ \A c \in keychain.found : c.id = 3
      BY <3>1, <3>2 DEF Init
    <3>4. PICK old \in Contents :
            /\ memo = <<>> \/ memo = <<old>>
            /\ OneAt(old, "keychain", 3) /\ \A c \in old.found : c.id = 2
      <4>0. memo \in {<<>>, <<Holds("keychain", 2, FALSE)>>, <<Holds("keychain", 2, TRUE)>>}
        BY Zenon DEF Init
      <4>1. PICK b \in BOOLEAN : memo = <<>> \/ memo = <<Holds("keychain", 2, b)>>
        BY <4>0
      <4> QED BY <3>1, <4>1, Zenon
    <3>5. NotLater(old, keychain)
      BY <3>3, <3>4 DEF NotLater
    <3>6. memo \in Seq(Contents) /\ \A i \in DOMAIN memo : i = 1 /\ memo[i] = old
      <4>1. CASE memo = <<>>
        BY <4>1
      <4>2. CASE memo = <<old>>
        BY <3>4, <4>2
      <4> QED BY <3>4, <4>1, <4>2
    <3>7. issued = 3
      BY DEF Init
    <3> QED BY <3>3, <3>4, <3>5, <3>6, <3>7 DEF InOrder
  <2>4. OneAt(file, "file", issued)
    <3>1. \A b \in BOOLEAN : OneAt(Holds("file", 1, b), "file", 3)
      BY AnyHolds
    <3>2. OneAt(Missing, "file", 3) /\ OneAt(Denied, "file", 3)
      BY RewrittenStore DEF OneAt, Denied
    <3> QED BY <3>1, <3>2 DEF Init
  <2>5. Ordered
    <3>1. issued \in Nat
      BY DEF Init
    <3> QED BY <2>1, <2>3, <2>4, <3>1 DEF Ordered
  <2> QED BY <2>2, <2>5 DEF Explains
<1>2. Inv /\ Explains /\ [Next]_vars => Explains'
  <2> SUFFICES ASSUME Inv, Explains, [Next]_vars PROVE Explains'
    OBVIOUS
  <2>1. CASE UNCHANGED vars
    BY <2>1, QuietExplains DEF vars, stores, choices, Explains, Steps
  <2>2. CASE ResolveCodex \/ CodexRejected \/ ClientLeaves \/ GrantExpires
    <3>1. /\ UNCHANGED <<config, keychain, memo, file, issued, override, rejectedExpiry, sent, reply, looks>>
          /\ pc' = pc \/ pc' \notin {"waiting", "sent again"}
          /\ pc # "done"
      BY <2>2 DEF ResolveCodex, CodexRejected, ClientLeaves, GrantExpires, Waits, stores, choices
    <3>2. reply = {}
      BY <3>1 DEF Explains, Steps
    <3> QED BY <3>1, <3>2, QuietExplains
  <2>3. CASE BodyArrives
    BY <2>3, BodyArrivesExplains
  <2>4. CASE BodyRefused \/ FirstPasses \/ CodexGivesUp
    <3>1. UNCHANGED <<config, keychain, memo, file, issued, choices, sent, looks>> /\ pc' = "done"
      BY <2>4 DEF BodyRefused, FirstPasses, CodexGivesUp, UpstreamAnswers, stores
    <3>2. \A r \in reply' : r.by = "upstream" \/ r.status # 401
      BY <2>4, BodyRefusedSays DEF FirstPasses, CodexGivesUp, UpstreamAnswers
    <3> QED BY <3>1, <3>2, AnswerExplains
  <2>5. CASE CodexRetries
    BY <2>5, CodexRetriesExplains
  <2>6. CASE AnthropicRejects
    BY <2>6, AnthropicRejectsExplains
  <2>7. CASE AnthropicRetries
    BY <2>7, AnthropicRetriesExplains
  <2>8. CASE WaitEnds
    BY <2>8, WaitEndsExplains
  <2>9. CASE RetryAnswered
    BY <2>9, RetryAnsweredExplains
  <2>10. CASE ClaudeRewrites \/ CodexRewrites
    BY <2>10, OwnersExplain
  <2> QED BY <2>1, <2>2, <2>3, <2>4, <2>5, <2>6, <2>7, <2>8, <2>9, <2>10 DEF Next
<1>3. Explains => ExplanationIsTrue
  BY ToldIsTrue DEF Explains
<1> QED BY <1>1, <1>2, <1>3, InvHolds, PTL DEF Spec

-----------------------------------------------------------------------------
\* An entry's report is older than its stamp by at most one run.
EntriesKnowTheirAge == \A e \in cached : e.reported <= e.age + DetectTime

\* An outcome came after its run began.
RunsKnowTheirAge == \A c \in Callers : \A r \in runs[c] : r.reported <= r.since

RecentInv == MemoTypeOK /\ EntriesKnowTheirAge /\ RunsKnowTheirAge /\ VersionIsRecent

\* What the constants are, in the form the steps use.
LEMMA Times == Ttl \in Nat /\ Ttl > 0 /\ DetectTime \in Nat /\ Limit \in Nat /\ Limit = Ttl + DetectTime
  BY TimesAssumption DEF Limit

\* A clock that stops at its limit stays below it.
LEMMA OlderStays ==
  ASSUME NEW limit \in Nat, NEW age \in 0..limit
  PROVE  /\ Older(age, limit) \in 0..limit
         /\ Older(age, limit) <= age + 1
         /\ age < limit => Older(age, limit) = age + 1
         /\ age = limit => Older(age, limit) = limit
  BY DEF Older

\* The strengthening holds before anybody asks.
LEMMA RecentAtStart == MemoInit => RecentInv
  BY Times DEF MemoInit, RecentInv, MemoTypeOK, EntriesKnowTheirAge, RunsKnowTheirAge, VersionIsRecent

\* Each step keeps it: a hit is fresh, an outcome is stored within its run.
LEMMA RecentStays == RecentInv /\ [MemoNext]_memoVars => RecentInv'
<1> SUFFICES ASSUME RecentInv, [MemoNext]_memoVars PROVE RecentInv'
  OBVIOUS
<1> USE Times
<1> USE DEF RecentInv
<1>1. ASSUME NEW c \in Callers, AskPinned(c) PROVE RecentInv'
  <2>1. PICK v \in {Pinned, Fallback} : Answer(v, 0)
    BY <1>1 DEF AskPinned
  <2>2. v \in Answers /\ 0 \in 0..Limit /\ 0 < Limit
    BY DEF Answers
  <2>3. UNCHANGED <<strategy, binaries, flaky, cached, runs>>
    BY <1>1 DEF AskPinned
  <2>4. MemoTypeOK'
    BY <2>1, <2>2, <2>3 DEF MemoTypeOK, Answer
  <2>5. EntriesKnowTheirAge' /\ RunsKnowTheirAge'
    BY <2>3 DEF EntriesKnowTheirAge, RunsKnowTheirAge
  <2>6. VersionIsRecent'
    BY <2>1, <2>2 DEF Answer, VersionIsRecent
  <2> QED BY <2>4, <2>5, <2>6
<1>2. ASSUME NEW c \in Callers, AskHit(c) PROVE RecentInv'
  <2>1. PICK e \in cached : e.age < Ttl /\ Answer(e.version, e.reported)
    BY <1>2 DEF AskHit, FreshEntries
  <2>2. e \in Entries /\ e.reported <= e.age + DetectTime
    BY <2>1 DEF MemoTypeOK, EntriesKnowTheirAge
  <2>3. e.reported < Limit /\ e.reported \in 0..Limit /\ e.version \in Answers
    BY <2>1, <2>2 DEF Entries, Answers
  <2>4. UNCHANGED <<strategy, binaries, flaky, cached, runs>>
    BY <1>2 DEF AskHit
  <2>5. MemoTypeOK'
    BY <2>1, <2>3, <2>4 DEF MemoTypeOK, Answer
  <2>6. EntriesKnowTheirAge' /\ RunsKnowTheirAge'
    BY <2>4 DEF EntriesKnowTheirAge, RunsKnowTheirAge
  <2>7. VersionIsRecent'
    BY <2>1, <2>3 DEF Answer, VersionIsRecent
  <2> QED BY <2>5, <2>6, <2>7
<1>3. ASSUME NEW c \in Callers, AskMiss(c) PROVE RecentInv'
  <2>1. [outcome |-> Absent, since |-> 0, reported |-> 0] \in Runs
    BY DEF Runs
  <2>2. MemoTypeOK'
    BY <1>3, <2>1 DEF MemoTypeOK, AskMiss
  <2>3. EntriesKnowTheirAge' /\ VersionIsRecent'
    BY <1>3 DEF AskMiss, EntriesKnowTheirAge, VersionIsRecent
  <2>4. runs' = [runs EXCEPT ![c] = {[outcome |-> Absent, since |-> 0, reported |-> 0]}]
    BY <1>3 DEF AskMiss
  <2>5. RunsKnowTheirAge'
    BY <2>4 DEF RunsKnowTheirAge, MemoTypeOK
  <2> QED BY <2>2, <2>3, <2>5
<1>4. ASSUME NEW c \in Callers, Reports(c) PROVE RecentInv'
  <2>1. PICK r \in runs[c], v \in {Detected, Fallback} :
          runs' = [runs EXCEPT ![c] = {[outcome |-> v, since |-> r.since, reported |-> 0]}]
    BY <1>4 DEF Reports
  <2>2. v \in Releases \cup {Fallback}
    BY DEF Detected
  <2>3. /\ r \in Runs
        /\ r.since \in 0..DetectTime
    BY DEF MemoTypeOK, Runs
  <2> DEFINE Outcome == [outcome |-> v, since |-> r.since, reported |-> 0]
  <2>5. Outcome \in Runs /\ Outcome.reported <= Outcome.since
    BY <2>2, <2>3 DEF Runs
  <2>6. runs' = [runs EXCEPT ![c] = {Outcome}]
    BY <2>1
  <2> HIDE DEF Outcome
  <2>7. MemoTypeOK'
    BY <1>4, <2>5, <2>6 DEF MemoTypeOK, Reports
  <2>8. EntriesKnowTheirAge' /\ VersionIsRecent'
    BY <1>4 DEF Reports, EntriesKnowTheirAge, VersionIsRecent
  <2>9. RunsKnowTheirAge'
    BY <2>5, <2>6 DEF RunsKnowTheirAge, MemoTypeOK
  <2> QED BY <2>7, <2>8, <2>9
<1>5. ASSUME NEW c \in Callers, Stores(c) PROVE RecentInv'
  <2>1. PICK r \in runs[c] :
          /\ r.outcome # Absent
          /\ cached' = {[version |-> r.outcome, age |-> 0, reported |-> r.reported]}
          /\ Answer(r.outcome, r.reported)
    BY <1>5 DEF Stores
  <2>2. r \in Runs
    BY DEF MemoTypeOK
  <2>3. r.reported \in 0..DetectTime /\ r.outcome \in Releases \cup {Fallback}
    BY <2>1, <2>2 DEF Runs
  <2>4. r.reported \in 0..Limit /\ r.reported < Limit
    BY <2>3
  <2>5. [version |-> r.outcome, age |-> 0, reported |-> r.reported] \in Entries
    BY <2>3, <2>4 DEF Entries
  <2>6. MemoTypeOK'
    BY <1>5, <2>1, <2>3, <2>4, <2>5 DEF MemoTypeOK, Stores, Answer, Answers
  <2>7. EntriesKnowTheirAge'
    BY <2>1, <2>3 DEF EntriesKnowTheirAge
  <2>8. VersionIsRecent'
    BY <2>1, <2>4 DEF VersionIsRecent, Answer
  <2>9. RunsKnowTheirAge'
    BY <1>5 DEF Stores, RunsKnowTheirAge, MemoTypeOK
  <2> QED BY <2>6, <2>7, <2>8, <2>9
<1>6. ASSUME Reinstall PROVE RecentInv'
  BY <1>6 DEF Reinstall, MemoTypeOK, EntriesKnowTheirAge, RunsKnowTheirAge, VersionIsRecent
<1>7. ASSUME Settle PROVE RecentInv'
  BY <1>7 DEF Settle, MemoTypeOK, EntriesKnowTheirAge, RunsKnowTheirAge, VersionIsRecent
<1>8. ASSUME Elapse PROVE RecentInv'
  <2> DEFINE Aged(e) == [e EXCEPT !.age = Older(@, Ttl), !.reported = Older(@, Limit)]
             Longer(r) == [outcome |-> r.outcome, since |-> r.since + 1, reported |-> r.reported + 1]
  <2>1. ASSUME NEW e \in cached
        PROVE  Aged(e) \in Entries /\ Aged(e).reported <= Aged(e).age + DetectTime
    <3>1. e \in Entries /\ e.reported <= e.age + DetectTime
      BY DEF MemoTypeOK, EntriesKnowTheirAge
    <3>2. e.age \in 0..Ttl /\ e.reported \in 0..Limit
      BY <3>1 DEF Entries
    <3>3. /\ Older(e.age, Ttl) \in 0..Ttl
          /\ Older(e.reported, Limit) \in 0..Limit
          /\ Older(e.reported, Limit) <= Older(e.age, Ttl) + DetectTime
      BY <3>1, <3>2 DEF Older
    <3> QED BY <3>1, <3>3 DEF Entries
  <2>2. cached' = {Aged(e) : e \in cached}
    BY <1>8 DEF Elapse
  <2>3. cached' \in SUBSET Entries /\ EntriesKnowTheirAge'
    BY <2>1, <2>2 DEF EntriesKnowTheirAge
  <2>4. ASSUME NEW c \in Callers, NEW r \in runs[c]
        PROVE  Longer(r) \in Runs /\ Longer(r).reported <= Longer(r).since
    <3>1. r \in Runs /\ r.since < DetectTime /\ r.reported <= r.since
      BY <1>8 DEF MemoTypeOK, Elapse, RunsKnowTheirAge
    <3>2. r.since + 1 \in 0..DetectTime /\ r.reported + 1 \in 0..DetectTime
      BY <3>1 DEF Runs
    <3> QED BY <3>1, <3>2 DEF Runs
  <2>5. runs' \in [Callers -> SUBSET Runs] /\ RunsKnowTheirAge'
    BY <1>8, <2>4 DEF Elapse, RunsKnowTheirAge
  <2>6. MemoTypeOK'
    BY <1>8, <2>3, <2>5 DEF MemoTypeOK, Elapse
  <2>7. VersionIsRecent'
    BY <1>8 DEF VersionIsRecent, Elapse
  <2> QED BY <2>3, <2>5, <2>6, <2>7
<1>9. CASE UNCHANGED memoVars
  BY <1>9 DEF memoVars, MemoTypeOK, EntriesKnowTheirAge, RunsKnowTheirAge, VersionIsRecent
<1> QED BY <1>1, <1>2, <1>3, <1>4, <1>5, <1>6, <1>7, <1>8, <1>9 DEF MemoNext

\* Every reachable state is well typed: an outcome is stored within DetectTime.
THEOREM MemoTypeCorrect == MemoSpec => []MemoTypeOK
<1>1. RecentInv => MemoTypeOK
  BY DEF RecentInv
<1> QED BY RecentAtStart, RecentStays, <1>1, PTL DEF MemoSpec

\* VersionCache::get never answers with what the binary, or its failure, said
\* more than CACHE_TTL and one run ago.
THEOREM RecentVersionServed == MemoSpec => []VersionIsRecent
<1>1. RecentInv => VersionIsRecent
  BY DEF RecentInv
<1> QED BY RecentAtStart, RecentStays, <1>1, PTL DEF MemoSpec

=============================================================================
