# mur-model-gateway: verification project

TLA+ modules, TLC configurations and TLAPS proofs for the gateway in `src/`.

mur-model-gateway is a local HTTP proxy between coding agents and model
providers (Anthropic, OpenAI, Gemini, Codex).  It forwards a request to the
provider its path names, attaches the user's own OAuth credential when the
client brought none, retries once when that credential turns out to be stale,
translates Chat Completions to the Responses API on the Codex route, rewrites
bodies to save tokens, and keeps track of what upstream has in its prompt cache.

The state it shares between requests is small: semaphores, three memoised
credentials and a memoised version, two recency tables and one of previous
requests, one shared engine.  Nearly everything that can go wrong in it is a
matter of order: what was read before an await and used after it, what a party
outside rewrites meanwhile, what comes back late.  That is what the modules are
about.

Paths below are relative to `src/`, the root of the repository; line numbers are
in `PROJECT.json`, where `map` gives the lines of every definition.

## 1. Inventory

| component | state | operations | what is hard | what makes it correct |
|---|---|---|---|---|
| Per-provider cap (`ProviderSemaphores`, `src/lib.rs`) | one tokio semaphore per provider | bounded wait, release | a permit outlives `forward` in the response body; a wait is cancelled by its timer or its client; a freed permit is assigned before its new owner runs | no permit lost or duplicated on any exit path, no lost wake-up, at most `Cap` requests talk to a provider, providers do not affect each other |
| Request handler (`proxy`, `forward`, `src/lib.rs`) | none of its own | one request: wait, read body, attach, rewrite, send, retry once, stream, explain | many early returns and awaits; a client may leave at each; the stores are read four times, each time something else may be there | credentials only go home; a client's own key is left alone; at most one retry, and of the same request; every request ends |
| Credential cache (`cached`, `invalidate_cache`, `src/keychain.rs`) | `CACHE`, `REFRESH` | memoised read, invalidation | `CACHE` read under one lock acquisition and written under another, a fetch between them; deadlines derived from an expiry | one keychain dialog at a time; no dead credential served past the floor; an invalidation has effect |
| Credential stores (`src/keychain.rs`, `src/codex.rs`, `src/lib.rs`) | keychain, file, `auth.json`, all owned by others | read, fall back | refused reads, missing and malformed items | a read yields what its source holds, or none |
| Anthropic rotation retry (`src/anthropic_retry.rs`, `src/lib.rs`) | `LAST_REJECTION` | wait for the owner to rotate, rate-limited invalidation | polling races the owner, the memo and other requests | never goes back to an older token; a rotation in time is used; the wait ends |
| OAuth keepalive (`src/oauth_keepalive.rs`) | loop locals | look at the expiry, run `claude -p`, back off | looks through the requests' memo; failing runs and reads | a bounded outage, no hammering, repair in the end |
| Codex refresh (`src/codex.rs`) | `REFRESHED` and its lock, `auth.json`, temp files | redeem a rotating refresh token, replace the file | crashes between grant and rename, Codex CLI writing the same file, bursts of 401s | one grant per burst; the file stays usable; no stray temp files |
| Prompt-cache tracker (`Tracker`, `InflightGuard`, `src/cache_trace.rs`) | two LRU tables, a sequence number | `on_send`, `set_status`, first chunk, usage, drop | sends of one key overlap and settle in any order; eviction while one is pending; rollback of a failed send | exact pending counts; readability is earned; a failed send leaves no trace |
| Prompt analysis and divergence (`src/cache_trace.rs`) | the table `prev` of previous requests | fingerprint a body, compare it with the last of its client and model | sections folded past a cap, bytes dropped over a budget, slots evicted | the divergence reported is the first one, and agrees with the tables |
| Stale-read compression (`src/compress.rs`) | shared engine, verdict and stub memos, archive on disk | collapse superseded and duplicate tool results, compress the others | transcripts are resent one turn longer; the verdict on a result depends on later ones; settings change under a memo; one format pairs results with calls by order | stubs are true and can be undone; the cached prefix stays stable; memos belong to one engine |
| Chat/Responses translation (`src/translate.rs`, `src/lib.rs`) | `SseTranslator`, `ResponseAggregator` per request | translate request, stream, aggregate | frames and characters cut anywhere; interleaved tool calls; streams that end early | streaming and not, the client gets the same message; exactly one end; nothing lost on the way back |
| Response usage tap (`UsageTap`, `src/lib.rs`) | per-response buffers | watch the stream for its first chunk and its usage | ends anywhere | reports at most once |
| Claude version detection (`src/cc_version.rs`) | five-minute memo | run `claude --version` | the run is outside the lock: overlapping runs store in any order | no answer older than the memo and one run; an upgrade arrives |
| Provider detection and routing (`src/lib.rs`, `src/main.rs`) | none | path to provider, host, path, source | source, host and mode are decided at different moments | see request handler |
| Disguise (`src/disguise.rs`) | none | header and body edits of a request | – | who gets it: see request handler; the edits are stubs in this repository |
| Installer, command line (`src/install.rs`, `src/main.rs`) | files written once | – | pure I/O | – |

How they interact.  `proxy` detects the provider and calls `forward`, which
waits for a permit, chooses the Codex credential, reads the body, asks the
credential cache (Anthropic) for a token and the version cache for a version,
has the body rewritten, translated and disguised without an await, opens a
tracker guard, and sends.  A 401 for a credential of the gateway's own leads to
the rotation retry or the Codex refresh and to one further call, and if that
fails to the gateway's own 401.  Permit and guard then move into the response
stream and go with it.  The rotation retry and the keepalive invalidate the
credential cache; the keepalive looks through the same cache; the owner of the
credential (Claude Code, Codex CLI) changes the stores at any time.

The hazards of the code, each at the line where it bites and with the
properties that would catch it going wrong, are listed in `PROJECT.json`.

## 2. Modules

| module | stands for | used by |
|---|---|---|
| `CappedCalls` | abstract: what the cap promises a caller | refined by `ConcurrencyCap` |
| `ConcurrencyCap` | the semaphores and the life of a request in `forward` | `ConcurrencyCapProofs` |
| `Dispatch` | what each attempt of a request carries, and where it goes | `DispatchMC`, `DispatchProofs` |
| `CredentialCache` | `cached` and `invalidate_cache` run by threads | `CredentialCacheMC`, `CredentialCacheProofs` |
| `RotationRetry` | a rejected Anthropic credential, end to end | `RotationRetryProofs` |
| `Keepalive` | the keepalive loop over the memo a request reads through | `KeepaliveProofs` |
| `CodexRefresh` | a rejected Codex credential, end to end, with crashes | `CodexRefreshMC`, `CodexRouteProofs` |
| `CacheTracker` | the recency tables and their guards | `CacheTrackerProofs` |
| `CacheTrace` | all of `on_send`: extends `CacheTracker` by the analysis, the keys made from bodies and the table of previous requests | `CacheTraceMC`, `CacheTrackerProofs` |
| `ChatTranslation` | the reply on the translated Codex route, and the request that follows it | `ChatTranslationMC`, `CodexRouteProofs` |
| `BodyRewrite` | pairing, collapse, compression and their memos | `BodyRewriteMC`, `BodyRewriteProofs` |
| `VersionCache` | `VersionCache::get` with overlapping callers | `DispatchProofs` |

The `MC` modules add only what TLC needs: symmetry sets, and the bodies, turns,
paths and conversations an instance is made of.  A definition introduced by
"Slip" in a module is not the code: it is the definition after it with a
plausible mistake, and the mutants of `PROJECT.json` substitute it to see a
property fail.  `CodexRefresh` and `ChatTranslation`, and `Dispatch` and `VersionCache`, are
each proved about in one module, as the two halves of a route; where their names
would clash, those of `ChatTranslation` begin with "Chat" and those of
`VersionCache` with "Memo" (`ChatSpec`, `MemoSpec`).

Each module has one action per step that another thread, request, process or
party can come between.  Code without an await, or under one lock, is one
action.

### ConcurrencyCap, CappedCalls

`pc[r]` is the await `forward` is at.  `free`, `permit`, `ticket` are the tokio
semaphore: FIFO, a released permit is assigned to the first waiter at once
(`Release`), and the waiter sees it when it next runs (`Granted`).
`ArriveFree`/`ArriveBusy` are the first poll of `acquire_owned`;
`QueueTimeout` is the local 429; `ReadBody`, `RejectBody`, `Fail`,
`FirstAnswer`, `FindFresh`, `NoFresh`, `SecondAnswer`, `BodyEnds` the remaining
exits and awaits of `forward`; `LeaveQueue`, `LeaveHolding` the client that
leaves.  `calls[r]` counts open upstream responses: two while the retry is under
way, since the rejected one is dropped only when `upstream_resp` is assigned.
`CappedCalls` says what callers rely on without queue, permits or exit paths:
a request waits or is refused only while its provider is saturated, and a freed
slot goes to a waiter in the same step.

### Dispatch

One request through `forward`, with every moment at which a store is read as an
action: the Codex credential before the body (`ResolveCodex`), the token of the
disguise gate and the version after it (`BodyArrives`), the grant or the stored
token for the retry (`CodexRetries`, `AnthropicRetries`), the expiry after the
rejection (`AnthropicRejects`), the words of the gateway's own 401
(`Explained`).  Between them the owners rewrite the stores (`ClaudeRewrites`,
`CodexRewrites`), the memoised grant ages out, and a read may be refused.  The
keychain is read through its memo: `ReadKeychain` gives what the keychain holds,
or one of the earlier contents in `memo`, but never one from before the last
answer, since `REFRESH` lets one read at a time fill it.  Dropping the memo makes
no difference to that: another request's read under way may fill it again.
`looks` is a history of what the lookups of this request found.
`detect_provider`, `upstream_for`, `target_url`, `resolve` and
`keychain_fallback` are the functions of the same names; `FirstHeaders`,
`CodexRetryHeaders` and `AnthropicRetryHeaders` are the three header loops.  An
attempt is a record of target, headers, token, account, claimed version and
whether the body is translated.  `sent` is the list of attempts.

### CredentialCache

`cached` split where threads interleave: the snapshot (`Start`), `try_lock`
(`TakeRefresh`, `ServeStale`, `Block`), the second look after waiting
(`WakeUp`), the read (`Fetch`), the assignment of `CACHE` (`Store`).
`RefreshAfter` and `UsableFor` are the two deadlines of `credential_freshness`,
clamps included.  A credential is its expiry; `Nothing` is an empty cache and
`NoExpiry` a read without a credential.  `Good` says, without the deadlines, how
long a value is worth keeping, and is what reads are judged by; the history
`late` holds those whom a store overtook between their snapshot and `try_lock`
(`Overtaken`).

### RotationRetry

A request with a stored credential from the disguise gate to its end:
`Attach`, a read of the credential, `Accepted` or `Rejected`
(`claim_rejection_slot`), `Drop` (`invalidate_after_rejection`), the expiry
check, `wait_for_rotation` (`Polled`, `Wake`), the one retry.  The reads are
those of `CredentialCache` with the deadlines, minutes and hours long, reduced
to a memo being fresh until some moment (`Age`).  Both token sources are
modelled, on macOS and off it: the file is read on every call, and off macOS it
is read next whenever the keychain, or the memo of it, yields nothing
(`KeychainFallback`).  Tokens are numbered in the order their owner writes them,
to one store or to both; 0 is a read that yields none.  A logout has no action
of its own: it is a store whose reads yield nothing, which any read may do.

### Keepalive

The loop of `spawn_if_enabled`: `TickFires`, the look before (`Look`), the run of
`claude` (`RunEnds`: it refreshes, fails, or zeroes the expiry), the look after
it through the memo that was invalidated (`Check`), and the back-off.  Beside
it a request reads through the same memo (`RequestFetches`, `RequestStores`,
`RequestInvalidates`) and the owner refreshes, logs in and logs out
(`OwnerRewrites`).  Expiries are kept as the time left to them, so the clock
needs no bound.  `flaky` says that reads and runs may still fail; `Settle` ends
it.

### CodexRefresh

`refreshed_access_token` under its tokio lock (`MemoHit`, `TakeLock`,
`ReadAuth`, `Redeem`, `GiveUp`), `persist_rotation` step by step (`ReRead`,
`Create`, `Write`, `Sync`, `Rename`, `PersistFails` for a failure of any of
them, with `TempFileGuard` as `CleanUp`), and around it Codex CLI, which
refreshes and logs in on the same file, the authority, which honours some
refresh tokens, and `Crash` between any two steps: `ProcessEnds`, or `PowerLoss`,
which takes Codex CLI along and may undo renames.  `older` holds what a power loss
may bring back as `auth.json`, since `Rename` is not followed by a sync of the
directory, until the system writes it back (`Flush`).  A token is the number of
the grant that minted it.

### CacheTracker, CacheTrace

`Send` is `on_send` under the tracker's mutex: look up, evict, insert in both
tables.  `Victims` and `Reordered` are `make_room`, which passes over pending
entries and puts them back at the front.  `Settled` is `settle_entry`.  The
guard's life is `Refused`, `Whole`, `Opened`, `FirstChunk`, `Usage`, `Drop`: the
calls `forward` and `UsageTap` make, in the orders they can make them.

In `CacheTracker` the keys and lifetimes of a send are arbitrary, which is what
the proofs are about.  `CacheTrace` gives it the ones a body really has:
`prefix_fp`, `tools_fp`, `ttl` and `ttl_max` are what `analyze` takes from the
breakpoints of a body; `CappedSeq` is the code's `Seq` with its cap; `seq_diff`
and `diverged_from` compare with the entry of `prev`, whose slots, eviction and
byte budget are `Slot` and `Put`.

### ChatTranslation

Upstream sends a stream (`SendText`, `SendAdded`, `SendArgs`, `SendItem`,
`SendTerminal`), may go on after a terminal event (up to `MaxAfter` events), and
the connection ends anywhere (`Close`).  `Read` is one network chunk of any size,
decoded by itself; the frames completed by it go through `Push`, which is
`SseTranslator::push` arm by arm: only `response.completed` finishes, a failure is
told again however often it comes, and `response.incomplete` ("truncated") is
passed over.  `StreamEnd` and `Reply` are the ends of the two arms of `forward`;
`Aggregated` is `ResponseAggregator` with `responses_to_chat`; `Assembled` is what
any OpenAI client makes of the frames.  `chat_to_responses` translates the
client's next request: one of `Histories`, the message it got (`Continuation`),
and an answer to each call. Deltas are numbers; `split` names those whose
multi-byte character lies across two chunks, and they reach the client as other
texts, the negative numbers.

### BodyRewrite

A client resends its transcript a turn of calls and answers longer.
`CallFor` pairs an answer with its call: by id (`OwnCall`), or in Gemini's
format by name and order (`CallInOrder`).  `Superseded` and `Duplicate` are the
two passes of `compute_stale_reasons`; `VerdictsAfter`, `StubsAfter`, `BlockOf`
are `compress_text` and `stale_stub` over their memos; `EnginesFor` is
`shared_engine`.  A rewrite begins with the engine of its moment (`Begin`) and
ends with it (`Rewrite`), while the transcript grows, the settings are edited
and the gateway restarts.  A write to the archive may fail, and its stub is then
memoised without a hash.  Each write scans the store and may evict anything in
it, of this conversation or another (`Scans`, and the history `evicted`); a
memoised stub replays its hash and writes nothing.  Engines are told apart by the
edit or restart they were `made` after.

### VersionCache

`get` under each strategy: `AskPinned`, `AskHit`, `AskMiss` (which starts a run),
`Reports` (the binary answers or fails), `Stores`.  Where the binary is looked
for is `Places`; `Reinstall` installs, upgrades, breaks or removes one.  An
entry has the age the code knows, counted from its store, and one it does not,
counted from the report.

## 3. Runs

Runs that TLC must pass:

| run | instance | shows |
|---|---|---|
| `ConcurrencyCap` | 3 requests, 2 providers, cap 1 | permits conserved on every path, no idle permit, refinement of `CappedCalls` provider by provider; queue left and requests ended under fairness |
| `DispatchSafety` | 7 kinds of path, 8 combinations of client headers, all sources, tokens numbered to 5, a memo that may be out of date, 2 accounts | credentials stay home, a client's own key is left alone, a retry is the same request, tokens go with their accounts, the gateway's 401 is true |
| `CredentialCacheSafety` | 2 threads, one invalidation, clock to 2 | floor and ceiling on what is served, invalidation seen unless raced, no read of the keychain while what is memoised is good but by those its store overtook, no call blocked for ever |
| `RotationRetrySafety` | 2 requests, two stores with the fallback between them, tokens numbered to 2, wait of 1 poll, cooldown 1 | the retry never carries the rejected token nor an older one of its store, a rotation in time is used, every request ends |
| `KeepaliveSafety` | tick 4, lead 3, back-off 7, lifetime 12, one request beside the loop | an outage shorter than a tick while nothing fails, no run within the back-off of a useless one, repair once faults end |
| `CodexRefreshSafety` | 2 requests, 1 process id, 3 grants, 1 crash of the process or the machine | one grant per burst, the file never torn and current outside the losses `lost` names, temp files in custody, no replay |
| `CacheTrackerSafety` | `CacheTrace` with 3 requests of 8 bodies, 2 entries per table, 1 slot | exact pending counts, readability earned, rollback sound, failures leave no trace, the first difference reported, a sibling in flight seen |
| `ChatTranslationSafety` | 2 calls, 7 events, 1 of them after the first terminal one, chunks of up to 3 half frames, 2 conversations | how a stream ends, streaming agrees with the aggregate but for cut characters, history survives in order |
| `BodyRewriteSafety` | 3 calls on 2 files, one format with ids and one without, 1 change, a store that evicts | stubs are true and their hashes those of archived texts, memos belong to their engine, prefix stable |
| `VersionCacheSafety` | 2 callers, 2 versions, 2 places, TTL 2, runs up to 2 | answers are recent, an upgrade is served in the end |

Runs that TLC must find violated are in section 6.

What the properties that are easily misread say:

- `TokenMatchesAccount` holds as long as the user has not gone over to another
  ChatGPT account since the token or the memoised grant was read (`settled`).
  Otherwise it does not: see section 6.
- `ExplanationIsTrue` holds the reason and the store named against what the
  request found when it looked: if every look found the same, out of date or
  not, the 401 names the place the token came from and says "expired" exactly if
  it was.  Looks that differ leave the code nothing to be right about: see
  section 6.  That a newer token was tried is checked always.
- `NoReadWhileGood` is about the time in which the memoised value is good.  Who
  found the value before it stale and has not tried `REFRESH` yet when the new one
  is stored may read once more, and nobody else.
- `RetryMovesForward` compares ages within one store only: the code does not
  compare them between stores, and off macOS a refused read of the keychain leads
  to the file, whatever its age.
- `AuthFileCurrent` excepts the losses that no order of steps can avoid, and
  `lost` names them: a crash or a lost answer between the grant and the rename, a
  power loss that brings back the file from before a rotation.
- `EndsOnce`: `[DONE]` comes last and behind a terminal chunk; a normal end is told
  once and never after a failure; and there is exactly one terminal chunk if
  upstream says nothing after its final event.  If it does, the code tells it:
  see section 6.
- `StreamingAgrees`: the two messages are the same but for just those deltas a
  chunk boundary cut (`Garbled`); that these differ is section 6.
  `HistorySurvives` brings back what the client read, cut characters included,
  and compares the order of everything said.
- `StubsAreTrue` has two parts: a stub that says "identical" has a copy below it
  that is no stub, whole or compressed, and one that says "a later read or edit" is
  followed by a read of the same view or by another tool whose input names the
  file, which need not be an edit: see section 6.  For Gemini's format it
  presumes, as the code does, that calls of one name are answered in their order.
- `StubsRetrievable`: a hash that left is that of the very text its stub replaced,
  and the text was archived.  If the store does not have it, the store evicted it;
  that it may have, before the stub leaves, is section 6.
- `PrefixStable` compares blocks with their hashes.  A block may change only for a
  result the longer body adds: a new touch of its file, a new copy, or a touch
  that supersedes its copies, for which a duplicate comes back whole.  Another
  engine may find a hash where the first could not write, or the other way round.
- `OutageBounded` holds while nothing has failed (`clean`): the loop cannot
  promise anything about a `claude` that does not work.
- `SiblingInFlightSeen`: if the reported divergence is only behind the cached
  prefix and the previous request is still in flight, the line's recency says so
  (or the table had no room).

### Bounds, and why they are enough

- `ConcurrencyCap`: cap 1 and three requests give a holder and two waiters of
  one provider, the smallest case in which FIFO order, hand-over and cancelled
  waits interact; two providers, the smallest in which one could disturb the
  other.  The proofs cover the rest.
- `Dispatch`: one request, since what requests share is in the other modules and
  the stores change here at any moment as they would under another request. Tokens
  to 5 are one in the memo, one in the keychain, one in the file, and two issued
  on the way; two accounts let a login change the account.  Settings a request's
  provider does not look at are fixed in `MCInit`.
- `CredentialCache`: `Ttl` 1, `Margin` 1, `MaxTtl` 2 and lifetimes 2 and 4, read
  at any moment of a clock that runs to 2, give remaining times of none, below
  the floor, between refresh and expiry (so that a stale value is served) and
  above the ceiling.  Two threads make every race of snapshot, lock and store;
  the proofs cover more, and any `MaxTime` and `MaxEpoch`.
- `RotationRetry`: a wait of one poll has a first look, a sleep and a look at
  the deadline; a cooldown of one tick lets the second request fall inside or
  behind it; with tokens to 2, a store begins with none, an old one or a new one,
  and the owner rotates once during the exchange or before.  The proofs have no such bounds.
- `Keepalive`: the times keep the order of the real ones (a run shorter than a
  tick, the lead longer than a run and shorter than a lifetime, the back-off
  longer than a tick and no multiple of it, the memo's ceiling longer than a
  lifetime); `TimesAssumption` and `RoomAssumption` name what the properties
  need.  There is no bound on time.
- `CodexRefresh`: two requests wait for one another; three grants allow a
  refresh by the gateway, one by Codex CLI and a login; with one process id the
  process after a crash meets the leftovers of its predecessor under its own
  names.
- `CacheTracker`, `CacheTrace`: two places force eviction; three requests let
  two overlap on one key while a third evicts.  The eight bodies differ in each
  section, inside a breakpoint and behind it, past each cap, over the byte
  budget, in a setting, in the client and in the TTLs.
- `ChatTranslation`: two calls interleave; seven events are two announced calls
  with arguments, their items and a terminal; one event after a terminal one is a
  second terminal or a late delta; a chunk of three half frames ends
  and begins inside frames; one wide character is enough to be cut; the second
  conversation has every kind of turn and part.
- `BodyRewrite`: three calls are a read, what supersedes it, and a copy of
  either, or two parallel reads and a third; one edit of the settings or one
  restart; any write may evict any of the texts.  One rewrite is under way at a
  time, while settings and transcript change between its beginning and its end;
  the proofs are about any number of them.
- `VersionCache`: two callers are two overlapping runs, one overtaking the
  other; two places are one that shadows the other.

Every bound is a CONSTANT or is named in a module's header.  `CHECK_DEADLOCK
FALSE` stands where the system may stop, all its requests having ended:
`ConcurrencyCap`, `Dispatch`, `CacheTracker`, `ChatTranslation`.

### Fairness

Liveness is claimed only for what the code's own scheduling gives.

- `ConcurrencyCap`: `TimerFairness` is the gateway's own timers (queue timeout,
  rotation wait, `UPSTREAM_TIMEOUT`) and tokio running a woken task.
  `QueueIsLeft` needs nothing else.  `EveryRequestEnds` also needs clients that
  finish sending and reading or hang up; that is an antecedent of the property
  (`ClientFairness`), as nothing in the gateway makes them.
- `CredentialCache`: threads run and the keychain answers.  Winning `REFRESH` is
  weakly fair for each thread, although `std::sync::Mutex` promises no fairness
  to a thread that waits while others keep taking the lock.  The property does
  not hinge on it more than the code does: only a miss takes the lock, and
  misses end when clock and invalidations are used up.
- `RotationRetry`: time passes, reads return, upstream answers or times out.
  Nothing makes a request arrive, a client leave or the owner write.
- `Keepalive`: the task is polled, its child ends or is killed, its reads
  return, and time passes.  Strong fairness of `Look`, `Check` and `Elapse`: a
  request holding `REFRESH` disables the loop's read for the length of its own,
  again and again perhaps, and never for good; nor do requests act infinitely
  often in no time.  Nothing ends the faults: `~flaky` is an antecedent.
- `VersionCache`: a run of `claude --version` ends and time passes.  The first is
  an assumption about the binary: the code has no time limit there.

## 4. Proofs

TLC checks the instances above; the following hold for every value of the
constants that satisfies the named assumptions, which only say what kind of
thing each constant is, how the times are ordered, and that requests, keys and
threads differ from the model values standing for none.  Three of them say more
about what comes in: `HistoryAssumption`, that the turns of a conversation are
well-formed and a client's tool messages answer calls of an earlier assistant
turn, as the API asks of it; `TurnAssumption`, that a turn of a transcript contains
the calls its results answer; `FpAssumption`, that different contents have
different fingerprints.

| module | inductive invariant | theorems |
|---|---|---|
| `ConcurrencyCapProofs` | `TypeOK /\ PermitCoversCalls /\ PermitsAccounted /\ NoIdlePermit` | `TypeCorrect`, `NoPermitLost`, `NoLostWakeup`, `CapRespected`, `ImplementsCappedCalls` |
| `DispatchProofs` | `StoresHold /\ Chosen /\ Sends /\ Stage /\ Answerable`, with `OneAccount` for the accounts and `Ordered /\ Looked /\ Newer /\ Steps /\ Told` for the 401 | `StoredCredentialsStayHome`, `ClientKeysStayUntouched`, `RetriesAreTheSameRequest`, `TokensMatchTheirAccounts`, `ExplanationsAreTrue` |
| `CredentialCacheProofs` | `Typed /\ OneReaderAtATime /\ Memory /\ Served /\ EpochsHold /\ Quiet` | `TypeCorrect`, `SingleFlight`, `NoDeadCredentialServed`, `InvalidationSeen`, `GoodValueNotReread` |
| `RotationRetryProofs` | `TypeOK /\ Reading /\ FileUncached /\ Stage /\ Published /\ Order /\ Late` and the two properties | `TypeCorrect`, `RetriesMoveForward`, `RotationsInTimeAreUsed` |
| `KeepaliveProofs` | `TypeOK /\ Timed /\ Woken /\ Remembered`, with `BackedOff` for the back-off and `OldMarkers /\ ShortLived /\ LifeLeft` for the outage | `TypeCorrect`, `OutageIsBounded`, `RunBacksOff` |
| `CodexRouteProofs`, the credential | `TypeOK /\ Custody /\ Counted /\ Tokens /\ OlderNumbered` | `TypeCorrect`, `OneGrant`, `FileCurrent`, `TempCustody`, `NoReplay`, `ForeignTempsKept` |
| `CodexRouteProofs`, the answer | `ChatInv == WireInv /\ SplitInv /\ ReadInv`, with `ReplyInv` for a client that does not stream | `ChatInvariant`, `OneTerminalChunk`, `SameMessage`, `HistoryKept` |
| `CacheTrackerProofs`, the tables | `TypeOK /\ Lifecycle /\ Numbered /\ PendingExact /\ History /\ ReadableOnlyIfBegun`, with `NoTrace` for the failures | `TypeCorrect`, `PendingIsExact`, `ReadableIsEarned`, `RollbackSafe`, `FailuresAreForgotten` |
| `CacheTrackerProofs`, the trace | `TraceInv == Traced /\ TableHolds /\ FirstDifferenceReported` | `TraceRefines`, `TraceInvariant`, `FirstDifferenceTold`, `SiblingSeen` |
| `BodyRewriteProofs` | `BodyInv == TypeOK /\ IsBody(transcript) /\ JobsHold /\ MemosHold /\ EnginesApart /\ SentHolds /\ MakerHolds` | `TypeCorrect`, `StubsTellTheTruth`, `StubsBringBack`, `OwnSettingsJudge`, `PrefixSurvives` |
| `DispatchProofs`, the version | `MemoTypeOK /\ EntriesKnowTheirAge /\ RunsKnowTheirAge /\ VersionIsRecent` | `MemoTypeCorrect`, `RecentVersionServed` |

The arguments.

- *Cap.*  Permits are conserved because each action that frees one gives it to
  the first waiter or to the counter, and each that ends a request frees exactly
  the one it has: `PermitCoversCalls` ties the permit to the request's place and
  is what makes `Release` legal at every exit.  The cap follows by counting: the
  requests with calls open are a subset of the permit holders.  Refinement needs
  `NoIdlePermit`: a request may only wait when nothing is free, so that its wait
  is the abstract specification's wait under saturation.
- *Dispatch.*  Where an attempt goes depends on the path and the kind of the
  Codex credential, both fixed before anything is sent; `Chosen` says that a
  request has a credential for Codex or one for the disguise, never both, and
  only if its client brought none.  `Sends` describes both attempts by what was
  chosen: the second is the first but for its token, whose kind may follow it
  there.  What the stores hold by the time of the retry is bounded by kind only
  (`StoresHold`), since they may have been rewritten any number of times.  Until
  the user goes over to another account (`settled`), `auth.json` and the memo
  both belong to the account the request began with, so whichever of them the
  retry's token comes from, the account it names is the token's (`OneAccount`).
  The text of a 401 rests on looks at four moments.  If all of them found the
  same, there is one credential to speak of, the one that was rejected, and what
  is said of its age and its place is said of it (`Looked`).  What the memo may
  still give lies in the order it was written, and nothing of it is older than
  the token the request chose (`Ordered`), so a different token of the same store
  is a newer one (`Newer`).
- *Credential cache.*  `Memory` says of every entry in `CACHE` or in a snapshot
  that its two deadlines are within ceiling and expiry of the time it was
  stored; a served value is such an entry within its deadline.  `EpochsHold`
  says that, as long as no invalidation came between a read and its store, what
  is memoised was read in the current epoch and what a snapshot holds in the
  epoch its call began in or later.  An entry is fresh exactly while it is good
  (`Lasting`), so whoever looks then is served; a caller can only be on its way to
  a read if it looked before, and those are the ones `late` holds (`Quiet`).
- *Rotation.*  The code compares tokens for difference, not for age, so it could
  return to an old one.  `Order` is why it does not, as long as both tokens come
  from the keychain: `REFRESH` lets one read at a time reach it, so a snapshot is
  no older than its request's token, the memo no older than either, and what is
  about to be stored no older than all three, for all pairs of requests.  The file
  is not memoised, and its owner only ever writes newer tokens there
  (`Published`).  Between the two stores nothing is claimed.  `Late` says that a
  poll that begins after a rotation can find the old token in none of these
  places.
- *Keepalive.*  No owner moves an expiry backwards, so what is memoised or on its
  way to the memo is no later than what the store holds (`Remembered`); hence
  the look after a run cannot take an old value for a changed one and skip the
  back-off.  For the outage, `LifeLeft` says per place of
  the loop how much life a dated credential still has; it holds by
  `RoomAssumption`: a run fits in the lead, and a fresh credential outlives the
  back-off and what was read before it.
- *Codex.*  The lock gives the refresh one owner (`Custody`).  A refresh token
  granted and not yet written is known to one place only (`GatewayPair`,
  `CliPair`), so nobody else can have it retired, and the file holds an honoured
  token whenever no such pair is on its way (`Honoured`, `Unspent`).  What a power
  loss may bring back is never newer than what was granted (`OlderNumbered`) and
  never torn, since only synced data is renamed (`Custody`).
- *Tracker.*  `PendingExact` alone is not inductive: that a key with a pending
  guard is never evicted needs `Lifecycle` (a guard that holds a key has not
  settled exactly until its outcome is set), and rollback needs `Numbered` and
  `History` (sequence numbers are distinct and the two sends an entry remembers
  are at least as recent as every unfailed one).  A key whose sends never
  overlapped has at most one send out, so its entry tells the whole story: what
  a rollback restores began, and an entry not yet readable is removed with the
  send that made it (`NoTrace`).
- *Trace.*  Every step of `TraceSpec` is one of `Spec` or a stutter
  (`TraceRefines`), so that all of the above holds of bodies.  The line compares
  with what the table holds, so its truth is the table's: each slot is that of
  the last request of its key, the slots lie in the order these were sent, and
  for a key that is gone `PREV_SLOTS` others were used since (`TableHolds`); `Put` evicts the
  slot at the front, which this order makes the one used longest ago.  What is compared is
  capped hashes and kept bytes; `SeqDiff` and `FirstDiff` say that a first
  difference found in these is the first of the sections themselves, or lies
  past what was kept.  A request in flight still has its entries pending in the
  tables it got into, which is why the recency of its sibling's line cannot say
  that nothing was there (`SiblingSeen`).
- *Translation.*  `Streamed` relates the events read so far to the translator and
  to the frames it made of them: an index for each announced call, under it the
  text that the argument deltas of that call add up to, a terminal chunk exactly
  if a final event was read, no normal one but the first (`Ended`).  `PushStep` is
  its preservation by one event, for each arm; a chunk keeps it, by the least number
  of events after which it would fail.  A delta whose character a chunk boundary
  cut is read as an event with another text (`Got`), so that what is said of all
  events is said of those the network made of them.  Upstream says in its items
  what it said in its deltas (`Ordered`, `Itemised`), so the streamed message is
  that of the items but for the deltas that were cut, and the items are what
  `ResponseAggregator` collects.  On the way back `InputOf` says that
  `chat_to_responses` makes its input turn by turn, hence what a continuation
  adds comes behind what was there (`TurnsAppended`), a message that repeats
  the items (`Gives`) gives them back, and joining what the input items say turn by
  turn gives what the turns say, in order (`SaidInOrder`).
- *Rewrite.*  `StubsAreTrue` and `PrefixStable` speak of memos filled in any order
  by any number of rewrites, of engines of different settings, some of whose
  writes failed.  But the form in which a result leaves is a function of the
  conversation and the settings alone (`FormOf`); the invariant says that the
  memos hold nothing that differs from it (`MemosHold`) and that what left
  follows it (`SentHolds`).  A hash in a memo is that of a text that was archived,
  whatever the store has dropped since (`Archived`).  That a block keeps its hash
  rests on engines being told apart by the edit or restart they were made after
  (`EnginesApart`): the one that made the last body still has every stub it used
  (`MakerHolds`), and another may differ only where a write failed.  The rest is
  about conversations: the last copy of a text is its own maximum and is no
  stub, a change of form in a longer conversation has a result to answer for it
  (`FormChanges`), and where calls of one name are answered in their order, the
  n-th answer is that of the n-th call (`InOrderIsMeant`), by counting both.
- *Version.*  An entry's report is older than its stamp by at most one run, and
  an outcome no older than its run.

Every safety property the runs check is thus proved, invariants and action
properties both.  Folds and recursive functions are reasoned about through their
prefixes: a claim about all of them is brought to a contradiction at the least
prefix for which it fails (`Least`), which needs no
induction theorem to be instantiated.

Only model-checked is all liveness: `QueueIsLeft`, both `EveryRequestEnds`,
`EveryCallReturns`, `ExpiryIsRepaired`, `UpgradeIsServed`.  Fairness and ENABLED
are out of the prover's reach.

## 5. What is not modelled

- *Cap:* the configuration without one (`concurrency: None`), which shares no
  state between requests.
- *Request handler:* the health endpoint, which reads two stores and changes
  nothing but the memo, as any other read; the debug lines.  The headers and the
  billing prefix of the disguise are taken as the hooks of a full build give them;
  this repository has stubs (`build.rs`).
- *Credentials:* `Instant` and wall clock as two clocks; panics and poisoned
  locks; blocking reads that occupy a worker of the runtime; the text of a blob.
- *Keepalive:* a read takes no time unless it is a request's; a restart of the
  gateway, which starts the loop afresh.
- *Tracker:* collisions of key hashes (FNV-1a is taken to have none), the size of
  the tap's buffers, the byte counts and the layout string of the line.  All
  sends of `CacheTrace` fall in one instant: what two sends of a key differ in is
  the TTL they ask for.
- *Codex:* the removal of a temp file is taken to succeed when attempted; Codex CLI
  dies only together with the machine.
- *Translation:* request parameters and tool declarations, which are copied,
  dropped or refused one by one (the refusal is a 400 in `Dispatch`); argument
  deltas for an unknown item and frames that are not JSON.
- *Rewrite:* where each wire format keeps the text of a result, results of mixed
  content, the tallies of tokens saved, two rewrites that alternate memo
  accesses, what the compressor does to a text.  What an LRU memo forgets is
  rebuilt, which a restart stands for: the hash of a stub may come or go with it, as
  between two engines.  Answers of Gemini's format that come out of order are
  modelled, but no property says what becomes of them: see section 6.
- *Not at all:* the service installer and the command line, which write files
  once or turn text into settings; what the parsers admit as token sources is the
  set of initial states of `Dispatch`.

## 6. Where code and statements disagree

Two runs show that the code does otherwise than a comment or a design document
says; `findings` in `PROJECT.json` quotes both.

| run | what happens |
|---|---|
| `ChatTranslationFailure` | a transport error in mid-stream is presented as a normal end, with finish reason "stop" or "tool_calls" |
| `BodyRewriteCurrentView` | a later tool that only names a file, or prints the same text, turns the current read of that file into a stub |

Met while modelling, without a run of their own:

- `src/keychain.rs:432`: a thread that read the keychain before an invalidation
  assigns `CACHE` after it; the rejected credential is memoised again, and calls
  that start later are served it, although "A 401 still forces a fresh read via
  [`invalidate_cache`], so a revoked-before-expiry token is not cached past its
  usefulness" (lines 19-21).  `InvalidationForcesReadUnlessRaced` names this as
  the only way.
- `src/keychain.rs:99`: "a rotation still triggers one keychain dialog rather
  than one per request"; a thread between its snapshot and `try_lock` (397, 431)
  reads again although the value was just stored, so that two requests may cost
  two dialogs.  `NoReadWhileGood` shows that this is the only way.
- `src/keychain.rs:186`: "Servable until the real expiry — never past it"; the
  floor of `CACHE_TTL` keeps it up to 60 s longer (`ServedWithinLimits`).
- `src/keychain.rs:393`: the memo's age is an `Instant`, which on some platforms
  stands still while the machine sleeps; the expiry it was derived from does not.
- `src/keychain.rs:410`: the lock is a blocking mutex taken on an async worker;
  enough requests that wait for one dialog park every worker.
- `src/keychain.rs:436`: "At most one 401-triggered invalidation per window";
  `wait_for_rotation` invalidates at every 50 ms poll without claiming the slot
  (`src/anthropic_retry.rs:26`), up to ten reads per rejected request.
- `src/lib.rs:1750` and the comments around 1176: the gateway's 401 says that
  the credential store still holds the same token also when the store has been
  emptied or cannot be read; and off macOS the "newer" token may be the older
  one of the file, when the keychain refuses a read: the code does not compare
  ages, and `RetryMovesForward` orders the tokens of one store only.
- `src/lib.rs:1774-1781`, 1842: a token served from the memo after the user has
  logged out is rejected, and the 401 drops the memo; off macOS, the read for the
  explanation then finds no item, and the answer names the file and may say
  "expired" of one that was not: "it is a cache hit, not a second live round trip"
  does not hold then.  `ExplanationIsTrue` answers for
  explanations whose looks found the same.
- `src/codex.rs:417`: the data is synced and the rename is not: after a power loss
  the file from before the rotation may be back, with a refresh token that was
  retired, although the sync is there for "durability" (410).  `lost`
  names the case.
- `src/codex.rs:234`: "refreshing when the stored one was rejected"; the memoised
  token is returned for `CACHE_TTL` without comparing it to the rejected one
  (252), so that the retry may resend it.  The Anthropic arm compares.
- `src/lib.rs`, the Codex retry: it names the account of the first attempt beside
  the token the file or the memo holds now; after a login to another account the
  two do not belong together.
- `src/codex.rs:371`: a grant without a refresh token keeps the one in the file,
  and that of the second read, which Codex CLI may just have retired.
- `MUR_MODEL_GATEWAY_TOKEN_SOURCE=codex` makes `auth.json` the source of the
  disguise path: a ChatGPT token goes to Anthropic, where it can only be
  rejected.  `CredentialsStayHome` has to except it.
- `src/oauth_keepalive.rs:13`: "a spawn that did not move the expiry backs off";
  not if the read after it yields nothing.  Line 22 calls `TICK` "the worst-case
  outage", which holds as long as nothing fails.
- `src/cc_version.rs`: `claude --version` runs without a time limit; a binary
  that hangs holds every request that finds the memo expired.
- `src/cache_trace.rs:1058`: "No start observed: releases the pending count
  only"; `abandon` also rolls the entry back (1059, 900), as a failure does.
- The design of the cap takes concurrent calls for concurrent connections; the
  retry is sent while the rejected response is still open, under one permit, so
  that a provider may see twice `Cap` connections for a moment.
- `src/lib.rs:1306`: each network chunk is decoded with `from_utf8_lossy` by
  itself; a character across two chunks reaches the client as replacement
  characters, in text and in tool arguments
  (`docs/superpowers/specs/2026-08-11-codex-chat-translation-design.md:144` gives
  the delta itself as the chunk's content).  `StreamingAgrees` shows that the two
  clients' messages differ in just those deltas, and `HistorySurvives` that they go
  back upstream as the client read them.
- `src/translate.rs:455-467`: the arm for failures does not look at `finished`: a
  failure after a completed response, or a second one, is a second terminal chunk,
  and deltas after a terminal event are forwarded, though the design says "an
  OpenAI-shaped error frame, then close"
  (`docs/superpowers/specs/2026-08-11-codex-chat-translation-design.md:148`).
- `src/translate.rs:454`, 468, 478: `response.incomplete` is passed over by the
  streaming arm, so that a reply cut off by the token limit ends with "stop" or
  "tool_calls" at the end of the stream; the aggregated one says "length".
- A system or developer message in the middle of a chat moves to the front, into
  `instructions`, whose order among the turns is lost; images in a tool's or an
  assistant's turn are dropped.
- `src/compress.rs:320`, 355: a result collapsed as a duplicate returns in full
  when its later copy is superseded, and the cached prefix ends there
  (line 320 says that "a collapse decision can only flip forward in time",
  `docs/plans/compress-roadmap.md:27` that it flips once and is frozen for good after
  that).  `PrefixStable` names this as the one way back.
- `src/compress.rs:239`, 24-28: a memoised stub replays its hash without archiving
  again, while every write to the store scans it and evicts: a stub may leave with a
  hash that brings nothing back, although it "stays recoverable via
  `mur_retrieve` whenever the store write succeeds" (219-221).
- `src/compress.rs:144-147`, 247: "a later read or edit" may be any tool but a read
  that names the file, and the copy that an identical result points at may have been
  shortened by the compressor, when the tool it came from is not exempt.
- `src/compress.rs:558`, 590: the order of answers is taken to be that of the
  calls; parallel calls of one name answered in another order get each other's
  file, and in Gemini's format the result of a shell `mur retrieve` is compressed
  again, the exemption there being by tool name only (945).
- `src/compress.rs:288`: `file_path_of` does not know `notebook_path`, though the
  list of tools at 145 names NotebookEdit: its edits supersede nothing.

## 7. Plan

Done: every component that keeps state between steps, and proofs of all safety
properties of section 3.  What is left:

1. Composition: `ConcurrencyCap` assumes that a 401 is looked into for a bounded
   time; state that once over `RotationRetry` and `CodexRefresh`.
2. The parts of `ChatTranslation` named in section 5 that could reach a client:
   argument deltas for an unknown item, and their place in the argument above.
