------------------------------ MODULE Keepalive ------------------------------
(***************************************************************************)
(* The OAuth keepalive (src/oauth_keepalive.rs): a loop that looks at the  *)
(* expiry of the stored credential every TICK and runs `claude` when it is *)
(* due, together with the memoised keychain read it looks through          *)
(* (src/keychain.rs) and a request that reads through the same memo.       *)
(*                                                                         *)
(* An expiry is kept as the time left to it, so that it runs down with the *)
(* timers and the states stay finite with no bound on time.  A read of the *)
(* store takes no time here, except a request's, which lasts up to         *)
(* FetchTime and may be overtaken by a rotation or an invalidation.        *)
(*                                                                         *)
(* A definition introduced by "Slip" is not the code: it is the definition *)
(* after it with a plausible mistake, kept to see the properties fail.     *)
(***************************************************************************)
EXTENDS Integers

CONSTANTS
  Tick,          \* TICK: time between two looks
  Lead,          \* LEAD: refresh this long before the expiry
  Backoff,       \* FAILURE_BACKOFF
  SpawnTimeout,  \* SPAWN_TIMEOUT
  Ttl,           \* CACHE_TTL: the floor of a memoised read
  MaxTtl,        \* MAX_CACHE_TTL: its ceiling
  Margin,        \* EXPIRY_MARGIN
  FetchTime,     \* SECURITY_TIMEOUT: the longest read of the keychain
  Lifetime,      \* time a fresh credential has to its expiry
  MaxOutage,     \* bound: an expiry further in the past counts as this far
  Unknown,       \* no entry, no expiresAt, or a failed read: stored_expiry's None
  Zeroed,        \* expiresAt set to 0 by Claude Code, whose own refresh failed
  Nothing        \* no memoised read, no read under way

ASSUME TimesAssumption ==
  /\ {Tick, Lead, Backoff, SpawnTimeout, Ttl, MaxTtl, Margin, FetchTime, Lifetime, MaxOutage} \subseteq Nat
  /\ SpawnTimeout < Tick
  /\ Ttl <= MaxTtl
  /\ Lead < Lifetime

\* LEAD leaves time for a run, and a refreshed credential outlives the back-off
\* and any read made before it was refreshed.
ASSUME RoomAssumption ==
  /\ SpawnTimeout <= Lead
  /\ Lead + Backoff <= Lifetime
  /\ Lead + Ttl + FetchTime <= Lifetime

VARIABLES
  source,    \* the token source: "keychain" or "file"
  stored,    \* time left to the expiry in the owner's store
  memo,      \* CACHE: expiry, time it stays fresh, time it stays usable
  request,   \* a request's read of the keychain, fetched but not yet stored
  pc,        \* where the keepalive loop is
  nextTick,  \* time to the interval's next tick
  backoff,   \* time to backoff_until_ms
  running,   \* time `claude` may still run
  flaky,     \* reads and runs may still fail
  age,       \* history: time since the store was rewritten, up to Ttl + FetchTime + 1
  clean,     \* history: no read and no run failed since the last refresh
  idle       \* history: time since a run left a due credential as it was, up to
             \* Backoff, which also stands for no such run

world == <<source, stored, flaky>>
loop == <<pc, nextTick, backoff, running>>
history == <<age, clean, idle>>
vars == <<world, memo, request, loop, history>>

Times == -MaxOutage .. Lifetime
Expiries == Times \cup {Unknown, Zeroed}

ASSUME MarkersAssumption ==
  /\ Unknown \notin Times /\ Zeroed \notin Times /\ Unknown # Zeroed

Memos == [exp : Expiries, fresh : 0 .. MaxTtl, usable : 0 .. MaxTtl]
Fetches == [exp : Expiries, left : 0 .. FetchTime]

ASSUME NothingAssumption == Nothing \notin Memos \cup Fetches

TypeOK ==
  /\ source \in {"keychain", "file"}
  /\ stored \in Expiries
  /\ memo \in Memos \cup {Nothing}
  /\ request \in Fetches \cup {Nothing}
  /\ pc \in {"waiting", "looking", "running", "checking"}
  /\ nextTick \in 0 .. Tick
  /\ backoff \in 0 .. Backoff
  /\ running \in 0 .. SpawnTimeout
  /\ flaky \in BOOLEAN
  /\ age \in 0 .. Ttl + FetchTime + 1
  /\ clean \in BOOLEAN
  /\ idle \in 0 .. Backoff

\* spawn_if_enabled: no backoff, and the interval's first tick comes at once.
Init ==
  /\ source \in {"keychain", "file"}
  /\ stored \in {Lifetime, 0, Unknown, Zeroed}
  /\ memo = Nothing
  /\ request = Nothing
  /\ pc = "waiting"
  /\ nextTick = 0
  /\ backoff = 0
  /\ running = 0
  /\ flaky \in BOOLEAN
  /\ age = 0
  /\ clean = (stored = Lifetime)
  /\ idle = Backoff

-----------------------------------------------------------------------------
(* Expiries and the memoised read. *)

Larger(a, b) == IF a > b THEN a ELSE b
Smaller(a, b) == IF a < b THEN a ELSE b

Dated(e) == e \notin {Unknown, Zeroed}

\* Slip: only a credential that has expired is due.
DueWhenExpired(e) == e = Zeroed \/ (Dated(e) /\ e <= 0)

\* refresh_due: an unknown expiry never is, the zero always is.
Due(e) == e = Zeroed \/ (Dated(e) /\ e <= Lead)

\* needs_relogin.
NeedsRelogin(e) == e = Zeroed

Remaining(e) == IF Dated(e) THEN Larger(e, 0) ELSE 0

\* credential_freshness, the same for an unknown expiry as for one passed.
RefreshAfter(e) == Smaller(Larger(Remaining(e) - Margin, Ttl), MaxTtl)

EntryOf(e) ==
  [exp |-> e, fresh |-> RefreshAfter(e),
   usable |-> Larger(Smaller(Remaining(e), MaxTtl), RefreshAfter(e))]

\* What a read of the store returns: a read that fails has no expiry.
Reading == {stored} \cup (IF flaky THEN {Unknown} ELSE {})

Fresh == memo # Nothing /\ memo.fresh > 0
Usable == memo # Nothing /\ memo.usable > 0

\* stored_expiry returns e.  Through `cached`: a fresh memo; or a usable one
\* while a request reads the keychain; or the store, memoised.  With neither it
\* waits for the request.  A credentials file is read each time.
StoredExpiry(e) ==
  IF source = "file" THEN e \in Reading /\ UNCHANGED memo
  ELSE \/ Fresh /\ e = memo.exp /\ UNCHANGED memo
       \/ ~Fresh /\ request # Nothing /\ Usable /\ e = memo.exp /\ UNCHANGED memo
       \/ ~Fresh /\ request = Nothing /\ e \in Reading /\ memo' = EntryOf(e)

\* History: a read that failed spoils the promise until the next refresh.
Spoilt(e) == e = Unknown /\ stored # Unknown

-----------------------------------------------------------------------------
(* The loop of spawn_if_enabled. *)

\* interval.tick(): the next tick is one TICK after this one was due.
TickFires ==
  /\ pc = "waiting" /\ nextTick = 0
  /\ pc' = "looking"
  /\ nextTick' = Tick
  /\ UNCHANGED <<world, memo, request, backoff, running, history>>

\* Slip: a look the back-off skips starts the back-off again.
LookRestartsBackoff ==
  /\ pc = "looking"
  /\ \E before \in Expiries :
       /\ StoredExpiry(before)
       /\ IF ~NeedsRelogin(before) /\ backoff = 0 /\ Due(before)
          THEN pc' = "running" /\ running' = SpawnTimeout
          ELSE pc' = "waiting" /\ UNCHANGED running
       /\ backoff' = IF backoff > 0 THEN Backoff ELSE 0
       /\ clean' = (clean /\ ~Spoilt(before))
  /\ UNCHANGED <<world, request, nextTick, age, idle>>

\* The stored expiry decides: a login is needed, nothing is due, the last run
\* failed too recently, or `claude` is run.
Look ==
  /\ pc = "looking"
  /\ \E before \in Expiries :
       /\ StoredExpiry(before)
       /\ IF ~NeedsRelogin(before) /\ backoff = 0 /\ Due(before)
          THEN pc' = "running" /\ running' = SpawnTimeout
          ELSE pc' = "waiting" /\ UNCHANGED running
       /\ clean' = (clean /\ ~Spoilt(before))
  /\ UNCHANGED <<world, request, nextTick, backoff, age, idle>>

\* run_claude returns: Claude Code refreshed the credential, or could not and
\* zeroed its expiry, or left it alone (it failed, was killed, saw no need).
\* invalidate_cache follows at once.  Without an entry there is no refresh.
RunEnds ==
  /\ pc = "running"
  /\ pc' = "checking"
  /\ running' = 0
  /\ memo' = Nothing
  /\ \/ /\ Dated(stored)
        /\ stored' = Lifetime
        /\ age' = 0 /\ clean' = TRUE /\ idle' = Backoff
     \/ /\ flaky /\ Dated(stored)
        /\ stored' = Zeroed
        /\ age' = 0 /\ clean' = FALSE /\ idle' = Backoff
     \/ /\ flaky \/ ~Dated(stored)
        /\ clean' = FALSE
        /\ idle' = IF Dated(stored) /\ Due(stored) THEN 0 ELSE idle
        /\ UNCHANGED <<stored, age>>
  /\ UNCHANGED <<source, flaky, request, nextTick, backoff>>

\* Slip: a run that changed nothing does not set backoff_until_ms.
CheckWithoutBackoff ==
  /\ pc = "checking"
  /\ \E after \in Expiries :
       /\ StoredExpiry(after)
       /\ idle' = IF after = Unknown THEN Backoff ELSE idle
       /\ clean' = (clean /\ ~Spoilt(after))
  /\ pc' = "waiting"
  /\ UNCHANGED <<world, request, nextTick, backoff, running, age>>

\* The expiry is read again.  `before` was due when `claude` was run, so that an
\* `after` not due differs from it; an unknown one counts as refreshed, and the
\* history follows it there.
Check ==
  /\ pc = "checking"
  /\ \E after \in Expiries :
       /\ StoredExpiry(after)
       /\ backoff' = IF Due(after) THEN Backoff ELSE backoff
       /\ idle' = IF after = Unknown THEN Backoff ELSE idle
       /\ clean' = (clean /\ ~Spoilt(after))
  /\ pc' = "waiting"
  /\ UNCHANGED <<world, request, nextTick, running, age>>

-----------------------------------------------------------------------------
(* The request that shares the memo, the owner, and time. *)

\* `cached`, for a request: not fresh, REFRESH taken, the keychain answers.
RequestFetches ==
  /\ source = "keychain" /\ request = Nothing /\ ~Fresh
  /\ \E e \in Reading :
       /\ request' = [exp |-> e, left |-> FetchTime]
       /\ clean' = (clean /\ ~Spoilt(e))
  /\ UNCHANGED <<world, memo, loop, age, idle>>

\* ... and what it answered is stored, whatever has happened since.
RequestStores ==
  /\ request # Nothing
  /\ memo' = EntryOf(request.exp)
  /\ request' = Nothing
  /\ UNCHANGED <<world, loop, history>>

\* A 401 drops the memo (invalidate_cache).
RequestInvalidates ==
  /\ memo # Nothing
  /\ memo' = Nothing
  /\ UNCHANGED <<world, request, loop, history>>

\* The owner refreshes the credential, logs in, logs out, or fails to refresh.
OwnerRewrites ==
  /\ \/ stored' = Lifetime /\ clean' = TRUE
     \/ stored' = Unknown /\ clean' = FALSE
     \/ flaky /\ Dated(stored) /\ stored' = Zeroed /\ clean' = FALSE
  /\ age' = 0 /\ idle' = Backoff
  /\ UNCHANGED <<source, flaky, memo, request, loop>>

\* Faults end for good.
Settle ==
  /\ flaky
  /\ flaky' = FALSE
  /\ UNCHANGED <<source, stored, memo, request, loop, history>>

RunDown(t) == IF t > 0 THEN t - 1 ELSE 0
AgedBy(e) == IF Dated(e) THEN Larger(e - 1, -MaxOutage) ELSE e

\* Time passes only while the loop waits or `claude` runs, and never past a
\* timer that is due.
Elapse ==
  /\ \/ pc = "waiting" /\ nextTick > 0
     \/ pc = "running" /\ running > 0
  /\ request # Nothing => request.left > 0
  /\ nextTick' = nextTick - 1
  /\ backoff' = RunDown(backoff)
  /\ running' = RunDown(running)
  /\ stored' = AgedBy(stored)
  /\ memo' = IF memo = Nothing THEN Nothing
             ELSE [exp |-> AgedBy(memo.exp), fresh |-> RunDown(memo.fresh), usable |-> RunDown(memo.usable)]
  /\ request' = IF request = Nothing THEN Nothing
                ELSE [exp |-> AgedBy(request.exp), left |-> request.left - 1]
  /\ age' = Smaller(age + 1, Ttl + FetchTime + 1)
  /\ idle' = Smaller(idle + 1, Backoff)
  /\ UNCHANGED <<source, flaky, pc, clean>>

Next ==
  \/ TickFires \/ Look \/ RunEnds \/ Check
  \/ RequestFetches \/ RequestStores \/ RequestInvalidates
  \/ OwnerRewrites \/ Settle \/ Elapse

Spec == Init /\ [][Next]_vars

\* The task is polled, its reads and its child end, time passes, and a request
\* stores what it fetched.  REFRESH is not kept from the loop for ever by
\* requests that take it in turn, nor do they act infinitely often in no time:
\* hence strong fairness where a request under way is in the loop's way.
\* Nothing makes a request read, the owner rewrite the store, or a fault end.
FairSpec ==
  /\ Spec
  /\ WF_vars(TickFires) /\ SF_vars(Look) /\ WF_vars(RunEnds) /\ SF_vars(Check)
  /\ WF_vars(RequestStores) /\ SF_vars(Elapse)

-----------------------------------------------------------------------------
(* Properties. *)

Spawns == pc = "looking" /\ pc' = "running"

\* TICK is "also the worst-case outage" (oauth_keepalive.rs:22): as long as no
\* read and no run has failed, a credential is replaced before it has been
\* expired for a TICK, whatever the memo, a request or the owner do meanwhile.
OutageBounded == clean /\ Dated(stored) => stored > -Tick

\* "a spawn that did not move the expiry backs off" (oauth_keepalive.rs:14): no
\* other run for FAILURE_BACKOFF after one that left a due credential, even if
\* the read after the run is one a request made before it.  The exception the
\* code makes and the comment does not: when that read fails.
FailedRunBacksOff == [][Spawns => idle = Backoff]_vars

\* Once faults have ended, an expired credential is replaced (or its owner logs
\* out): no backoff, memoised failure or overtaken read keeps the loop from it.
ExpiryIsRepaired ==
  (~flaky /\ Dated(stored) /\ stored <= 0) ~> (~Dated(stored) \/ stored > 0)

=============================================================================
