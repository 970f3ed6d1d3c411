-------------------------- MODULE CredentialCache --------------------------
(***************************************************************************)
(* The memoised keychain read of src/keychain.rs: `cached` run by any      *)
(* number of threads over CACHE and REFRESH, `credential_freshness`, and   *)
(* `invalidate_cache` called at any moment by other requests.              *)
(*                                                                         *)
(* The keychain itself, the owner that rewrites it and the clock are the   *)
(* environment.  A credential is abstracted to its expiry, and a read that *)
(* carries none is one value whatever the reason.                          *)
(* One clock stands for Instant and SystemTime.  CACHE's own lock is held  *)
(* for a clone or an assignment only, so each is one step.                 *)
(*                                                                         *)
(* A definition introduced by "Slip" is not the code: it is the definition *)
(* after it with a plausible mistake, kept to see the properties fail.     *)
(***************************************************************************)
EXTENDS Integers

CONSTANTS
  Callers,     \* threads running requests that need the credential
  Nobody,      \* REFRESH is free
  Nothing,     \* CACHE is empty
  Ttl,         \* CACHE_TTL: the floor of a cached value's life
  Margin,      \* EXPIRY_MARGIN: refresh this long before the expiry
  MaxTtl,      \* MAX_CACHE_TTL: the ceiling
  Lifetimes,   \* how long a credential the owner writes may live
  MaxTime,     \* bound on the clock
  MaxEpoch     \* bound on the invalidations

ASSUME TtlAssumption ==
  /\ Ttl \in Nat \ {0} /\ Margin \in Nat /\ MaxTtl \in Nat
  /\ Ttl =< MaxTtl
ASSUME BoundAssumption ==
  MaxTime \in Nat /\ MaxEpoch \in Nat /\ Lifetimes \subseteq Nat
ASSUME CallerAssumption == Nobody \notin Callers

VARIABLES
  now,      \* the clock
  store,    \* what the keychain holds
  cache,    \* CACHE
  reader,   \* the holder of REFRESH
  pc,       \* pc[t]: where t is in `cached`
  snap,     \* snap[t]: the snapshot t took of CACHE
  got,      \* got[t]: what t's fetch returned, not yet stored
  answer,   \* history: what the call that returned in this very step got
  epoch,    \* history: invalidations so far
  began,    \* history: epoch when t's call began
  raced,    \* history: an invalidation came between a fetch and its store
  late      \* history: who may still act on a look at CACHE older than the value there

vars == <<now, store, cache, reader, pc, snap, got, answer, epoch, began, raced, late>>

\* A Result<Option<OauthCredential>> is its expiry: none for a backend error,
\* no entry, or a blob that omits it.
NoExpiry == -1
Expiries == Nat \cup {NoExpiry}

\* What a read returned, and the epoch it was done in.
Reads == [exp : Expiries, epoch : Nat]

Entries == [at : Nat, refreshAfter : Nat, usableFor : Nat, res : Reads]

Answers == [to : Callers, res : Reads, since : Nat, from : {"cache", "keychain"}]

ASSUME NothingAssumption == Nothing \notin Entries \cup Reads \cup Answers

TypeOK ==
  /\ now \in Nat
  /\ store \in Expiries
  /\ cache \in Entries \cup {Nothing}
  /\ reader \in Callers \cup {Nobody}
  /\ pc \in [Callers -> {"idle", "missed", "blocked", "fetching", "storing"}]
  /\ snap \in [Callers -> Entries \cup {Nothing}]
  /\ got \in [Callers -> Reads \cup {Nothing}]
  /\ answer \in Answers \cup {Nothing}
  /\ epoch \in Nat
  /\ began \in [Callers -> Nat]
  /\ raced \in BOOLEAN
  /\ late \subseteq Callers

Init ==
  /\ now = 0
  /\ store \in Lifetimes \cup {NoExpiry}
  /\ cache = Nothing
  /\ reader = Nobody
  /\ pc = [t \in Callers |-> "idle"]
  /\ snap = [t \in Callers |-> Nothing]
  /\ got = [t \in Callers |-> Nothing]
  /\ answer = Nothing
  /\ epoch = 0
  /\ began = [t \in Callers |-> 0]
  /\ raced = FALSE
  /\ late = {}

-----------------------------------------------------------------------------
(* Freshness. *)

Larger(a, b) == IF a > b THEN a ELSE b
Smaller(a, b) == IF a < b THEN a ELSE b

\* saturating_sub(..).max(0): never negative.
Remaining(res) == Larger(res.exp - now, 0)

\* Slip: no floor, so that an expired credential is never fresh.
RefreshAfterFloorless(res) ==
  IF res.exp # NoExpiry THEN Smaller(Larger(Remaining(res) - Margin, 0), MaxTtl) ELSE Ttl

RefreshAfter(res) ==
  IF res.exp # NoExpiry
  THEN Smaller(Larger(Remaining(res) - Margin, Ttl), MaxTtl)
  ELSE Ttl

\* Slip: a grace window of one more TTL instead of the time to the expiry.
UsableForTwice(res) == RefreshAfter(res) + Ttl

UsableFor(res) ==
  IF res.exp # NoExpiry
  THEN Larger(Smaller(Remaining(res), MaxTtl), RefreshAfter(res))
  ELSE Ttl

\* The reference for both: a value is good until the margin before its expiry,
\* in any case for the floor, in no case past the ceiling.
Good(e) ==
  /\ e # Nothing
  /\ now < e.at + MaxTtl
  /\ \/ now < e.at + Ttl
     \/ e.res.exp # NoExpiry /\ now + Margin < e.res.exp

\* The entry `cached` stores: both deadlines frozen at the time of storing.
EntryOf(res) ==
  [at |-> now, refreshAfter |-> RefreshAfter(res), usableFor |-> UsableFor(res), res |-> res]

Fresh(e) == e # Nothing /\ now - e.at < e.refreshAfter
Usable(e) == e # Nothing /\ now - e.at < e.usableFor

-----------------------------------------------------------------------------
(* `cached`, one action per step another thread can come between. *)

Return(t, res, since, from) ==
  /\ pc' = [pc EXCEPT ![t] = "idle"]
  /\ answer' = [to |-> t, res |-> res, since |-> since, from |-> from]
  /\ snap' = [snap EXCEPT ![t] = Nothing]
  /\ got' = [got EXCEPT ![t] = Nothing]

\* The snapshot: a fresh one is the answer.
Start(t) ==
  /\ pc[t] = "idle"
  /\ began' = [began EXCEPT ![t] = epoch]
  /\ \/ /\ Fresh(cache)
        /\ Return(t, cache.res, cache.at, "cache")
     \/ /\ ~Fresh(cache)
        /\ pc' = [pc EXCEPT ![t] = "missed"]
        /\ snap' = [snap EXCEPT ![t] = cache]
        /\ answer' = Nothing
        /\ UNCHANGED got
  /\ UNCHANGED <<now, store, cache, reader, epoch, raced, late>>

\* try_lock succeeds: on to the fetch, without another look at CACHE.
TakeRefresh(t) ==
  /\ pc[t] = "missed"
  /\ reader = Nobody
  /\ pc' = [pc EXCEPT ![t] = "fetching"]
  /\ reader' = t
  /\ answer' = Nothing
  /\ late' = late \ {t}
  /\ UNCHANGED <<now, store, cache, snap, got, epoch, began, raced>>

\* try_lock fails and the snapshot is still correct: serve it.
ServeStale(t) ==
  /\ pc[t] = "missed"
  /\ reader # Nobody
  /\ Usable(snap[t])
  /\ Return(t, snap[t].res, snap[t].at, "cache")
  /\ late' = late \ {t}
  /\ UNCHANGED <<now, store, cache, reader, epoch, began, raced>>

\* try_lock fails and there is nothing to serve: wait for the refresher.
Block(t) ==
  /\ pc[t] = "missed"
  /\ reader # Nobody
  /\ ~Usable(snap[t])
  /\ pc' = [pc EXCEPT ![t] = "blocked"]
  /\ answer' = Nothing
  /\ late' = late \ {t}
  /\ UNCHANGED <<now, store, cache, reader, snap, got, epoch, began, raced>>

\* REFRESH acquired after waiting; CACHE is looked at again.
WakeUp(t) ==
  /\ pc[t] = "blocked"
  /\ reader = Nobody
  /\ \/ /\ Fresh(cache)
        /\ Return(t, cache.res, cache.at, "cache")
        /\ UNCHANGED reader
     \/ /\ ~Fresh(cache)
        /\ reader' = t
        /\ pc' = [pc EXCEPT ![t] = "fetching"]
        /\ answer' = Nothing
        /\ UNCHANGED <<snap, got>>
  /\ UNCHANGED <<now, store, cache, epoch, began, raced, late>>

\* The keychain answers, or fails.
Fetch(t) ==
  /\ pc[t] = "fetching"
  /\ pc' = [pc EXCEPT ![t] = "storing"]
  /\ \E exp \in {store, NoExpiry} : got' = [got EXCEPT ![t] = [exp |-> exp, epoch |-> epoch]]
  /\ answer' = Nothing
  /\ UNCHANGED <<now, store, cache, reader, snap, epoch, began, raced, late>>

\* History: when a value that is good again arrives, whoever found the one
\* before it stale and has not tried REFRESH yet.
Overtaken == IF Good(cache) THEN late ELSE {t \in Callers : pc[t] = "missed"}

\* Slip: an early return that skips the guard: REFRESH stays locked.
StoreKeepingLock(t) ==
  /\ pc[t] = "storing"
  /\ cache' = EntryOf(got[t])
  /\ Return(t, got[t], now, "keychain")
  /\ late' = Overtaken
  /\ UNCHANGED <<now, store, reader, epoch, began, raced>>

\* CACHE is assigned, whatever happened to it during the fetch, and the guard
\* of REFRESH is dropped.
Store(t) ==
  /\ pc[t] = "storing"
  /\ cache' = EntryOf(got[t])
  /\ reader' = Nobody
  /\ Return(t, got[t], now, "keychain")
  /\ late' = Overtaken
  /\ UNCHANGED <<now, store, epoch, began, raced>>

\* Slip: the cached value outlives its rejection.
InvalidateNothing ==
  /\ epoch < MaxEpoch
  /\ epoch' = epoch + 1
  /\ raced' = (raced \/ \E t \in Callers : pc[t] = "storing")
  /\ answer' = Nothing
  /\ UNCHANGED <<now, store, cache, reader, pc, snap, got, began, late>>

\* invalidate_cache: a 401, a poll for a rotation, or the keepalive.
Invalidate ==
  /\ epoch < MaxEpoch
  /\ cache' = Nothing
  /\ epoch' = epoch + 1
  /\ raced' = (raced \/ \E t \in Callers : pc[t] = "storing")
  /\ answer' = Nothing
  /\ UNCHANGED <<now, store, reader, pc, snap, got, began, late>>

-----------------------------------------------------------------------------
(* The environment. *)

Tick ==
  /\ now < MaxTime
  /\ now' = now + 1
  /\ answer' = Nothing
  /\ UNCHANGED <<store, cache, reader, pc, snap, got, epoch, began, raced, late>>

\* Claude Code rewrites the item: a refresh, a login, or a logout.
Rotate ==
  /\ store' \in {now + l : l \in Lifetimes} \cup {NoExpiry}
  /\ answer' = Nothing
  /\ UNCHANGED <<now, cache, reader, pc, snap, got, epoch, began, raced, late>>

Caller(t) ==
  \/ Start(t) \/ TakeRefresh(t) \/ ServeStale(t) \/ Block(t)
  \/ WakeUp(t) \/ Fetch(t) \/ Store(t)

Next == (\E t \in Callers : Caller(t)) \/ Invalidate \/ Tick \/ Rotate

Spec == Init /\ [][Next]_vars

\* Threads run, the keychain answers (a killed `security` child counts as an
\* answer), and a free REFRESH is eventually won by a thread waiting for it.
\* Nothing makes a caller start, the owner rotate, or the clock advance.
FairSpec ==
  /\ Spec
  /\ \A t \in Callers :
       /\ WF_vars(TakeRefresh(t) \/ ServeStale(t) \/ Block(t))
       /\ WF_vars(WakeUp(t))
       /\ WF_vars(Fetch(t))
       /\ WF_vars(Store(t))

-----------------------------------------------------------------------------
(* Properties. *)

\* One keychain dialog at a time: whoever is between taking REFRESH and
\* storing its result holds it, so no two reads ever overlap.
OneReaderAtATime ==
  \A t \in Callers : pc[t] \in {"fetching", "storing"} <=> reader = t

\* A credential served from memory is not yet expired, or was stored less than
\* one CACHE_TTL ago: a dead token is never handed out longer than the floor,
\* however long a refresher is stuck and whenever the owner rotates.  And no
\* expiry claim, however far out, keeps a value in memory beyond the ceiling.
ServedWithinLimits ==
  answer # Nothing /\ answer.from = "cache" =>
    /\ now < answer.since + MaxTtl
    /\ \/ now < answer.since + Ttl
       \/ answer.res.exp # NoExpiry /\ now < answer.res.exp

\* After an invalidation a call that starts later gets a value read later,
\* unless a fetch of the old value was already waiting to be stored.
InvalidationForcesReadUnlessRaced ==
  answer # Nothing /\ ~raced => answer.res.epoch >= began[answer.to]

\* A rotation, an invalidation or a lapse does not cost a keychain dialog per
\* request: from the moment a read is stored until its value stops being good,
\* be it an error, an expired credential or one that lives for decades, nobody
\* reads the keychain but the callers this store overtook between their look at
\* CACHE and try_lock, once each.  A caller that waited for the refresher, and
\* every call that starts later, is served what was stored.
NoReadWhileGood ==
  [][\A t \in Callers :
       pc[t] # "fetching" /\ pc'[t] = "fetching" /\ Good(cache) => t \in late]_vars

\* Every call returns: no thread waits for REFRESH for ever.
EveryCallReturns == \A t \in Callers : pc[t] # "idle" ~> pc[t] = "idle"

=============================================================================
