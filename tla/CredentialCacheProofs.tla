----------------------- MODULE CredentialCacheProofs -----------------------
(***************************************************************************)
(* Proofs about CredentialCache for any number of callers, any lengths of  *)
(* the time limits and any behaviour of the keychain's owner.              *)
(*                                                                         *)
(* Inductive invariants, each using the ones before it: the types, who     *)
(* holds REFRESH, what is known of every value in memory, and who may      *)
(* still read the keychain while what is there is good.                    *)
(***************************************************************************)
EXTENDS CredentialCache, TLAPS

USE TtlAssumption, BoundAssumption

-----------------------------------------------------------------------------
(* The operators of the model. *)

\* What EntryOf guarantees of an entry for as long as it lives: it is served
\* for at most the ceiling, and past the floor only while unexpired.
Sound(e) ==
  /\ e.refreshAfter =< e.usableFor /\ e.usableFor =< MaxTtl
  /\ \/ e.usableFor =< Ttl
     \/ e.res.exp # NoExpiry /\ e.at + e.usableFor =< e.res.exp

\* What EntryOf guarantees of the first deadline: it is the reference, whenever
\* it is asked.
Lasting(e) ==
  \A n \in Nat : n >= e.at =>
    (n - e.at < e.refreshAfter
       <=> /\ n < e.at + MaxTtl
           /\ n < e.at + Ttl \/ (e.res.exp # NoExpiry /\ n + Margin < e.res.exp))

\* An entry made of any read is an entry, stored now, and sound: the two
\* clamps of credential_freshness are enough.
LEMMA EntryIsSound ==
  ASSUME NEW res \in Reads, now \in Nat
  PROVE  /\ EntryOf(res) \in Entries
         /\ EntryOf(res).at = now /\ EntryOf(res).res = res
         /\ Sound(EntryOf(res))
<1>1. res.exp \in Expiries
  BY DEF Reads
<1>2. Remaining(res) \in Nat /\ (Remaining(res) = 0 \/ now + Remaining(res) = res.exp)
  BY <1>1 DEF Remaining, Larger, Expiries, NoExpiry
<1>3. RefreshAfter(res) \in Nat /\ RefreshAfter(res) =< MaxTtl
      /\ (RefreshAfter(res) = Ttl \/ RefreshAfter(res) =< Remaining(res))
  BY <1>1, <1>2 DEF RefreshAfter, Expiries, NoExpiry, Larger, Smaller
<1>4. UsableFor(res) \in Nat /\ UsableFor(res) =< MaxTtl /\ RefreshAfter(res) =< UsableFor(res)
  BY <1>1, <1>2, <1>3 DEF UsableFor, Expiries, NoExpiry, RefreshAfter, Larger, Smaller
<1>5. UsableFor(res) =< Ttl \/ (res.exp # NoExpiry /\ UsableFor(res) =< Remaining(res))
  BY <1>1, <1>2, <1>3 DEF UsableFor, Expiries, NoExpiry, RefreshAfter, Larger, Smaller
<1>6. UsableFor(res) =< Ttl \/ (res.exp # NoExpiry /\ now + UsableFor(res) =< res.exp)
  BY <1>1, <1>2, <1>4, <1>5 DEF Expiries, NoExpiry
<1>. QED
  BY <1>3, <1>4, <1>6 DEF EntryOf, Entries, Sound

\* A sound entry that is still usable is alive, or younger than the floor; and
\* a fresh entry is usable.
LEMMA SoundEntryServed ==
  ASSUME NEW e \in Entries, now \in Nat, Sound(e), Fresh(e) \/ Usable(e)
  PROVE  /\ now < e.at + Ttl \/ (e.res.exp # NoExpiry /\ now < e.res.exp)
         /\ now < e.at + MaxTtl
<1>1. e.at \in Nat /\ e.refreshAfter \in Nat /\ e.usableFor \in Nat /\ e.res \in Reads
  BY DEF Entries
<1>2. e.res.exp \in Expiries
  BY <1>1 DEF Reads
<1>3. now - e.at < e.usableFor
  BY <1>1 DEF Sound, Fresh, Usable
<1>. QED
  BY <1>1, <1>2, <1>3 DEF Sound, Expiries, NoExpiry


\* The deadline the code freezes when it stores is the reference at any later
\* time: the margin, the floor and the ceiling compose.
LEMMA EntryIsLasting ==
  ASSUME NEW res \in Reads, now \in Nat
  PROVE  Lasting(EntryOf(res)) /\ EntryOf(res).refreshAfter > 0
<1>1. res.exp \in Nat \cup {NoExpiry}
  BY DEF Reads, Expiries
<1>2. SUFFICES ASSUME NEW n \in Nat, n >= now
               PROVE  /\ RefreshAfter(res) > 0
                      /\ n - now < RefreshAfter(res)
                           <=> /\ n < now + MaxTtl
                               /\ n < now + Ttl \/ (res.exp # NoExpiry /\ n + Margin < res.exp)
  BY DEF Lasting, EntryOf
<1>3. CASE res.exp = NoExpiry
  BY <1>2, <1>3 DEF RefreshAfter
<1>4. CASE res.exp # NoExpiry /\ res.exp >= now
  BY <1>1, <1>2, <1>4 DEF RefreshAfter, Remaining, Larger, Smaller, NoExpiry
<1>5. CASE res.exp # NoExpiry /\ res.exp < now
  BY <1>1, <1>2, <1>5 DEF RefreshAfter, Remaining, Larger, Smaller, NoExpiry
<1>. QED
  BY <1>1, <1>2, <1>3, <1>4, <1>5 DEF NoExpiry

-----------------------------------------------------------------------------
(* Types. *)

\* A caller about to store has something to store.
Fetched == \A t \in Callers : pc[t] = "storing" => got[t] # Nothing

Typed == TypeOK /\ Fetched

\* The types hold at the start.
LEMMA TypeInit == Init => Typed
<1> SUFFICES ASSUME Init PROVE Typed
  OBVIOUS
<1>1. store \in Expiries
  BY DEF Init, Expiries
<1>. QED
  BY <1>1 DEF Init, Typed, TypeOK, Fetched

\* A call that returns a well-typed result leaves everything well typed.
LEMMA TypeReturn ==
  ASSUME TypeOK, NEW t \in Callers, NEW res \in Reads, NEW since \in Nat,
         NEW from \in {"cache", "keychain"}, Return(t, res, since, from)
  PROVE  /\ pc' \in [Callers -> {"idle", "missed", "blocked", "fetching", "storing"}]
         /\ snap' \in [Callers -> Entries \cup {Nothing}]
         /\ got' \in [Callers -> Reads \cup {Nothing}]
         /\ answer' \in Answers \cup {Nothing}
  BY DEF TypeOK, Return, Answers

\* Every step keeps the types.
LEMMA TypeStep == Typed /\ [Next]_vars => Typed'
<1> SUFFICES ASSUME Typed, [Next]_vars PROVE Typed'
  OBVIOUS
<1> USE DEF Typed, Fetched
<1>1. ASSUME NEW t \in Callers, Start(t) PROVE Typed'
  <2>1. CASE Fresh(cache) /\ Return(t, cache.res, cache.at, "cache")
    <3>1. cache.res \in Reads /\ cache.at \in Nat
      BY <2>1 DEF TypeOK, Fresh, Entries
    <3>. QED
      BY <1>1, <2>1, <3>1, TypeReturn DEF TypeOK, Start, Return
  <2>2. CASE ~(Fresh(cache) /\ Return(t, cache.res, cache.at, "cache"))
    BY <1>1, <2>2 DEF TypeOK, Start, Return
  <2>. QED
    BY <2>1, <2>2
<1>2. ASSUME NEW t \in Callers, TakeRefresh(t) PROVE Typed'
  BY <1>2 DEF TypeOK, TakeRefresh
<1>3. ASSUME NEW t \in Callers, ServeStale(t) PROVE Typed'
  <2>1. snap[t].res \in Reads /\ snap[t].at \in Nat
    BY <1>3 DEF TypeOK, ServeStale, Usable, Entries
  <2>. QED
    BY <1>3, <2>1, TypeReturn DEF TypeOK, ServeStale, Return
<1>4. ASSUME NEW t \in Callers, Block(t) PROVE Typed'
  BY <1>4 DEF TypeOK, Block
<1>5. ASSUME NEW t \in Callers, WakeUp(t) PROVE Typed'
  <2>1. CASE Fresh(cache) /\ Return(t, cache.res, cache.at, "cache") /\ UNCHANGED reader
    <3>1. cache.res \in Reads /\ cache.at \in Nat
      BY <2>1 DEF TypeOK, Fresh, Entries
    <3>. QED
      BY <1>5, <2>1, <3>1, TypeReturn DEF TypeOK, WakeUp, Return
  <2>2. CASE ~(Fresh(cache) /\ Return(t, cache.res, cache.at, "cache") /\ UNCHANGED reader)
    BY <1>5, <2>2 DEF TypeOK, WakeUp, Return
  <2>. QED
    BY <2>1, <2>2
<1>6. ASSUME NEW t \in Callers, Fetch(t) PROVE Typed'
  <2>1. \A exp \in {store, NoExpiry} : [exp |-> exp, epoch |-> epoch] \in Reads
    BY DEF TypeOK, Expiries, Reads
  <2>2. PICK exp \in {store, NoExpiry} : got' = [got EXCEPT ![t] = [exp |-> exp, epoch |-> epoch]]
    BY <1>6 DEF Fetch
  <2>3. [exp |-> exp, epoch |-> epoch] \in Reads \ {Nothing}
    BY <2>1, NothingAssumption
  <2>4. got' \in [Callers -> Reads \cup {Nothing}] /\ got'[t] # Nothing
    BY <2>2, <2>3 DEF TypeOK
  <2>5. /\ pc' = [pc EXCEPT ![t] = "storing"] /\ answer' = Nothing
        /\ UNCHANGED <<now, store, cache, reader, snap, epoch, began, raced, late>>
    BY <1>6 DEF Fetch
  <2>6. TypeOK'
    BY <2>4, <2>5 DEF TypeOK
  <2>7. Fetched'
    BY <2>2, <2>4, <2>5 DEF TypeOK
  <2>. QED
    BY <2>6, <2>7
<1>7. ASSUME NEW t \in Callers, Store(t) PROVE Typed'
  <2>1. got[t] \in Reads /\ now \in Nat
    BY <1>7 DEF TypeOK, Store
  <2>2. EntryOf(got[t]) \in Entries
    BY <2>1, EntryIsSound
  <2>. QED
    BY <1>7, <2>1, <2>2, TypeReturn DEF TypeOK, Store, Return, Overtaken
<1>8. CASE Invalidate
  BY <1>8 DEF TypeOK, Invalidate
<1>9. CASE Tick
  BY <1>9 DEF TypeOK, Tick
<1>10. CASE Rotate
  <2>1. store' \in Expiries
    <3>1. now \in Nat /\ Lifetimes \subseteq Nat
      BY DEF TypeOK
    <3>2. PICK e \in {now + l : l \in Lifetimes} \cup {NoExpiry} : store' = e
      BY <1>10 DEF Rotate
    <3>. QED
      BY <3>1, <3>2 DEF Expiries
  <2>. QED
    BY <1>10, <2>1 DEF TypeOK, Rotate
<1>11. CASE UNCHANGED vars
  BY <1>11 DEF TypeOK, vars
<1>. QED
  BY <1>1, <1>2, <1>3, <1>4, <1>5, <1>6, <1>7, <1>8, <1>9, <1>10, <1>11 DEF Next, Caller

-----------------------------------------------------------------------------
(* REFRESH. *)

LEMMA CustodyStep ==
  Typed /\ OneReaderAtATime /\ [Next]_vars => OneReaderAtATime'
<1> SUFFICES ASSUME TypeOK, OneReaderAtATime, [Next]_vars PROVE OneReaderAtATime'
  BY DEF Typed
<1> USE CallerAssumption DEF TypeOK, OneReaderAtATime, Return
<1>1. ASSUME NEW t \in Callers, Start(t) PROVE OneReaderAtATime'
  BY <1>1 DEF Start
<1>2. ASSUME NEW t \in Callers, TakeRefresh(t) PROVE OneReaderAtATime'
  BY <1>2 DEF TakeRefresh
<1>3. ASSUME NEW t \in Callers, ServeStale(t) PROVE OneReaderAtATime'
  BY <1>3 DEF ServeStale
<1>4. ASSUME NEW t \in Callers, Block(t) PROVE OneReaderAtATime'
  BY <1>4 DEF Block
<1>5. ASSUME NEW t \in Callers, WakeUp(t) PROVE OneReaderAtATime'
  BY <1>5 DEF WakeUp
<1>6. ASSUME NEW t \in Callers, Fetch(t) PROVE OneReaderAtATime'
  BY <1>6 DEF Fetch
<1>7. ASSUME NEW t \in Callers, Store(t) PROVE OneReaderAtATime'
  BY <1>7 DEF Store
<1>8. CASE Invalidate \/ Tick \/ Rotate \/ UNCHANGED vars
  BY <1>8 DEF Invalidate, Tick, Rotate, vars
<1>. QED
  BY <1>1, <1>2, <1>3, <1>4, <1>5, <1>6, <1>7, <1>8 DEF Next, Caller

-----------------------------------------------------------------------------
(* What is in memory, and what is served from it. *)

\* Every entry a thread can serve is sound, and a snapshot taken because it
\* was stale never becomes fresh again.
Memory ==
  /\ cache # Nothing => Sound(cache)
  /\ \A t \in Callers : snap[t] # Nothing => Sound(snap[t])
  /\ \A t \in Callers : pc[t] = "missed" => ~Fresh(snap[t])

Served == ServedWithinLimits

\* A call answered from a sound entry within its deadline is served within the
\* limits.
LEMMA ServedFromMemory ==
  ASSUME TypeOK, NEW t \in Callers, NEW e \in Entries, Sound(e),
         Fresh(e) \/ Usable(e), Return(t, e.res, e.at, "cache"), now' = now
  PROVE  Served'
<1>1. now < e.at + Ttl \/ (e.res.exp # NoExpiry /\ now < e.res.exp)
  BY SoundEntryServed DEF TypeOK
<1>2. now < e.at + MaxTtl
  BY SoundEntryServed DEF TypeOK
<1>3. answer'.res = e.res /\ answer'.since = e.at
  BY DEF Return
<1>. QED
  BY <1>1, <1>2, <1>3 DEF Served, ServedWithinLimits

\* A step that answers nobody.
LEMMA ServedNobody == ASSUME answer' = Nothing PROVE Served'
  BY DEF Served, ServedWithinLimits

\* Every step remembers sound entries only and serves within the limits.
LEMMA MemoryStep ==
  Typed /\ Memory /\ Served /\ [Next]_vars => Memory' /\ Served'
<1> SUFFICES ASSUME Typed, TypeOK, Memory, Served, [Next]_vars PROVE Memory' /\ Served'
  BY DEF Typed
<1>1. ASSUME NEW t \in Callers, Start(t) PROVE Memory' /\ Served'
  <2>1. CASE Fresh(cache) /\ Return(t, cache.res, cache.at, "cache")
    <3>1. cache \in Entries /\ Sound(cache)
      BY <2>1 DEF TypeOK, Memory, Fresh
    <3>2. Served'
      BY <1>1, <2>1, <3>1, ServedFromMemory DEF Start
    <3>3. Memory'
      BY <1>1, <2>1, <3>1 DEF TypeOK, Memory, Start, Return, Fresh, Sound
    <3>. QED
      BY <3>2, <3>3
  <2>2. CASE /\ ~Fresh(cache)
             /\ pc' = [pc EXCEPT ![t] = "missed"]
             /\ snap' = [snap EXCEPT ![t] = cache]
             /\ answer' = Nothing
    <3>1. UNCHANGED <<now, cache>>
      BY <1>1 DEF Start
    <3>2. Memory'
      BY <2>2, <3>1 DEF TypeOK, Memory, Fresh, Sound
    <3>. QED
      BY <2>2, <3>2, ServedNobody
  <2>. QED
    BY <1>1, <2>1, <2>2 DEF Start
<1>2. ASSUME NEW t \in Callers, TakeRefresh(t) PROVE Memory' /\ Served'
  BY <1>2, ServedNobody DEF TypeOK, Memory, TakeRefresh, Fresh, Sound
<1>3. ASSUME NEW t \in Callers, ServeStale(t) PROVE Memory' /\ Served'
  <2>1. snap[t] \in Entries /\ Sound(snap[t]) /\ Usable(snap[t])
    BY <1>3 DEF TypeOK, Memory, ServeStale, Usable
  <2>2. Served'
    BY <1>3, <2>1, ServedFromMemory DEF ServeStale
  <2>3. Memory'
    BY <1>3 DEF TypeOK, Memory, ServeStale, Return, Fresh, Sound
  <2>. QED
    BY <2>2, <2>3
<1>4. ASSUME NEW t \in Callers, Block(t) PROVE Memory' /\ Served'
  BY <1>4, ServedNobody DEF TypeOK, Memory, Block, Fresh, Sound
<1>5. ASSUME NEW t \in Callers, WakeUp(t) PROVE Memory' /\ Served'
  <2>1. Memory'
    BY <1>5 DEF TypeOK, Memory, WakeUp, Return, Fresh, Sound
  <2>2. CASE Fresh(cache) /\ Return(t, cache.res, cache.at, "cache")
    <3>1. cache \in Entries /\ Sound(cache)
      BY <2>2 DEF TypeOK, Memory, Fresh
    <3>. QED
      BY <1>5, <2>1, <2>2, <3>1, ServedFromMemory DEF WakeUp
  <2>3. CASE answer' = Nothing
    BY <2>1, <2>3, ServedNobody
  <2>. QED
    BY <1>5, <2>2, <2>3 DEF WakeUp
<1>6. ASSUME NEW t \in Callers, Fetch(t) PROVE Memory' /\ Served'
  BY <1>6, ServedNobody DEF TypeOK, Memory, Fetch, Fresh, Sound
<1>7. ASSUME NEW t \in Callers, Store(t) PROVE Memory' /\ Served'
  <2>1. got[t] \in Reads /\ now \in Nat
    BY <1>7 DEF Typed, TypeOK, Fetched, Store
  <2>2. Sound(EntryOf(got[t]))
    BY <2>1, EntryIsSound
  <2>3. Memory'
    BY <1>7, <2>2 DEF TypeOK, Memory, Store, Return, Fresh, Sound
  <2>4. answer'.from = "keychain" /\ answer'.since = now /\ now' = now
    BY <1>7 DEF Store, Return
  <2>5. Served'
    BY <2>1, <2>4 DEF Served, ServedWithinLimits
  <2>. QED
    BY <2>3, <2>5
<1>8. CASE Invalidate
  BY <1>8, ServedNobody DEF TypeOK, Memory, Invalidate, Fresh, Sound
<1>9. CASE Tick
  <2>1. \A t \in Callers : Fresh(snap[t])' => Fresh(snap[t])
    BY <1>9 DEF TypeOK, Tick, Fresh, Entries
  <2>. QED
    BY <1>9, <2>1, ServedNobody DEF TypeOK, Memory, Tick, Sound
<1>10. CASE Rotate
  BY <1>10, ServedNobody DEF TypeOK, Memory, Rotate, Fresh, Sound
<1>11. CASE UNCHANGED vars
  BY <1>11 DEF Memory, Served, ServedWithinLimits, vars, Fresh, Sound
<1>. QED
  BY <1>1, <1>2, <1>3, <1>4, <1>5, <1>6, <1>7, <1>8, <1>9, <1>10, <1>11 DEF Next, Caller

-----------------------------------------------------------------------------
(* Invalidations. *)

\* Without a race between a fetch and its store, whatever is in CACHE or about
\* to be was read since the last invalidation, and a snapshot since the last
\* one before its call.
Epochs ==
  /\ \A t \in Callers : began[t] =< epoch
  /\ ~raced =>
       /\ cache # Nothing => cache.res.epoch = epoch
       /\ \A t \in Callers : pc[t] = "storing" => got[t].epoch = epoch
       /\ \A t \in Callers : snap[t] # Nothing => snap[t].res.epoch >= began[t]

EpochsHold == Epochs /\ InvalidationForcesReadUnlessRaced

\* Every step keeps what is known of the epochs in which values were read.
LEMMA EpochsStep == Typed /\ EpochsHold /\ [Next]_vars => EpochsHold'
<1> SUFFICES ASSUME Typed, TypeOK, EpochsHold, [Next]_vars PROVE EpochsHold'
  BY DEF Typed
<1> USE DEF TypeOK, EpochsHold, Epochs, InvalidationForcesReadUnlessRaced
<1>1. ASSUME NEW t \in Callers, Start(t) PROVE EpochsHold'
  <2>1. CASE Fresh(cache) /\ Return(t, cache.res, cache.at, "cache")
    <3>1. cache # Nothing /\ answer'.res = cache.res /\ answer'.to = t
      BY <2>1 DEF Fresh, Return
    <3>. QED
      BY <1>1, <2>1, <3>1 DEF Start, Return
  <2>2. CASE /\ ~Fresh(cache)
             /\ pc' = [pc EXCEPT ![t] = "missed"]
             /\ snap' = [snap EXCEPT ![t] = cache]
             /\ answer' = Nothing
             /\ UNCHANGED got
    BY <1>1, <2>2 DEF Start
  <2>. QED
    BY <1>1, <2>1, <2>2 DEF Start
<1>2. ASSUME NEW t \in Callers, TakeRefresh(t) PROVE EpochsHold'
  BY <1>2 DEF TakeRefresh
<1>3. ASSUME NEW t \in Callers, ServeStale(t) PROVE EpochsHold'
  <2>1. snap[t] # Nothing /\ answer'.res = snap[t].res /\ answer'.to = t
    BY <1>3 DEF ServeStale, Usable, Return
  <2>. QED
    BY <1>3, <2>1 DEF ServeStale, Return
<1>4. ASSUME NEW t \in Callers, Block(t) PROVE EpochsHold'
  BY <1>4 DEF Block
<1>5. ASSUME NEW t \in Callers, WakeUp(t) PROVE EpochsHold'
  <2>1. CASE Fresh(cache) /\ Return(t, cache.res, cache.at, "cache")
    <3>1. cache # Nothing /\ answer'.res = cache.res /\ answer'.to = t
      BY <2>1 DEF Fresh, Return
    <3>. QED
      BY <1>5, <2>1, <3>1 DEF WakeUp, Return
  <2>2. CASE pc' = [pc EXCEPT ![t] = "fetching"] /\ answer' = Nothing /\ UNCHANGED <<snap, got>>
    BY <1>5, <2>2 DEF WakeUp
  <2>. QED
    BY <1>5, <2>1, <2>2 DEF WakeUp
<1>6. ASSUME NEW t \in Callers, Fetch(t) PROVE EpochsHold'
  <2>1. got'[t].epoch = epoch /\ \A u \in Callers \ {t} : got'[u] = got[u]
    BY <1>6 DEF Fetch
  <2>. QED
    BY <1>6, <2>1 DEF Fetch
<1>7. ASSUME NEW t \in Callers, Store(t) PROVE EpochsHold'
  <2>1. cache'.res = got[t] /\ answer'.res = got[t] /\ answer'.to = t
    BY <1>7 DEF Store, Return, EntryOf
  <2>. QED
    BY <1>7, <2>1 DEF Store, Return
<1>8. CASE Invalidate
  <2>1. ~raced' => ~raced /\ \A t \in Callers : pc[t] # "storing"
    BY <1>8 DEF Invalidate
  <2>2. /\ cache' = Nothing /\ answer' = Nothing /\ epoch' = epoch + 1
        /\ UNCHANGED <<pc, snap, began>>
    BY <1>8 DEF Invalidate
  <2>. QED
    BY <2>1, <2>2
<1>9. CASE Tick \/ Rotate \/ UNCHANGED vars
  BY <1>9 DEF Tick, Rotate, vars
<1>. QED
  BY <1>1, <1>2, <1>3, <1>4, <1>5, <1>6, <1>7, <1>8, <1>9 DEF Next, Caller

-----------------------------------------------------------------------------
(* Who may read the keychain while what is in memory is good. *)

\* An entry in CACHE is fresh exactly while it is good, and while it is, every
\* caller that found the one before it stale and has not tried REFRESH since is
\* known to be late.
Quiet ==
  /\ cache # Nothing => cache.at =< now /\ Lasting(cache)
  /\ Good(cache) => \A t \in Callers : pc[t] = "missed" => t \in late

\* Fresh is Good.
LEMMA FreshIsGood == ASSUME Typed, Quiet PROVE Fresh(cache) <=> Good(cache)
<1>1. CASE cache = Nothing
  BY <1>1 DEF Fresh, Good
<1>2. CASE cache # Nothing
  <2>1. now \in Nat /\ cache.at \in Nat /\ now >= cache.at /\ Lasting(cache)
    BY <1>2 DEF Typed, TypeOK, Entries, Quiet
  <2>. QED
    BY <1>2, <2>1 DEF Fresh, Good, Lasting
<1>. QED
  BY <1>1, <1>2

\* Every step keeps that, and begins a read of the keychain under a good value
\* only for a late caller.
LEMMA QuietStep ==
  ASSUME Typed, Quiet, [Next]_vars
  PROVE  /\ Quiet'
         /\ \A t \in Callers :
              pc[t] # "fetching" /\ pc'[t] = "fetching" /\ Good(cache) => t \in late
<1> DEFINE Reading == \A t \in Callers :
             pc[t] # "fetching" /\ pc'[t] = "fetching" /\ Good(cache) => t \in late
<1> USE DEF Typed, TypeOK
<1>0. /\ UNCHANGED <<cache, now>> => (Good(cache)' <=> Good(cache)) /\ (Lasting(cache)' <=> Lasting(cache))
      /\ Fresh(cache) <=> Good(cache)
  BY FreshIsGood DEF Good, Lasting
<1>1. ASSUME NEW t \in Callers, Start(t) PROVE Quiet' /\ Reading
  BY <1>0, <1>1 DEF Start, Return, Quiet
<1>2. ASSUME NEW t \in Callers, TakeRefresh(t) PROVE Quiet' /\ Reading
  BY <1>0, <1>2 DEF TakeRefresh, Quiet
<1>3. ASSUME NEW t \in Callers, ServeStale(t) PROVE Quiet' /\ Reading
  BY <1>0, <1>3 DEF ServeStale, Return, Quiet
<1>4. ASSUME NEW t \in Callers, Block(t) PROVE Quiet' /\ Reading
  BY <1>0, <1>4 DEF Block, Quiet
<1>5. ASSUME NEW t \in Callers, WakeUp(t) PROVE Quiet' /\ Reading
  BY <1>0, <1>5 DEF WakeUp, Return, Quiet
<1>6. ASSUME NEW t \in Callers, Fetch(t) PROVE Quiet' /\ Reading
  BY <1>0, <1>6 DEF Fetch, Quiet
<1>7. ASSUME NEW t \in Callers, Store(t) PROVE Quiet' /\ Reading
  <2>1. got[t] \in Reads /\ now \in Nat
    BY <1>7 DEF Fetched, Store
  <2>2. Lasting(EntryOf(got[t])) /\ EntryOf(got[t]).at = now
    BY <2>1, EntryIsLasting DEF EntryOf
  <2>3. cache' = EntryOf(got[t]) /\ now' = now /\ late' = Overtaken /\ pc' = [pc EXCEPT ![t] = "idle"]
    BY <1>7 DEF Store, Return
  <2>4. Lasting(cache)' /\ cache'.at =< now'
    BY <2>1, <2>2, <2>3 DEF Lasting
  <2>5. \A u \in Callers : pc'[u] = "missed" => u \in late'
    BY <2>3 DEF Overtaken, Quiet
  <2>6. Reading
    BY <2>3
  <2>. QED
    BY <2>4, <2>5, <2>6 DEF Quiet
<1>8. CASE Invalidate
  BY <1>8 DEF Invalidate, Quiet, Good
<1>9. CASE Tick
  <2>1. cache' = cache /\ pc' = pc /\ late' = late /\ now' = now + 1
    BY <1>9 DEF Tick
  <2>2. cache # Nothing => cache.at \in Nat /\ cache.res.exp \in Nat \cup {NoExpiry}
    BY DEF Entries, Reads, Expiries
  <2>3. Good(cache)' => Good(cache)
    BY <2>1, <2>2 DEF Good, NoExpiry
  <2>4. cache' # Nothing => cache'.at =< now' /\ Lasting(cache)'
    BY <2>1, <2>2 DEF Quiet, Lasting
  <2>. QED
    BY <2>1, <2>3, <2>4 DEF Quiet
<1>10. CASE Rotate \/ UNCHANGED vars
  BY <1>0, <1>10 DEF Rotate, vars, Quiet
<1>. QED
  BY <1>1, <1>2, <1>3, <1>4, <1>5, <1>6, <1>7, <1>8, <1>9, <1>10 DEF Next, Caller

-----------------------------------------------------------------------------
(* The theorems. *)

IInv ==
  /\ Typed
  /\ OneReaderAtATime
  /\ Memory
  /\ Served
  /\ EpochsHold
  /\ Quiet

\* IInv holds in every reachable state.
THEOREM InductiveInvariant == Spec => []IInv
<1>1. Init => IInv
  <2> SUFFICES ASSUME Init PROVE IInv
    OBVIOUS
  <2>1. Typed
    BY TypeInit
  <2>2. OneReaderAtATime
    BY CallerAssumption DEF Init, OneReaderAtATime
  <2>3. Memory /\ Served
    BY DEF Init, Memory, Served, ServedWithinLimits
  <2>4. EpochsHold
    BY DEF Init, EpochsHold, Epochs, InvalidationForcesReadUnlessRaced
  <2>5. Quiet
    BY DEF Init, Quiet, Good
  <2>. QED
    BY <2>1, <2>2, <2>3, <2>4, <2>5 DEF IInv
<1>2. IInv /\ [Next]_vars => IInv'
  BY TypeStep, CustodyStep, MemoryStep, EpochsStep, QuietStep DEF IInv
<1>. QED
  BY <1>1, <1>2, PTL DEF Spec

\* Every variable keeps its type, whatever the interleaving.
THEOREM TypeCorrect == Spec => []TypeOK
<1>1. IInv => TypeOK
  BY DEF IInv, Typed
<1>. QED
  BY <1>1, InductiveInvariant, PTL

\* `cached` never lets two threads be inside the keychain at once.
THEOREM SingleFlight == Spec => []OneReaderAtATime
<1>1. IInv => OneReaderAtATime
  BY DEF IInv
<1>. QED
  BY <1>1, InductiveInvariant, PTL

\* No caller gets an expired credential from memory, except one stored less
\* than CACHE_TTL ago, and no expiry, however far out, is trusted beyond
\* MAX_CACHE_TTL.
THEOREM NoDeadCredentialServed == Spec => []ServedWithinLimits
<1>1. IInv => ServedWithinLimits
  BY DEF IInv, Served
<1>. QED
  BY <1>1, InductiveInvariant, PTL

\* The one way a call can miss an invalidation that preceded it is a fetch
\* that straddles the invalidation.
THEOREM InvalidationSeen == Spec => []InvalidationForcesReadUnlessRaced
<1>1. IInv => InvalidationForcesReadUnlessRaced
  BY DEF IInv, EpochsHold
<1>. QED
  BY <1>1, InductiveInvariant, PTL

\* While the value in memory is good, whatever it is, the keychain is read by
\* nobody but the callers overtaken by its store, once each.
THEOREM GoodValueNotReread == Spec => NoReadWhileGood
<1>1. IInv /\ [Next]_vars =>
        [\A t \in Callers :
           pc[t] # "fetching" /\ pc'[t] = "fetching" /\ Good(cache) => t \in late]_vars
  BY QuietStep DEF IInv
<1>. QED
  BY <1>1, InductiveInvariant, PTL DEF Spec, NoReadWhileGood

=============================================================================
