--------------------------- MODULE KeepaliveProofs ---------------------------
(***************************************************************************)
(* Proofs about Keepalive for every length of its times: the types, and    *)
(* the back-off after a run that changed nothing.  The second rests on the *)
(* owner never moving an expiry backwards: whatever is read or remembered  *)
(* is no later than what the store holds, so the look after the run cannot *)
(* mistake an old value for a new one.                                     *)
(***************************************************************************)
EXTENDS Keepalive, TLAPS

USE MarkersAssumption, NothingAssumption

\* The times one by one, as the provers need them.
LEMMA TimesAreNaturals ==
  /\ Tick \in Nat /\ Lead \in Nat /\ Backoff \in Nat /\ SpawnTimeout \in Nat
  /\ Ttl \in Nat /\ MaxTtl \in Nat /\ Margin \in Nat /\ FetchTime \in Nat
  /\ Lifetime \in Nat /\ MaxOutage \in Nat
  /\ SpawnTimeout < Tick /\ Ttl <= MaxTtl /\ Lead < Lifetime
  BY TimesAssumption

USE TimesAreNaturals

-----------------------------------------------------------------------------
(* The operators of the model. *)

\* e is no later than the store's expiry, where both have one.
NotLater(e) == Dated(e) /\ Dated(stored) => e <= stored

\* The type and the order of what is remembered.
Remembered ==
  /\ memo # Nothing => NotLater(memo.exp)
  /\ request # Nothing => NotLater(request.exp)

\* An expiry that is not one of the two markers is a time.
LEMMA DatedIsTime == ASSUME NEW e \in Expiries, Dated(e) PROVE e \in Times /\ e \in Int
  BY DEF Expiries, Dated, Times

\* A credential just issued has a dated expiry.
LEMMA LifetimeIsDated == Lifetime \in Times /\ Lifetime \in Expiries /\ Dated(Lifetime)
  BY DEF Expiries, Dated, Times

\* `credential_freshness` makes a memo entry of any expiry.
LEMMA EntryIsMemo == ASSUME NEW e \in Expiries PROVE EntryOf(e) \in Memos /\ EntryOf(e).exp = e
<1>1. Remaining(e) \in Nat
  BY DatedIsTime DEF Remaining, Larger
<1>2. RefreshAfter(e) \in 0 .. MaxTtl
  BY <1>1 DEF RefreshAfter, Larger, Smaller
<1>3. Larger(Smaller(Remaining(e), MaxTtl), RefreshAfter(e)) \in 0 .. MaxTtl
  BY <1>1, <1>2 DEF Larger, Smaller
<1>. QED
  BY <1>2, <1>3 DEF EntryOf, Memos

\* Ageing keeps expiries what they are, and keeps their order.
LEMMA AgedIsExpiry ==
  ASSUME NEW e \in Expiries
  PROVE  /\ AgedBy(e) \in Expiries
         /\ Dated(AgedBy(e)) <=> Dated(e)
         /\ Dated(e) => AgedBy(e) <= e \/ e = -MaxOutage
<1>1. CASE Dated(e)
  BY <1>1, DatedIsTime DEF AgedBy, Larger, Expiries, Dated, Times
<1>2. CASE ~Dated(e)
  BY <1>2 DEF AgedBy
<1>. QED
  BY <1>1, <1>2

\* Time that passes does not change which of two expiries is later.
LEMMA AgedKeepsOrder ==
  ASSUME NEW e \in Expiries, NEW f \in Expiries, Dated(e), Dated(f), e <= f
  PROVE  AgedBy(e) <= AgedBy(f)
  BY DatedIsTime DEF AgedBy, Larger

-----------------------------------------------------------------------------
(* Types. *)

\* While `claude` runs, the next tick is further away than its time-out.
Timed == pc = "running" => nextTick - running >= Tick - SpawnTimeout

\* The loop has just been woken by a tick.
Woken == pc = "looking" => nextTick = Tick

IInv == TypeOK /\ Timed /\ Woken /\ Remembered

\* The loop starts in the invariant.
LEMMA Initial == Init => IInv
  BY LifetimeIsDated DEF Init, IInv, TypeOK, Timed, Woken, Remembered, Expiries, Times

\* A look through the memo: what it returns and remembers is an expiry, and no
\* later than the store's.
LEMMA ReadIsNotLater ==
  ASSUME TypeOK, Remembered, NEW e \in Expiries, StoredExpiry(e), UNCHANGED stored
  PROVE  /\ NotLater(e)
         /\ memo' \in Memos \cup {Nothing}
         /\ memo' # Nothing => NotLater(memo'.exp)
<1>1. e \in Reading => NotLater(e)
  BY DatedIsTime DEF TypeOK, Reading, NotLater, Dated
<1>2. CASE memo' = EntryOf(e) /\ e \in Reading
  BY <1>1, <1>2, EntryIsMemo
<1>3. CASE UNCHANGED memo
  BY <1>1, <1>3 DEF StoredExpiry, TypeOK, Remembered, Fresh, Usable
<1>. QED
  BY <1>2, <1>3 DEF StoredExpiry

\* Every step of the loop, the request and the owner keeps the invariant.
LEMMA Inductive == IInv /\ [Next]_vars => IInv'
<1> SUFFICES ASSUME IInv, [Next]_vars PROVE IInv'
  OBVIOUS
<1> USE DEF IInv, Timed, Woken
<1>1. CASE TickFires
  BY <1>1 DEF TickFires, TypeOK, Remembered, NotLater, world, history
<1>2. ASSUME Look PROVE IInv'
  <2>1. PICK before \in Expiries : StoredExpiry(before)
    BY <1>2 DEF Look
  <2>2. UNCHANGED <<stored, source, flaky, request, nextTick, backoff, age, idle>>
    BY <1>2 DEF Look, world
  <2>3. pc' \in {"running", "waiting"} /\ clean' \in BOOLEAN
        /\ (pc' = "running" => running' = SpawnTimeout) /\ running' \in {running, SpawnTimeout}
        /\ nextTick = Tick
    BY <1>2 DEF Look, TypeOK
  <2>4. memo' \in Memos \cup {Nothing} /\ (memo' # Nothing => NotLater(memo'.exp))
    BY <2>1, <2>2, ReadIsNotLater
  <2>5. TypeOK'
    BY <2>2, <2>3, <2>4 DEF TypeOK
  <2>6. Remembered'
    BY <2>2, <2>4 DEF Remembered, NotLater
  <2>7. Timed' /\ Woken'
    BY <2>2, <2>3
  <2>. QED
    BY <2>5, <2>6, <2>7
<1>3. ASSUME RunEnds PROVE IInv'
  <2>1. stored' \in {stored, Lifetime, Zeroed} /\ (stored' # Zeroed => stored' = Lifetime \/ UNCHANGED stored)
    BY <1>3 DEF RunEnds
  <2>2. TypeOK'
    <3>1. stored' \in Expiries
      BY <2>1, LifetimeIsDated DEF TypeOK, Expiries
    <3>2. age' \in {age, 0} /\ clean' \in BOOLEAN /\ idle' \in {idle, 0, Backoff}
      BY <1>3, Zenon DEF RunEnds
    <3>3. age' \in 0 .. Ttl + FetchTime + 1 /\ idle' \in 0 .. Backoff
      BY <3>2 DEF TypeOK
    <3>. QED
      BY <1>3, <3>1, <3>2, <3>3 DEF RunEnds, TypeOK
  <2>3. Remembered'
    <3>1. memo' = Nothing /\ UNCHANGED request
      BY <1>3 DEF RunEnds
    <3>2. ASSUME request # Nothing, Dated(request.exp), Dated(stored')
          PROVE  request.exp <= stored'
      <4>1. request.exp \in Times
        BY <3>2, DatedIsTime DEF TypeOK, Fetches
      <4>2. CASE stored' = Lifetime
        BY <4>1, <4>2 DEF Times
      <4>3. CASE UNCHANGED stored
        BY <3>2, <4>3 DEF Remembered, NotLater, Dated
      <4>. QED
        BY <2>1, <3>2, <4>2, <4>3 DEF Dated
    <3>. QED
      BY <3>1, <3>2 DEF Remembered, NotLater, Dated
  <2>. QED
    BY <1>3, <2>2, <2>3 DEF RunEnds
<1>4. ASSUME Check PROVE IInv'
  <2>1. PICK after \in Expiries : StoredExpiry(after)
    BY <1>4 DEF Check
  <2>2. UNCHANGED <<stored, source, flaky, request, nextTick, running, age>> /\ pc' = "waiting"
    BY <1>4 DEF Check, world
  <2>3. clean' \in BOOLEAN /\ backoff' \in 0 .. Backoff /\ idle' \in 0 .. Backoff
    BY <1>4 DEF Check, TypeOK
  <2>4. memo' \in Memos \cup {Nothing} /\ (memo' # Nothing => NotLater(memo'.exp))
    BY <2>1, <2>2, ReadIsNotLater
  <2>. QED
    BY <2>2, <2>3, <2>4 DEF TypeOK, Remembered, NotLater
<1>5. ASSUME RequestFetches PROVE IInv'
  <2>1. PICK e \in Reading : request' = [exp |-> e, left |-> FetchTime]
    BY <1>5 DEF RequestFetches
  <2>2. e \in Expiries /\ NotLater(e)
    BY DatedIsTime DEF TypeOK, Reading, NotLater, Dated, Expiries
  <2>3. request' \in Fetches /\ request'.exp = e
    BY <2>1, <2>2 DEF Fetches
  <2>. QED
    BY <1>5, <2>2, <2>3 DEF RequestFetches, TypeOK, Remembered, NotLater, world, loop
<1>6. ASSUME RequestStores PROVE IInv'
  <2>1. request \in Fetches /\ request.exp \in Expiries
    BY <1>6 DEF RequestStores, TypeOK, Fetches
  <2>. QED
    BY <1>6, <2>1, EntryIsMemo DEF RequestStores, TypeOK, Remembered, NotLater, world, loop, history
<1>7. CASE RequestInvalidates
  BY <1>7 DEF RequestInvalidates, TypeOK, Remembered, NotLater, world, loop, history
<1>8. ASSUME OwnerRewrites PROVE IInv'
  <2>1. stored' \in {Lifetime, Unknown, Zeroed}
    BY <1>8 DEF OwnerRewrites
  <2>2. TypeOK'
    <3>1. stored' \in Expiries
      BY <2>1, LifetimeIsDated DEF Expiries
    <3>2. age' \in {age, 0} /\ clean' \in BOOLEAN /\ idle' \in {idle, 0, Backoff}
      BY <1>8, Zenon DEF OwnerRewrites
    <3>3. age' \in 0 .. Ttl + FetchTime + 1 /\ idle' \in 0 .. Backoff
      BY <3>2 DEF TypeOK
    <3>. QED
      BY <1>8, <3>1, <3>2, <3>3 DEF OwnerRewrites, TypeOK, loop
  <2>3. \A e \in Expiries : Dated(e) /\ Dated(stored') => e <= stored'
    BY <2>1, DatedIsTime DEF Dated, Times
  <2>4. UNCHANGED <<memo, request>>
    BY <1>8 DEF OwnerRewrites
  <2>5. (memo # Nothing => memo.exp \in Expiries) /\ (request # Nothing => request.exp \in Expiries)
    BY DEF TypeOK, Memos, Fetches
  <2>6. Remembered'
    BY <2>3, <2>4, <2>5 DEF Remembered, NotLater, Dated
  <2>. QED
    BY <1>8, <2>2, <2>6 DEF OwnerRewrites, loop
<1>9. CASE Settle
  BY <1>9 DEF Settle, TypeOK, Remembered, NotLater, loop, history
<1>10. ASSUME Elapse PROVE IInv'
  <2>1. nextTick > 0 /\ nextTick' = nextTick - 1
    BY <1>10 DEF Elapse, TypeOK
  <2>2. nextTick' \in 0 .. Tick /\ backoff' \in 0 .. Backoff /\ running' \in 0 .. SpawnTimeout
        /\ age' \in 0 .. Ttl + FetchTime + 1 /\ idle' \in 0 .. Backoff
    BY <1>10, <2>1 DEF Elapse, TypeOK, RunDown, Smaller
  <2>3. stored' \in Expiries /\ (Dated(stored') <=> Dated(stored))
    BY <1>10, AgedIsExpiry DEF Elapse, TypeOK
  <2>4. ASSUME memo # Nothing
        PROVE  /\ memo' \in Memos /\ memo' # Nothing
               /\ NotLater(memo.exp) => (Dated(memo'.exp) /\ Dated(stored') => memo'.exp <= stored')
    <3>1. memo \in Memos /\ memo.exp \in Expiries
      BY <2>4 DEF TypeOK, Memos
    <3>2. memo' = [exp |-> AgedBy(memo.exp), fresh |-> RunDown(memo.fresh), usable |-> RunDown(memo.usable)]
      BY <1>10, <2>4 DEF Elapse
    <3>3. AgedBy(memo.exp) \in Expiries /\ RunDown(memo.fresh) \in 0 .. MaxTtl /\ RunDown(memo.usable) \in 0 .. MaxTtl
      BY <3>1, AgedIsExpiry DEF Memos, RunDown
    <3>4. memo' \in Memos
      BY <3>2, <3>3 DEF Memos
    <3>. QED
      BY <1>10, <2>3, <3>1, <3>2, <3>4, AgedIsExpiry, AgedKeepsOrder DEF Elapse, NotLater, TypeOK
  <2>5. ASSUME request # Nothing
        PROVE  /\ request' \in Fetches /\ request' # Nothing
               /\ NotLater(request.exp) => (Dated(request'.exp) /\ Dated(stored') => request'.exp <= stored')
    <3>1. request \in Fetches /\ request.exp \in Expiries /\ request.left \in 0 .. FetchTime
      BY <2>5 DEF TypeOK, Fetches
    <3>2. request' = [exp |-> AgedBy(request.exp), left |-> request.left - 1] /\ request.left > 0
      BY <1>10, <2>5 DEF Elapse
    <3>3. request' \in Fetches
      BY <3>1, <3>2, AgedIsExpiry DEF Fetches
    <3>. QED
      BY <1>10, <2>3, <3>1, <3>2, <3>3, AgedIsExpiry, AgedKeepsOrder DEF Elapse, NotLater, TypeOK
  <2>6. (memo = Nothing => memo' = Nothing) /\ (request = Nothing => request' = Nothing)
        /\ UNCHANGED <<source, flaky, pc, clean>>
    BY <1>10 DEF Elapse
  <2>7. TypeOK'
    BY <2>2, <2>3, <2>4, <2>5, <2>6 DEF TypeOK
  <2>8. Remembered'
    BY <2>4, <2>5, <2>6 DEF Remembered, NotLater
  <2>9. Timed' /\ Woken'
    BY <1>10, <2>1 DEF Elapse, TypeOK, RunDown
  <2>. QED
    BY <2>7, <2>8, <2>9
<1>11. CASE UNCHANGED vars
  BY <1>11 DEF vars, world, loop, history, TypeOK, Remembered, NotLater
<1>. QED
  BY <1>1, <1>2, <1>3, <1>4, <1>5, <1>6, <1>7, <1>8, <1>9, <1>10, <1>11 DEF Next

\* Every reachable state is well typed: in particular no timer of the loop is
\* ever behind time, since a run ends before the next tick.
THEOREM TypeCorrect == Spec => []TypeOK
  BY Initial, Inductive, PTL DEF Spec, IInv

-----------------------------------------------------------------------------
(* The back-off. *)

\* After a run that left a due credential as it was, the credential is still
\* due, and the loop is about to see that or backs off for the rest of the time.
BackedOff ==
  idle < Backoff =>
    /\ Dated(stored) /\ stored <= Lead
    /\ \/ pc = "checking"
       \/ pc \in {"waiting", "looking"} /\ backoff + idle >= Backoff

\* Every step keeps the remainder of the back-off after a useless run.
LEMMA BackoffKept == IInv /\ BackedOff /\ [Next]_vars => BackedOff'
<1> SUFFICES ASSUME IInv, BackedOff, [Next]_vars PROVE BackedOff'
  OBVIOUS
<1> USE DEF IInv, BackedOff
<1>1. CASE TickFires
  BY <1>1 DEF TickFires, TypeOK, world, history, Dated
<1>2. CASE Look
  BY <1>2 DEF Look, TypeOK, world, Dated
<1>3. CASE RunEnds
  BY <1>3, DatedIsTime DEF RunEnds, TypeOK, Dated, Due
<1>4. ASSUME Check PROVE BackedOff'
  <2>1. PICK after \in Expiries :
          /\ StoredExpiry(after)
          /\ backoff' = IF Due(after) THEN Backoff ELSE backoff
          /\ idle' = IF after = Unknown THEN Backoff ELSE idle
    BY <1>4 DEF Check
  <2>2. UNCHANGED stored /\ pc' = "waiting"
    BY <1>4 DEF Check, world
  <2>3. SUFFICES ASSUME after # Unknown, idle < Backoff PROVE BackedOff'
    BY <2>1, <2>2 DEF TypeOK
  <2>4. NotLater(after)
    BY <2>1, <2>2, ReadIsNotLater
  <2>5. Due(after)
    <3>1. CASE after = Zeroed
      BY <3>1 DEF Due
    <3>2. CASE Dated(after)
      BY <2>3, <2>4, <3>2, DatedIsTime DEF Due, NotLater, TypeOK
    <3>. QED
      BY <2>3, <3>1, <3>2 DEF Dated
  <2>. QED
    BY <2>1, <2>2, <2>3, <2>5 DEF TypeOK, Dated
<1>5. CASE RequestFetches
  BY <1>5 DEF RequestFetches, world, loop, Dated
<1>6. CASE RequestStores
  BY <1>6 DEF RequestStores, world, loop, history, Dated
<1>7. CASE RequestInvalidates
  BY <1>7 DEF RequestInvalidates, world, loop, history, Dated
<1>8. CASE OwnerRewrites
  BY <1>8 DEF OwnerRewrites, TypeOK
<1>9. CASE Settle
  BY <1>9 DEF Settle, loop, history, Dated
<1>10. ASSUME Elapse PROVE BackedOff'
  <2>1. SUFFICES ASSUME idle' < Backoff PROVE BackedOff'
    OBVIOUS
  <2>2. idle < Backoff /\ idle' = idle + 1 /\ pc \in {"waiting", "running"} /\ UNCHANGED pc
    BY <1>10, <2>1 DEF Elapse, TypeOK, Smaller
  <2>3. backoff' + idle' >= Backoff
    BY <1>10, <2>2 DEF Elapse, TypeOK, RunDown
  <2>4. Dated(stored') /\ stored' <= Lead
    <3>1. stored \in Int /\ -MaxOutage <= stored /\ -MaxOutage <= Lead /\ Dated(stored)
      BY <2>2, DatedIsTime DEF TypeOK, Times
    <3>2. stored' = AgedBy(stored)
      BY <1>10 DEF Elapse
    <3>3. stored' \in Expiries /\ Dated(stored')
      BY <3>1, <3>2, AgedIsExpiry DEF TypeOK
    <3>. QED
      BY <2>2, <3>1, <3>2, <3>3 DEF AgedBy, Larger
  <2>. QED
    BY <2>2, <2>3, <2>4
<1>11. CASE UNCHANGED vars
  BY <1>11 DEF vars, world, loop, history, Dated
<1>. QED
  BY <1>1, <1>2, <1>3, <1>4, <1>5, <1>6, <1>7, <1>8, <1>9, <1>10, <1>11 DEF Next

\* "A spawn that did not move the expiry backs off" for the whole of
\* FAILURE_BACKOFF, for any lengths of the times, whatever the memo holds and
\* requests and the owner do, unless the look after the run read nothing.
THEOREM RunBacksOff == Spec => FailedRunBacksOff
<1>1. Init => BackedOff
  BY DEF Init, BackedOff
<1>2. IInv /\ BackedOff /\ [Next]_vars => [Spawns => idle = Backoff]_vars
  <2> SUFFICES ASSUME IInv, BackedOff, Next, Spawns PROVE idle = Backoff
    BY DEF vars, world, loop, history, Spawns
  <2>1. Look
    BY DEF Next, Spawns, TickFires, RunEnds, Check, RequestFetches, RequestStores,
           RequestInvalidates, OwnerRewrites, Settle, Elapse, loop
  <2>2. backoff = 0
    BY <2>1 DEF Look, Spawns
  <2>. QED
    BY <2>2 DEF IInv, TypeOK, BackedOff, Spawns
<1>. QED
  BY <1>1, <1>2, Initial, Inductive, BackoffKept, PTL DEF Spec, FailedRunBacksOff

-----------------------------------------------------------------------------
(* The outage. *)

\* A remembered "login needed" that the store has left behind is as old as the
\* time it has been in memory, at most.
OldMarkers ==
  Dated(stored) =>
    /\ request # Nothing /\ request.exp = Zeroed => age + request.left <= FetchTime
    /\ memo # Nothing /\ memo.exp = Zeroed /\ memo.usable > 0 => age + memo.usable <= Ttl + FetchTime

\* Such a read is kept no longer than the floor, and fresh no longer than usable.
ShortLived ==
  memo # Nothing => /\ memo.fresh <= memo.usable
                    /\ memo.exp = Zeroed => memo.usable <= Ttl

\* How much of its life a credential has left, seen from the last rewrite, the
\* last back-off, and the last or the next tick.
LifeLeft ==
  clean /\ Dated(stored) =>
    /\ age < Ttl + FetchTime + 1 => stored >= Lifetime - age
    /\ backoff > 0 => stored >= Lifetime - Backoff + backoff
    /\ pc = "waiting" => stored > Lead - Tick + nextTick
    /\ pc = "looking" => stored > Lead - Tick
    /\ pc = "running" => stored > Lead - Tick - SpawnTimeout + running
    /\ pc = "checking" => stored = Lifetime

OInv == OldMarkers /\ ShortLived /\ LifeLeft

\* An entry is fresh for no longer than it is usable, and one of a zeroed expiry
\* for no longer than the floor.
LEMMA EntryIsShortLived ==
  ASSUME NEW e \in Expiries
  PROVE  /\ EntryOf(e).fresh <= EntryOf(e).usable
         /\ e = Zeroed => EntryOf(e).usable <= Ttl
<1>1. Remaining(e) \in Nat /\ (e = Zeroed => Remaining(e) = 0)
  BY DatedIsTime DEF Remaining, Larger, Dated
<1>. QED
  BY <1>1 DEF EntryOf, RefreshAfter, Larger, Smaller

\* A look through the memo remembers nothing that lives longer than it should.
LEMMA ReadIsShortLived ==
  ASSUME TypeOK, ShortLived, OldMarkers, NEW e \in Expiries, StoredExpiry(e), UNCHANGED <<stored, age, request>>
  PROVE  ShortLived' /\ OldMarkers'
<1>1. CASE UNCHANGED memo
  BY <1>1 DEF ShortLived, OldMarkers, Dated
<1>2. CASE memo' = EntryOf(e) /\ e \in Reading
  <2>1. memo'.exp = e /\ (e = Zeroed => ~Dated(stored))
    BY <1>2, EntryIsMemo DEF Reading, Dated
  <2>. QED
    BY <1>2, <2>1, EntryIsShortLived DEF ShortLived, OldMarkers, Dated
<1>. QED
  BY <1>1, <1>2 DEF StoredExpiry

\* A look that does not run `claude` has seen a credential with time to spare.
LEMMA SparedIsAlive ==
  ASSUME IInv, OInv, clean, Dated(stored), NEW e \in Expiries, StoredExpiry(e), ~Spoilt(e),
         UNCHANGED stored, NeedsRelogin(e) \/ backoff > 0 \/ ~Due(e)
  PROVE  stored > Lead
<1>. stored \in Int
  BY DatedIsTime DEF IInv, TypeOK
<1>1. CASE e = Zeroed
  <2>1. e \notin Reading
    BY <1>1 DEF Reading, Dated
  <2>2. memo # Nothing /\ memo.exp = Zeroed /\ memo.usable > 0
    BY <1>1, <2>1 DEF StoredExpiry, Fresh, Usable, OInv, ShortLived, IInv, TypeOK, Memos
  <2>. QED
    BY <2>2, RoomAssumption DEF IInv, TypeOK, OInv, OldMarkers, LifeLeft, Memos
<1>2. CASE backoff > 0
  BY <1>2, RoomAssumption DEF IInv, TypeOK, OInv, LifeLeft
<1>3. CASE e # Zeroed /\ ~Due(e)
  <2>1. Dated(e)
    BY <1>3 DEF Spoilt, Dated
  <2>2. NotLater(e)
    BY ReadIsNotLater DEF IInv
  <2>. QED
    BY <1>3, <2>1, <2>2, DatedIsTime DEF Due, NotLater
<1>. QED
  BY <1>1, <1>2, <1>3 DEF NeedsRelogin

\* The loop starts with a credential that outlives its next look.
LEMMA OInitial == Init => OInv
<1>. SUFFICES ASSUME Init PROVE OInv
  OBVIOUS
<1>1. OldMarkers /\ ShortLived
  BY DEF Init, OldMarkers, ShortLived
<1>2. clean => stored = Lifetime
  BY DEF Init
<1>3. LifeLeft
  BY <1>2 DEF Init, LifeLeft
<1>. QED
  BY <1>1, <1>3 DEF OInv

\* Every step leaves the credential the life its place in the loop needs.
LEMMA OInductive == IInv /\ OInv /\ [Next]_vars => OInv'
<1> SUFFICES ASSUME IInv, OInv, [Next]_vars PROVE OInv'
  OBVIOUS
<1> USE DEF OInv
<1>0. Dated(stored) => stored \in Int
  BY DatedIsTime DEF IInv, TypeOK
<1>1. CASE TickFires
  <2>1. UNCHANGED <<stored, memo, request, age, clean, backoff>> /\ pc = "waiting" /\ nextTick = 0 /\ pc' = "looking"
    BY <1>1 DEF TickFires, world, history
  <2>. QED
    BY <1>0, <2>1 DEF OldMarkers, ShortLived, LifeLeft, Dated
<1>2. ASSUME Look PROVE OInv'
  <2>1. PICK before \in Expiries :
          /\ StoredExpiry(before)
          /\ IF ~NeedsRelogin(before) /\ backoff = 0 /\ Due(before)
             THEN pc' = "running" /\ running' = SpawnTimeout
             ELSE pc' = "waiting" /\ UNCHANGED running
          /\ clean' = (clean /\ ~Spoilt(before))
    BY <1>2 DEF Look
  <2>2. UNCHANGED <<stored, request, nextTick, backoff, age>> /\ pc = "looking"
    BY <1>2 DEF Look, world
  <2>3. ShortLived' /\ OldMarkers'
    BY <2>1, <2>2, ReadIsShortLived DEF IInv
  <2>4. ASSUME clean', Dated(stored') PROVE LifeLeft'
    <3>1. clean /\ ~Spoilt(before) /\ Dated(stored)
      BY <2>1, <2>2, <2>4 DEF Dated
    <3>2. CASE pc' = "running" /\ running' = SpawnTimeout
      BY <1>0, <2>2, <3>1, <3>2 DEF LifeLeft, IInv, TypeOK
    <3>3. CASE pc' = "waiting" /\ (NeedsRelogin(before) \/ backoff > 0 \/ ~Due(before))
      <4>1. stored > Lead
        BY <2>1, <2>2, <3>1, <3>3, SparedIsAlive DEF OInv
      <4>. QED
        BY <1>0, <2>2, <3>1, <3>3, <4>1 DEF LifeLeft, IInv, TypeOK, Woken
    <3>. QED
      BY <2>1, <3>2, <3>3 DEF IInv, TypeOK
  <2>. QED
    BY <2>3, <2>4 DEF LifeLeft
<1>3. ASSUME RunEnds PROVE OInv'
  <2>1. memo' = Nothing /\ pc' = "checking" /\ UNCHANGED <<request, backoff>>
    BY <1>3 DEF RunEnds
  <2>2. CASE stored' = Lifetime /\ age' = 0
    BY <2>1, <2>2 DEF OldMarkers, ShortLived, LifeLeft, IInv, TypeOK, Fetches
  <2>3. CASE stored' = Zeroed
    BY <2>1, <2>3 DEF OldMarkers, ShortLived, LifeLeft, Dated
  <2>4. CASE clean' = FALSE /\ UNCHANGED <<stored, age>>
    BY <2>1, <2>4 DEF OldMarkers, ShortLived, LifeLeft, Dated
  <2>. QED
    BY <1>3, <2>2, <2>3, <2>4 DEF RunEnds
<1>4. ASSUME Check PROVE OInv'
  <2>1. PICK after \in Expiries :
          /\ StoredExpiry(after)
          /\ backoff' = IF Due(after) THEN Backoff ELSE backoff
          /\ clean' = (clean /\ ~Spoilt(after))
    BY <1>4 DEF Check
  <2>2. UNCHANGED <<stored, request, nextTick, age>> /\ pc = "checking" /\ pc' = "waiting"
    BY <1>4 DEF Check, world
  <2>3. ShortLived' /\ OldMarkers'
    BY <2>1, <2>2, ReadIsShortLived DEF IInv
  <2>4. ASSUME clean', Dated(stored') PROVE LifeLeft'
    <3>1. clean /\ Dated(stored) /\ stored = Lifetime
      BY <2>1, <2>2, <2>4 DEF LifeLeft, Dated
    <3>2. stored = Lifetime /\ age \in Nat /\ nextTick \in 0 .. Tick /\ backoff \in 0 .. Backoff
      BY <3>1 DEF IInv, TypeOK
    <3>3. backoff' = Backoff \/ backoff' = backoff
      BY <2>1
    <3>. QED
      BY <2>2, <3>2, <3>3 DEF LifeLeft
  <2>. QED
    BY <2>3, <2>4 DEF LifeLeft
<1>5. ASSUME RequestFetches PROVE OInv'
  <2>1. PICK e \in Reading :
          /\ request' = [exp |-> e, left |-> FetchTime]
          /\ clean' = (clean /\ ~Spoilt(e))
    BY <1>5 DEF RequestFetches
  <2>2. UNCHANGED <<stored, memo, age, pc, nextTick, backoff, running>>
    BY <1>5 DEF RequestFetches, world, loop
  <2>3. e = Zeroed => ~Dated(stored)
    BY DEF Reading, Dated
  <2>. QED
    BY <2>1, <2>2, <2>3 DEF OldMarkers, ShortLived, LifeLeft, Dated
<1>6. ASSUME RequestStores PROVE OInv'
  <2>1. request \in Fetches /\ request.exp \in Expiries /\ request.left \in 0 .. FetchTime
    BY <1>6 DEF RequestStores, IInv, TypeOK, Fetches
  <2>2. memo' = EntryOf(request.exp) /\ request' = Nothing /\ request # Nothing
        /\ UNCHANGED <<stored, age, clean, pc, nextTick, backoff, running>>
    BY <1>6 DEF RequestStores, world, loop, history
  <2>3. memo'.exp = request.exp /\ memo' \in Memos
    BY <2>1, <2>2, EntryIsMemo
  <2>4. ShortLived'
    BY <2>1, <2>2, <2>3, EntryIsShortLived DEF ShortLived
  <2>5. OldMarkers'
    BY <2>1, <2>2, <2>3, EntryIsShortLived DEF OldMarkers, Dated, IInv, TypeOK, Memos
  <2>. QED
    BY <2>2, <2>4, <2>5 DEF LifeLeft, Dated
<1>7. CASE RequestInvalidates
  BY <1>7 DEF RequestInvalidates, world, loop, history, OldMarkers, ShortLived, LifeLeft, Dated
<1>8. ASSUME OwnerRewrites PROVE OInv'
  <2>1. UNCHANGED <<memo, request, pc, nextTick, backoff, running>> /\ age' = 0
    BY <1>8 DEF OwnerRewrites, loop
  <2>2. ShortLived'
    BY <2>1 DEF ShortLived
  <2>3. OldMarkers'
    BY <2>1 DEF OldMarkers, ShortLived, IInv, TypeOK, Memos, Fetches
  <2>4. CASE stored' = Lifetime
    BY <2>1, <2>2, <2>3, <2>4 DEF LifeLeft, IInv, TypeOK, Timed
  <2>5. CASE clean' = FALSE
    BY <2>2, <2>3, <2>5 DEF LifeLeft
  <2>. QED
    BY <1>8, <2>4, <2>5 DEF OwnerRewrites
<1>9. CASE Settle
  BY <1>9 DEF Settle, loop, history, OldMarkers, ShortLived, LifeLeft, Dated
<1>10. ASSUME Elapse PROVE OInv'
  <2>1. /\ pc = "waiting" \/ (pc = "running" /\ running > 0)
        /\ nextTick' = nextTick - 1 /\ backoff' = RunDown(backoff) /\ running' = RunDown(running)
        /\ stored' = AgedBy(stored) /\ age' = Smaller(age + 1, Ttl + FetchTime + 1)
        /\ UNCHANGED <<pc, clean>>
    BY <1>10 DEF Elapse
  <2>2. ASSUME memo # Nothing
        PROVE  /\ memo' # Nothing /\ memo'.exp = AgedBy(memo.exp)
               /\ memo'.fresh = RunDown(memo.fresh) /\ memo'.usable = RunDown(memo.usable)
               /\ memo.fresh \in 0 .. MaxTtl /\ memo.usable \in 0 .. MaxTtl /\ memo.exp \in Expiries
    <3>1. memo \in Memos
      BY <2>2 DEF IInv, TypeOK
    <3>2. memo' = [exp |-> AgedBy(memo.exp), fresh |-> RunDown(memo.fresh), usable |-> RunDown(memo.usable)]
      BY <1>10, <2>2 DEF Elapse
    <3>3. memo' \in Memos
      BY <3>1, <3>2, AgedIsExpiry DEF Memos, RunDown
    <3>. QED
      BY <3>1, <3>2, <3>3 DEF Memos
  <2>3. ASSUME request # Nothing
        PROVE  /\ request' # Nothing /\ request'.exp = AgedBy(request.exp) /\ request'.left = request.left - 1
               /\ request.left \in 1 .. FetchTime /\ request.exp \in Expiries
    <3>1. request \in Fetches
      BY <2>3 DEF IInv, TypeOK
    <3>2. request' = [exp |-> AgedBy(request.exp), left |-> request.left - 1] /\ request.left > 0
      BY <1>10, <2>3 DEF Elapse
    <3>3. request' \in Fetches
      BY <3>1, <3>2, AgedIsExpiry DEF Fetches
    <3>. QED
      BY <3>1, <3>2, <3>3 DEF Fetches
  <2>4. (memo = Nothing => memo' = Nothing) /\ (request = Nothing => request' = Nothing)
    BY <1>10 DEF Elapse
  <2>5. \A e \in Expiries : AgedBy(e) = Zeroed <=> e = Zeroed
    BY AgedIsExpiry DEF AgedBy, Dated
  <2>6. Dated(stored') <=> Dated(stored)
    BY <2>1, AgedIsExpiry DEF IInv, TypeOK
  <2>7. ShortLived'
    BY <2>2, <2>4, <2>5 DEF ShortLived, RunDown
  <2>8. OldMarkers'
    <3>1. age \in Nat /\ age' <= age + 1
      BY <2>1 DEF IInv, TypeOK, Smaller
    <3>2. age' \in Nat
      BY <2>1 DEF IInv, TypeOK, Smaller
    <3>. QED
      BY <2>2, <2>3, <2>4, <2>5, <2>6, <3>1, <3>2 DEF OldMarkers, RunDown
  <2>9. ASSUME clean', Dated(stored') PROVE LifeLeft'
    <3>1. stored \in Int /\ stored' \in Int /\ stored' >= stored - 1 /\ clean /\ Dated(stored)
      BY <1>0, <2>1, <2>6, <2>9 DEF AgedBy, Larger
    <3>2. age' < Ttl + FetchTime + 1 => age' = age + 1 /\ age < Ttl + FetchTime + 1
      BY <2>1 DEF IInv, TypeOK, Smaller
    <3>3. backoff' > 0 => backoff > 0 /\ backoff' = backoff - 1
      BY <2>1 DEF IInv, TypeOK, RunDown
    <3>4. age' < Ttl + FetchTime + 1 => stored' >= Lifetime - age'
      BY <3>1, <3>2 DEF LifeLeft, IInv, TypeOK
    <3>5. backoff' > 0 => stored' >= Lifetime - Backoff + backoff'
      BY <3>1, <3>3 DEF LifeLeft, IInv, TypeOK
    <3>6. CASE pc = "waiting"
      BY <2>1, <3>1, <3>4, <3>5, <3>6 DEF LifeLeft, IInv, TypeOK
    <3>7. CASE pc = "running" /\ running > 0
      BY <2>1, <3>1, <3>4, <3>5, <3>7 DEF LifeLeft, IInv, TypeOK, RunDown
    <3>. QED
      BY <2>1, <3>6, <3>7
  <2>. QED
    BY <2>7, <2>8, <2>9 DEF LifeLeft
<1>11. CASE UNCHANGED vars
  BY <1>11 DEF vars, world, loop, history, OldMarkers, ShortLived, LifeLeft, Dated
<1>. QED
  BY <1>1, <1>2, <1>3, <1>4, <1>5, <1>6, <1>7, <1>8, <1>9, <1>10, <1>11 DEF Next

\* TICK is the worst-case outage while nothing fails, provided a run fits in
\* LEAD and a fresh credential outlives the back-off: for any such times.
THEOREM OutageIsBounded == Spec => []OutageBounded
<1>1. IInv /\ OInv => OutageBounded
  <2> SUFFICES ASSUME IInv, OInv, clean, Dated(stored) PROVE stored > -Tick
    BY DEF OutageBounded
  <2>1. stored \in Int
    BY DatedIsTime DEF IInv, TypeOK
  <2>2. /\ pc = "waiting" => stored > Lead - Tick + nextTick
        /\ pc = "looking" => stored > Lead - Tick
        /\ pc = "running" => stored > Lead - Tick - SpawnTimeout + running
        /\ pc = "checking" => stored = Lifetime
    BY DEF OInv, LifeLeft
  <2>3. pc \in {"waiting", "looking", "running", "checking"} /\ nextTick \in Nat /\ running \in Nat
    BY DEF IInv, TypeOK
  <2>. QED
    BY <2>1, <2>2, <2>3, RoomAssumption
<1>. QED
  BY <1>1, Initial, Inductive, OInitial, OInductive, PTL DEF Spec

=============================================================================
