------------------------ MODULE ConcurrencyCapProofs ------------------------
(***************************************************************************)
(* Proofs about ConcurrencyCap, for every finite set of requests and every *)
(* cap.  The inductive invariant joins the type invariant with the three   *)
(* facts that need each other: an exit path may return a permit because    *)
(* the request owns one (PermitCoversCalls); returning it keeps the        *)
(* counter in range because owned and free add up (PermitsAccounted); and  *)
(* it goes to a waiter or to the counter so that neither starves           *)
(* (NoIdlePermit).                                                         *)
(***************************************************************************)
EXTENDS ConcurrencyCap, FiniteSetTheorems, TLAPS

\* A permit is held exactly between admission and the end, and an upstream
\* call is only ever open under a held permit.
PermitCoversCalls ==
  \A r \in Requests :
    /\ permit[r] = "held" <=> pc[r] \in Admitted
    /\ permit[r] = "assigned" => pc[r] = "queued"
    /\ calls[r] > 0 => pc[r] \in Admitted

IInv == TypeOK /\ PermitCoversCalls /\ PermitsAccounted /\ NoIdlePermit

-----------------------------------------------------------------------------
(* Counting the owners of permits. *)

LEMMA HoldingFinite ==
  ASSUME NEW p
  PROVE  /\ IsFiniteSet(Holding(p))
         /\ Cardinality(Holding(p)) \in Nat
<1>1. Holding(p) \subseteq Requests
  BY DEF Holding
<1>2. QED
  BY <1>1, RequestsAssumption, FS_Subset, FS_CardinalityType

\* What giving a permit back does to the semaphores: the one place where a
\* slip would leak a permit, duplicate one or leave a waiter asleep.
LEMMA ReleaseKeepsCount ==
  ASSUME IInv,
         NEW r \in Requests, permit[r] # "none",
         NEW how \in Ended,
         Release(r),
         pc' = [pc EXCEPT ![r] = how],
         provider' = provider
  PROVE  /\ free' \in [Providers -> 0 .. Cap]
         /\ permit' \in [Requests -> {"none", "assigned", "held"}]
         /\ PermitsAccounted'
         /\ NoIdlePermit'
         /\ permit'[r] = "none"
         /\ \A q \in Requests \ {r} :
              \/ permit'[q] = permit[q]
              \/ permit[q] = "none" /\ permit'[q] = "assigned" /\ pc[q] = "queued"
<1> DEFINE p0 == provider[r]
<1>0. /\ p0 \in Providers /\ r \in Holding(p0) /\ Cap \in Nat
      /\ \A p \in Providers : r \notin Waiting(p)
      /\ free \in [Providers -> 0 .. Cap]
      /\ free[p0] + Cardinality(Holding(p0)) = Cap
  BY CapAssumption DEF IInv, TypeOK, Holding, Waiting, PermitsAccounted
<1>1. CASE /\ Waiting(p0) = {}
           /\ free' = [free EXCEPT ![p0] = @ + 1]
           /\ permit' = [permit EXCEPT ![r] = "none"]
  <2>1. \A p \in Providers : Holding(p)' = IF p = p0 THEN Holding(p) \ {r} ELSE Holding(p)
    BY <1>1 DEF IInv, TypeOK, Holding
  <2>2. Cardinality(Holding(p0) \ {r}) = Cardinality(Holding(p0)) - 1
    BY <1>0, HoldingFinite, FS_RemoveElement
  <2>3. Cardinality(Holding(p0) \ {r}) \in Nat
    BY HoldingFinite, FS_RemoveElement, FS_CardinalityType
  <2>4. PermitsAccounted'
    <3>1. Cardinality(Holding(p0)) \in Nat /\ free[p0] \in Nat
      BY <1>0, HoldingFinite
    <3>2. free'[p0] + Cardinality(Holding(p0) \ {r}) = Cap
      BY <1>0, <1>1, <2>2, <3>1
    <3>3. \A p \in Providers \ {p0} : free'[p] = free[p]
      BY <1>0, <1>1
    <3>4. QED
      BY <2>1, <3>2, <3>3 DEF IInv, PermitsAccounted
  <2>5. free' \in [Providers -> 0 .. Cap]
    BY <1>0, <1>1, <2>2, <2>3, HoldingFinite
  <2>6. \A p \in Providers : Waiting(p)' \subseteq Waiting(p)
    BY <1>1 DEF IInv, TypeOK, Waiting, Ended
  <2>7. NoIdlePermit'
    BY <1>0, <1>1, <2>6 DEF IInv, NoIdlePermit
  <2>8. QED
    BY <1>1, <2>4, <2>5, <2>7 DEF IInv, TypeOK
<1>2. ASSUME NEW w \in FirstWaiting(p0),
             permit' = [permit EXCEPT ![r] = "none", ![w] = "assigned"],
             UNCHANGED free
      PROVE  /\ free' \in [Providers -> 0 .. Cap]
             /\ permit' \in [Requests -> {"none", "assigned", "held"}]
             /\ PermitsAccounted'
             /\ NoIdlePermit'
             /\ permit'[r] = "none"
             /\ \A q \in Requests \ {r} :
                  \/ permit'[q] = permit[q]
                  \/ permit[q] = "none" /\ permit'[q] = "assigned" /\ pc[q] = "queued"
  <2>0. /\ w \in Requests /\ w # r /\ w \in Waiting(p0) /\ provider[w] = p0
        /\ pc[w] = "queued" /\ permit[w] = "none"
    BY <1>0 DEF FirstWaiting, Waiting
  <2>1. \A p \in Providers :
           Holding(p)' = IF p = p0 THEN (Holding(p) \ {r}) \cup {w} ELSE Holding(p)
    BY <1>2, <2>0 DEF IInv, TypeOK, Holding
  <2>2. /\ IsFiniteSet(Holding(p0) \ {r})
        /\ Cardinality(Holding(p0) \ {r}) = Cardinality(Holding(p0)) - 1
        /\ w \notin Holding(p0) \ {r}
    BY <1>0, <2>0, HoldingFinite, FS_RemoveElement DEF Holding
  <2>3. Cardinality((Holding(p0) \ {r}) \cup {w}) = Cardinality(Holding(p0))
    <3>1. Cardinality((Holding(p0) \ {r}) \cup {w}) = Cardinality(Holding(p0) \ {r}) + 1
      BY <2>2, FS_AddElement
    <3>2. Cardinality(Holding(p0)) \in Nat
      BY HoldingFinite
    <3>3. QED
      BY <2>2, <3>1, <3>2
  <2>4. PermitsAccounted'
    BY <1>0, <1>2, <2>1, <2>3 DEF IInv, PermitsAccounted
  <2>5. \A p \in Providers : Waiting(p)' \subseteq Waiting(p)
    BY <1>2, <2>0 DEF IInv, TypeOK, Waiting, Ended
  <2>6. NoIdlePermit'
    BY <1>2, <2>5 DEF IInv, NoIdlePermit
  <2>7. permit' \in [Requests -> {"none", "assigned", "held"}]
    BY <1>2, <2>0 DEF IInv, TypeOK
  <2>8. /\ permit'[r] = "none"
        /\ \A q \in Requests \ {r} :
             \/ permit'[q] = permit[q]
             \/ permit[q] = "none" /\ permit'[q] = "assigned" /\ pc[q] = "queued"
    BY <1>2, <2>0 DEF IInv, TypeOK
  <2>9. QED
    BY <1>0, <1>2, <2>4, <2>6, <2>7, <2>8
<1>3. QED
  BY <1>1, <1>2 DEF Release

-----------------------------------------------------------------------------
(* The two ways a step moves a request that owns its permit. *)

LEMMA EndKeepsIInv ==
  ASSUME IInv, NEW r \in Requests, permit[r] # "none", NEW how \in Ended, End(r, how)
  PROVE  IInv'
<1>1. /\ Release(r) /\ pc' = [pc EXCEPT ![r] = how] /\ calls' = [calls EXCEPT ![r] = 0]
      /\ UNCHANGED <<provider, attached, ticket, tickets>>
  BY DEF End
<1>2. /\ free' \in [Providers -> 0 .. Cap]
      /\ permit' \in [Requests -> {"none", "assigned", "held"}]
      /\ PermitsAccounted'
      /\ NoIdlePermit'
      /\ permit'[r] = "none"
      /\ \A q \in Requests \ {r} :
           \/ permit'[q] = permit[q]
           \/ permit[q] = "none" /\ permit'[q] = "assigned" /\ pc[q] = "queued"
  BY <1>1, ReleaseKeepsCount
<1>3. TypeOK'
  <2>1. pc' \in [Requests -> {"new", "queued"} \cup Admitted \cup Ended]
    BY <1>1 DEF IInv, TypeOK
  <2>2. calls' \in [Requests -> 0 .. 2]
    BY <1>1 DEF IInv, TypeOK
  <2>3. QED
    BY <1>1, <1>2, <2>1, <2>2 DEF IInv, TypeOK
<1>4. PermitCoversCalls'
  BY <1>1, <1>2 DEF IInv, TypeOK, PermitCoversCalls, Admitted, Ended
<1>5. QED
  BY <1>2, <1>3, <1>4 DEF IInv

\* A step of a request that keeps its permit.
LEMMA ProceedKeepsIInv ==
  ASSUME IInv, NEW r \in Requests, pc[r] \in Admitted,
         NEW to \in Admitted, NEW open \in 0 .. 2, Proceed(r, to, open)
  PROVE  IInv'
<1>1. /\ pc' = [pc EXCEPT ![r] = to] /\ calls' = [calls EXCEPT ![r] = open]
      /\ UNCHANGED <<provider, attached, free, permit, ticket, tickets>>
  BY DEF Proceed
<1>2. TypeOK'
  BY <1>1 DEF IInv, TypeOK, Admitted
<1>3. PermitCoversCalls'
  BY <1>1 DEF IInv, TypeOK, PermitCoversCalls, Admitted
<1>4. \A p \in Providers : Holding(p)' = Holding(p) /\ Waiting(p)' = Waiting(p)
  BY <1>1 DEF IInv, TypeOK, Holding, Waiting, Admitted
<1>5. PermitsAccounted' /\ NoIdlePermit'
  BY <1>1, <1>4 DEF IInv, PermitsAccounted, NoIdlePermit
<1>6. QED
  BY <1>2, <1>3, <1>5 DEF IInv

\* Handing the response on keeps the permit too.
LEMMA DeliverKeepsIInv ==
  ASSUME IInv, NEW r \in Requests, pc[r] \in Admitted, Deliver(r)
  PROVE  IInv'
<1>1. "streaming" \in Admitted /\ "buffering" \in Admitted /\ 1 \in 0 .. 2
  BY DEF Admitted
<1>2. QED
  BY <1>1, ProceedKeepsIInv DEF Deliver

\* A request that owns no permit and leaves, or enters, the queue.
LEMMA QueueingKeepsIInv ==
  ASSUME IInv, NEW r \in Requests,
         ArriveBusy(r) \/ QueueTimeout(r) \/ LeaveQueue(r)
  PROVE  IInv'
<1>1. /\ UNCHANGED <<provider, attached, free, permit, calls>>
      /\ permit[r] = "none"
      /\ \E to \in {"queued"} \cup Ended :
           /\ pc' = [pc EXCEPT ![r] = to]
           /\ to = "queued" => free[provider[r]] = 0
      /\ pc[r] \notin Admitted
  BY DEF ArriveBusy, QueueTimeout, LeaveQueue, Ended, Admitted, IInv, PermitCoversCalls, TypeOK
<1>2. /\ ticket' \in [Requests -> Nat]
      /\ tickets' \in Nat
  BY DEF ArriveBusy, QueueTimeout, LeaveQueue, IInv, TypeOK
<1>3. TypeOK'
  <2>1. pc' \in [Requests -> {"new", "queued"} \cup Admitted \cup Ended]
    BY <1>1 DEF IInv, TypeOK
  <2>2. QED
    BY <1>1, <1>2, <2>1 DEF IInv, TypeOK
<1>4. PermitCoversCalls'
  BY <1>1 DEF IInv, TypeOK, PermitCoversCalls, Admitted, Ended
<1>5. \A p \in Providers : Holding(p)' = Holding(p)
  BY <1>1 DEF Holding
<1>6. PermitsAccounted'
  BY <1>1, <1>5 DEF IInv, PermitsAccounted
<1>7. \A p \in Providers : Waiting(p)' # {} => Waiting(p) # {} \/ free[p] = 0
  BY <1>1 DEF IInv, TypeOK, Waiting, Ended
<1>8. NoIdlePermit'
  BY <1>1, <1>7 DEF IInv, NoIdlePermit
<1>9. QED
  BY <1>3, <1>4, <1>6, <1>8 DEF IInv

\* An arrival that finds a permit takes it from the counter.
LEMMA ArriveFreeKeepsIInv ==
  ASSUME IInv, NEW r \in Requests, ArriveFree(r)
  PROVE  IInv'
<1> DEFINE p0 == provider[r]
<1>1. /\ p0 \in Providers /\ r \notin Holding(p0)
      /\ free \in [Providers -> 0 .. Cap] /\ free[p0] > 0 /\ Cap \in Nat
  BY CapAssumption DEF IInv, TypeOK, ArriveFree, Holding, PermitCoversCalls, Admitted
<1>2. TypeOK'
  BY <1>1 DEF IInv, TypeOK, ArriveFree, Admitted
<1>3. PermitCoversCalls'
  BY DEF IInv, TypeOK, PermitCoversCalls, ArriveFree, Admitted
<1>4. \A p \in Providers : Holding(p)' = IF p = p0 THEN Holding(p) \cup {r} ELSE Holding(p)
  BY DEF IInv, TypeOK, ArriveFree, Holding
<1>5. Cardinality(Holding(p0) \cup {r}) = Cardinality(Holding(p0)) + 1
  BY <1>1, HoldingFinite, FS_AddElement
<1>6. PermitsAccounted'
  BY <1>1, <1>4, <1>5, HoldingFinite DEF IInv, PermitsAccounted, ArriveFree
<1>7. \A p \in Providers : Waiting(p)' \subseteq Waiting(p)
  BY DEF IInv, TypeOK, ArriveFree, Waiting
<1>8. NoIdlePermit'
  BY <1>1, <1>7 DEF IInv, NoIdlePermit, ArriveFree
<1>9. QED
  BY <1>2, <1>3, <1>6, <1>8 DEF IInv

\* A woken waiter proceeds with the permit it was assigned.
LEMMA GrantedKeepsIInv ==
  ASSUME IInv, NEW r \in Requests, Granted(r)
  PROVE  IInv'
<1>1. TypeOK'
  BY DEF IInv, TypeOK, Granted, Admitted
<1>2. PermitCoversCalls'
  BY DEF IInv, TypeOK, PermitCoversCalls, Granted, Admitted
<1>3. \A p \in Providers : Holding(p)' = Holding(p) /\ Waiting(p)' = Waiting(p)
  BY DEF IInv, TypeOK, Granted, Holding, Waiting
<1>4. PermitsAccounted' /\ NoIdlePermit'
  BY <1>3 DEF IInv, PermitsAccounted, NoIdlePermit, Granted
<1>5. QED
  BY <1>1, <1>2, <1>4 DEF IInv

-----------------------------------------------------------------------------
(* The inductive invariant. *)

LEMMA InitIInv == Init => IInv
<1> SUFFICES ASSUME Init PROVE IInv
  OBVIOUS
<1>1. TypeOK
  BY CapAssumption DEF Init, TypeOK
<1>2. PermitCoversCalls
  BY DEF Init, PermitCoversCalls, Admitted
<1>3. \A p \in Providers : Holding(p) = {} /\ Waiting(p) = {}
  BY DEF Init, Holding, Waiting
<1>4. PermitsAccounted /\ NoIdlePermit
  BY <1>3, FS_EmptySet, CapAssumption DEF Init, PermitsAccounted, NoIdlePermit
<1>5. QED
  BY <1>1, <1>2, <1>4 DEF IInv

\* Every step keeps the inductive invariant.
LEMMA NextIInv == IInv /\ [Next]_vars => IInv'
<1> SUFFICES ASSUME IInv, [Next]_vars PROVE IInv'
  OBVIOUS
<1>1. ASSUME NEW r \in Requests, Handler(r) PROVE IInv'
  <2>0. \A s \in Requests : pc[s] \in Admitted => permit[s] # "none"
    BY DEF IInv, PermitCoversCalls, TypeOK
  <2>1. CASE ArriveFree(r)
    BY <2>1, ArriveFreeKeepsIInv
  <2>2. CASE ArriveBusy(r)
    BY <2>2, QueueingKeepsIInv
  <2>3. CASE Granted(r)
    BY <2>3, GrantedKeepsIInv
  <2>4. CASE QueueTimeout(r)
    BY <2>4, QueueingKeepsIInv
  <2>5. CASE ReadBody(r)
    <3>1. "sending" \in Admitted /\ 1 \in 0 .. 2 /\ pc[r] \in Admitted
      BY <2>5 DEF ReadBody, Admitted
    <3>2. QED
      BY <2>5, <3>1, ProceedKeepsIInv DEF ReadBody
  <2>6. CASE RejectBody(r)
    BY <2>0, <2>6, EndKeepsIInv DEF RejectBody, Admitted, Ended
  <2>7. CASE Fail(r)
    BY <2>0, <2>7, EndKeepsIInv DEF Fail, Admitted, Ended
  <2>8. CASE FirstAnswer(r)
    <3>1. "recovering" \in Admitted /\ 1 \in 0 .. 2 /\ pc[r] \in Admitted
      BY <2>8 DEF FirstAnswer, Admitted
    <3>2. QED
      BY <2>8, <3>1, DeliverKeepsIInv, ProceedKeepsIInv DEF FirstAnswer
  <2>9. CASE FindFresh(r)
    <3>1. "resending" \in Admitted /\ 2 \in 0 .. 2 /\ pc[r] \in Admitted
      BY <2>9 DEF FindFresh, Admitted
    <3>2. QED
      BY <2>9, <3>1, ProceedKeepsIInv DEF FindFresh
  <2>10. CASE NoFresh(r)
    <3>1. pc[r] \in Admitted /\ "explained" \in Ended
      BY <2>10 DEF NoFresh, Admitted, Ended
    <3>2. QED
      BY <2>0, <2>10, <3>1, EndKeepsIInv, DeliverKeepsIInv DEF NoFresh
  <2>11. CASE SecondAnswer(r)
    <3>1. pc[r] \in Admitted /\ "explained" \in Ended
      BY <2>11 DEF SecondAnswer, Admitted, Ended
    <3>2. QED
      BY <2>0, <2>11, <3>1, EndKeepsIInv, DeliverKeepsIInv DEF SecondAnswer
  <2>12. CASE BodyEnds(r)
    BY <2>0, <2>12, EndKeepsIInv DEF BodyEnds, Admitted, Ended
  <2>13. QED
    BY <1>1, <2>1, <2>2, <2>3, <2>4, <2>5, <2>6, <2>7, <2>8, <2>9, <2>10,
       <2>11, <2>12 DEF Handler
<1>2. ASSUME NEW r \in Requests, LeaveQueue(r) PROVE IInv'
  BY <1>2, QueueingKeepsIInv
<1>3. ASSUME NEW r \in Requests, LeaveHolding(r) PROVE IInv'
  <2>1. permit[r] # "none" /\ "gone" \in Ended
    BY <1>3 DEF LeaveHolding, IInv, PermitCoversCalls, TypeOK, Ended
  <2>2. QED
    BY <1>3, <2>1, EndKeepsIInv DEF LeaveHolding
<1>4. CASE UNCHANGED vars
  <2>1. \A p \in Providers : Holding(p)' = Holding(p) /\ Waiting(p)' = Waiting(p)
    BY <1>4 DEF vars, Holding, Waiting
  <2>2. PermitsAccounted' /\ NoIdlePermit'
    BY <1>4, <2>1 DEF vars, IInv, PermitsAccounted, NoIdlePermit
  <2>3. TypeOK' /\ PermitCoversCalls'
    BY <1>4 DEF vars, IInv, TypeOK, PermitCoversCalls
  <2>4. QED
    BY <2>2, <2>3 DEF IInv
<1>5. QED
  BY <1>1, <1>2, <1>3, <1>4 DEF Next, Client

\* The inductive invariant holds throughout: permits cover open calls, add up
\* to the cap, and none is idle while a request waits.
THEOREM InductiveInvariant == Spec => []IInv
BY InitIInv, NextIInv, PTL DEF Spec

\* Every variable keeps its type; the count of free permits stays within the
\* cap although every exit path adds one.
THEOREM TypeCorrect == Spec => []TypeOK
<1>1. IInv => TypeOK
  BY DEF IInv
<1>2. QED
  BY <1>1, InductiveInvariant, PTL

\* forward loses and duplicates no permit on any of its exit paths.
THEOREM NoPermitLost == Spec => []PermitsAccounted
<1>1. IInv => PermitsAccounted
  BY DEF IInv
<1>2. QED
  BY <1>1, InductiveInvariant, PTL

\* A permit is never free while a request of that provider waits for one.
THEOREM NoLostWakeup == Spec => []NoIdlePermit
<1>1. IInv => NoIdlePermit
  BY DEF IInv
<1>2. QED
  BY <1>1, InductiveInvariant, PTL

\* The cap: never more than Cap requests with a call open to one provider.
THEOREM CapRespected == Spec => []CallsWithinCap
<1>1. IInv => CallsWithinCap
  <2> SUFFICES ASSUME IInv, NEW p \in Providers
               PROVE  Cardinality({r \in Requests : calls[r] > 0 /\ provider[r] = p}) =< Cap
    BY DEF CallsWithinCap
  <2> DEFINE Open == {r \in Requests : calls[r] > 0 /\ provider[r] = p}
  <2>1. Open \subseteq Holding(p)
    BY DEF IInv, PermitCoversCalls, TypeOK, Holding
  <2>2. /\ Cardinality(Open) =< Cardinality(Holding(p))
        /\ Cardinality(Open) \in Nat
    BY <2>1, HoldingFinite, FS_Subset, FS_CardinalityType
  <2>3. Cardinality(Holding(p)) =< Cap
    <3>1. /\ free[p] \in 0 .. Cap
          /\ Cardinality(Holding(p)) \in Nat
          /\ free[p] + Cardinality(Holding(p)) = Cap
          /\ Cap \in Nat
      BY CapAssumption, HoldingFinite DEF IInv, TypeOK, PermitsAccounted
    <3>2. QED
      BY <3>1
  <2>4. Cap \in Nat /\ Cardinality(Holding(p)) \in Nat
    BY CapAssumption, HoldingFinite
  <2>5. QED
    BY <2>2, <2>3, <2>4
<1>2. QED
  BY <1>1, InductiveInvariant, PTL

-----------------------------------------------------------------------------
(* Refinement of CappedCalls. *)

\* Under phaseOf the abstract calling and waiting requests are the concrete
\* owners of permits and the concrete queue.
LEMMA PromiseSets ==
  ASSUME IInv, NEW p \in Providers
  PROVE  /\ Promise!Calling(p) = Holding(p)
         /\ Promise!Waiting(p) = Waiting(p)
         /\ Promise!Saturated(p) <=> free[p] = 0
<1>1. Promise!Calling(p) = Holding(p)
  BY DEF IInv, TypeOK, PermitCoversCalls, Promise!Calling, Holding, phaseOf, Ended, Admitted
<1>2. Promise!Waiting(p) = Waiting(p)
  BY DEF IInv, TypeOK, PermitCoversCalls, Promise!Waiting, Waiting, phaseOf, Ended, Admitted
<1>3. Promise!Saturated(p) <=> free[p] = 0
  <2>1. /\ free[p] \in Nat /\ Cap \in Nat /\ Cardinality(Holding(p)) \in Nat
        /\ free[p] + Cardinality(Holding(p)) = Cap
    BY CapAssumption, HoldingFinite DEF IInv, TypeOK, PermitsAccounted
  <2>2. Promise!Saturated(p) <=> Cardinality(Holding(p)) = Cap
    BY <1>1, Zenon DEF Promise!Saturated, Promise!Cardinality, Cardinality
  <2>3. QED
    BY <2>1, <2>2
<1>4. QED
  BY <1>1, <1>2, <1>3

\* A request that ends frees its slot, or hands it to a waiter, as promised.
LEMMA EndIsAbstract ==
  ASSUME IInv, NEW r \in Requests, permit[r] # "none",
         NEW how \in Ended, how # "refused", End(r, how)
  PROVE  Promise!Next
<1> USE DEF IInv, TypeOK
<1>1. /\ pc' = [pc EXCEPT ![r] = how] /\ UNCHANGED provider /\ provider[r] \in Providers
      /\ phaseOf[r] = "calling"
  BY DEF End, phaseOf, PermitCoversCalls, Ended, Admitted
<1>2. CASE /\ Waiting(provider[r]) = {}
           /\ permit' = [permit EXCEPT ![r] = "none"]
  <2>1. phaseOf' = [phaseOf EXCEPT ![r] = "over"]
    BY <1>1, <1>2 DEF phaseOf, Ended
  <2>2. Promise!Waiting(provider[r]) = {}
    BY <1>1, <1>2, PromiseSets
  <2>3. Promise!Leave(r)
    BY <1>1, <2>1, <2>2 DEF Promise!Leave
  <2>4. QED
    BY <2>3 DEF Promise!Next
<1>3. ASSUME NEW w \in FirstWaiting(provider[r]),
             permit' = [permit EXCEPT ![r] = "none", ![w] = "assigned"]
      PROVE  Promise!Next
  <2>1. w \in Waiting(provider[r]) /\ w \in Requests /\ w # r /\ pc[w] = "queued"
    BY <1>3 DEF FirstWaiting, Waiting
  <2>2. phaseOf' = [phaseOf EXCEPT ![r] = "over", ![w] = "calling"]
    BY <1>1, <1>3, <2>1 DEF phaseOf, Ended
  <2>3. w \in Promise!Waiting(provider[r])
    BY <1>1, <2>1, PromiseSets
  <2>4. Promise!HandOver(r, w)
    BY <1>1, <2>2, <2>3 DEF Promise!HandOver
  <2>5. QED
    BY <2>1, <2>4 DEF Promise!Next
<1>4. QED
  BY <1>2, <1>3 DEF End, Release

\* A caller sees nothing of the steps between admission and end.
LEMMA ProceedIsStutter ==
  ASSUME IInv, NEW r \in Requests, pc[r] \in Admitted,
         NEW to \in Admitted, NEW open, Proceed(r, to, open)
  PROVE  UNCHANGED Promise!vars
<1>1. phaseOf' = phaseOf
  BY DEF IInv, TypeOK, Proceed, phaseOf, Admitted, Ended
<1>2. QED
  BY <1>1 DEF Promise!vars, Proceed

\* Nor of the response being handed on.
LEMMA DeliverIsStutter ==
  ASSUME IInv, NEW r \in Requests, pc[r] \in Admitted, Deliver(r)
  PROVE  UNCHANGED Promise!vars
<1>1. "streaming" \in Admitted /\ "buffering" \in Admitted
  BY DEF Admitted
<1>2. QED
  BY <1>1, ProceedIsStutter DEF Deliver

\* The gateway starts where the promise starts.
LEMMA InitIsAbstract == Init => Promise!Init
BY DEF Init, Promise!Init, phaseOf

\* Every step of the gateway is a step of the promise or none.
LEMMA StepIsAbstract == IInv /\ [Next]_vars => [Promise!Next]_(Promise!vars)
<1> SUFFICES ASSUME IInv, [Next]_vars
             PROVE  Promise!Next \/ UNCHANGED Promise!vars
  OBVIOUS
<1>0. \A s \in Requests : pc[s] \in Admitted => permit[s] # "none"
  BY DEF IInv, PermitCoversCalls, TypeOK
<1>1. ASSUME NEW r \in Requests, Handler(r)
      PROVE  Promise!Next \/ UNCHANGED Promise!vars
  <2>0. provider[r] \in Providers /\ free[provider[r]] \in Nat
    BY DEF IInv, TypeOK
  <2>1. CASE ArriveFree(r)
    <3>1. phaseOf[r] = "new" /\ phaseOf' = [phaseOf EXCEPT ![r] = "calling"]
      BY <2>1 DEF ArriveFree, phaseOf, IInv, TypeOK, Ended
    <3>2. ~Promise!Saturated(provider[r])
      BY <2>0, <2>1, PromiseSets DEF ArriveFree
    <3>3. QED
      BY <2>1, <3>1, <3>2 DEF Promise!Next, Promise!Admit, ArriveFree
  <2>2. CASE ArriveBusy(r)
    <3>1. phaseOf[r] = "new" /\ phaseOf' = [phaseOf EXCEPT ![r] = "waiting"]
      BY <2>2 DEF ArriveBusy, phaseOf, IInv, TypeOK, PermitCoversCalls, Ended, Admitted
    <3>2. Promise!Saturated(provider[r])
      BY <2>0, <2>2, PromiseSets DEF ArriveBusy
    <3>3. QED
      BY <2>2, <3>1, <3>2 DEF Promise!Next, Promise!Queue, ArriveBusy
  <2>3. CASE Granted(r)
    <3>1. phaseOf' = phaseOf
      BY <2>3 DEF Granted, phaseOf, IInv, TypeOK, Ended
    <3>2. QED
      BY <2>3, <3>1 DEF Promise!vars, Granted
  <2>4. CASE QueueTimeout(r)
    <3>1. phaseOf[r] = "waiting" /\ phaseOf' = [phaseOf EXCEPT ![r] = "refused"]
      BY <2>4 DEF QueueTimeout, phaseOf, IInv, TypeOK, Ended
    <3>2. r \in Waiting(provider[r])
      BY <2>4 DEF QueueTimeout, Waiting
    <3>3. Promise!Saturated(provider[r])
      BY <2>0, <3>2, PromiseSets DEF IInv, NoIdlePermit
    <3>4. QED
      BY <2>4, <3>1, <3>3 DEF Promise!Next, Promise!Refuse, QueueTimeout
  <2>5. CASE ReadBody(r) \/ FindFresh(r)
    BY <2>5, ProceedIsStutter DEF ReadBody, FindFresh, Admitted
  <2>6. CASE RejectBody(r) \/ Fail(r) \/ BodyEnds(r)
    BY <1>0, <2>6, EndIsAbstract DEF RejectBody, Fail, BodyEnds, Admitted, Ended
  <2>7. CASE FirstAnswer(r)
    <3>1. "recovering" \in Admitted /\ pc[r] \in Admitted
      BY <2>7 DEF FirstAnswer, Admitted
    <3>2. QED
      BY <2>7, <3>1, DeliverIsStutter, ProceedIsStutter DEF FirstAnswer
  <2>8. CASE NoFresh(r) \/ SecondAnswer(r)
    <3>1. pc[r] \in Admitted /\ "explained" \in Ended /\ "explained" # "refused"
      BY <2>8 DEF NoFresh, SecondAnswer, Admitted, Ended
    <3>2. QED
      BY <1>0, <2>8, <3>1, EndIsAbstract, DeliverIsStutter DEF NoFresh, SecondAnswer
  <2>9. QED
    BY <1>1, <2>1, <2>2, <2>3, <2>4, <2>5, <2>6, <2>7, <2>8 DEF Handler
<1>2. ASSUME NEW r \in Requests, LeaveQueue(r) PROVE Promise!Next
  <2>1. phaseOf[r] = "waiting" /\ phaseOf' = [phaseOf EXCEPT ![r] = "over"]
    BY <1>2 DEF LeaveQueue, phaseOf, IInv, TypeOK, Ended
  <2>2. QED
    BY <1>2, <2>1 DEF Promise!Next, Promise!Abandon, LeaveQueue
<1>3. ASSUME NEW r \in Requests, LeaveHolding(r) PROVE Promise!Next
  <2>1. permit[r] # "none" /\ "gone" \in Ended /\ "gone" # "refused"
    BY <1>0, <1>3 DEF LeaveHolding, Ended
  <2>2. QED
    BY <1>3, <2>1, EndIsAbstract DEF LeaveHolding
<1>4. CASE UNCHANGED vars
  BY <1>4 DEF vars, Promise!vars, phaseOf
<1>5. QED
  BY <1>1, <1>2, <1>3, <1>4 DEF Next, Client

\* The gateway keeps the promise of CappedCalls: whoever waits, or is refused
\* with the local 429, does so only while Cap others are calling, and a slot
\* that frees goes to a waiting request in the same step.
THEOREM ImplementsCappedCalls == Spec => KeepsPromise
BY InitIsAbstract, StepIsAbstract, InductiveInvariant, PTL
   DEF Spec, KeepsPromise, Promise!Spec

=============================================================================
