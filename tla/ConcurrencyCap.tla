--------------------------- MODULE ConcurrencyCap ---------------------------
(***************************************************************************)
(* The life of a proxied request (`proxy`, `forward` and the response body *)
(* in src/lib.rs) as far as the per-provider concurrency permit sees it:   *)
(* the bounded wait, every exit path that must give the permit back, the   *)
(* one retry after a 401, and the permit that outlives `forward` inside    *)
(* the response stream.                                                    *)
(*                                                                         *)
(* What is sent and what comes back is abstracted to the choices that      *)
(* select an exit path.  The semaphore is tokio's: FIFO, and a released    *)
(* permit is assigned to the first waiter before that waiter runs again.   *)
(* The configuration without a cap (`concurrency: None`) shares no state   *)
(* between requests and is not modelled.                                   *)
(*                                                                         *)
(* A definition introduced by "Slip" is not the code: it is the definition *)
(* after it with a plausible mistake, kept to see the properties fail.     *)
(***************************************************************************)
EXTENDS Integers, FiniteSets

CONSTANTS
  Requests,   \* requests the gateway will ever see
  Providers,  \* the providers addressed: a subset of the four it knows
  Cap         \* MUR_MODEL_GATEWAY_MAX_CONCURRENCY, one number for all

ASSUME RequestsAssumption == IsFiniteSet(Requests)
ASSUME CapAssumption == Cap \in Nat \ {0}
ASSUME ProvidersAssumption ==
  Providers \subseteq {"anthropic", "openai", "gemini", "codex"}

VARIABLES
  pc,         \* pc[r]: the await `forward` is at, or how the request ended
  provider,   \* provider[r]: what detect_provider made of its path
  attached,   \* attached[r]: the gateway attached its own OAuth credential
  free,       \* free[p]: permits nobody owns in provider p's semaphore
  permit,     \* permit[r]: "none", "assigned" (granted, not yet seen), "held"
  ticket,     \* ticket[r]: position in its semaphore's queue
  tickets,    \* tickets handed out so far
  calls       \* calls[r]: upstream responses r keeps open

vars == <<pc, provider, attached, free, permit, ticket, tickets, calls>>

\* A request after its permit and before its end, one state per await.
Admitted == {"body", "sending", "recovering", "resending", "buffering", "streaming"}

\* How a request ends: the local 429, a 400 for an untranslatable body, a 502,
\* the gateway's own 401, a complete response, or a client that left.
Ended == {"refused", "rejected", "failed", "explained", "delivered", "gone"}

TypeOK ==
  /\ pc \in [Requests -> {"new", "queued"} \cup Admitted \cup Ended]
  /\ provider \in [Requests -> Providers]
  /\ attached \in [Requests -> BOOLEAN]
  /\ free \in [Providers -> 0 .. Cap]
  /\ permit \in [Requests -> {"none", "assigned", "held"}]
  /\ ticket \in [Requests -> Nat]
  /\ tickets \in Nat
  /\ calls \in [Requests -> 0 .. 2]

\* `attached` is decided by headers, path and token source; only the two
\* providers whose credential store the gateway reads can have it.
Init ==
  /\ pc = [r \in Requests |-> "new"]
  /\ provider \in [Requests -> Providers]
  /\ attached \in [Requests -> BOOLEAN]
  /\ \A r \in Requests : attached[r] => provider[r] \in {"anthropic", "codex"}
  /\ free = [p \in Providers |-> Cap]
  /\ permit = [r \in Requests |-> "none"]
  /\ ticket = [r \in Requests |-> 0]
  /\ tickets = 0
  /\ calls = [r \in Requests |-> 0]

-----------------------------------------------------------------------------
(* The semaphore of one provider. *)

Holding(p) == {r \in Requests : permit[r] # "none" /\ provider[r] = p}

Waiting(p) ==
  {r \in Requests : pc[r] = "queued" /\ permit[r] = "none" /\ provider[r] = p}

FirstWaiting(p) ==
  {w \in Waiting(p) : \A v \in Waiting(p) : ticket[w] =< ticket[v]}

\* Slip: the freed permit goes back to the counter and no waiter is told.
ReleaseUnannounced(r) ==
  /\ free' = [free EXCEPT ![provider[r]] = @ + 1]
  /\ permit' = [permit EXCEPT ![r] = "none"]

\* Slip: one semaphore shared by everybody: the permit wakes any provider's
\* waiter.
ReleaseShared(r) ==
  LET waiting == UNION {Waiting(p) : p \in Providers} IN
  \/ /\ waiting = {}
     /\ free' = [free EXCEPT ![provider[r]] = @ + 1]
     /\ permit' = [permit EXCEPT ![r] = "none"]
  \/ \E w \in waiting :
       /\ permit' = [permit EXCEPT ![r] = "none", ![w] = "assigned"]
       /\ UNCHANGED free

\* Dropping the OwnedSemaphorePermit, held or merely assigned.
Release(r) ==
  \/ /\ Waiting(provider[r]) = {}
     /\ free' = [free EXCEPT ![provider[r]] = @ + 1]
     /\ permit' = [permit EXCEPT ![r] = "none"]
  \/ \E w \in FirstWaiting(provider[r]) :
       /\ permit' = [permit EXCEPT ![r] = "none", ![w] = "assigned"]
       /\ UNCHANGED free

-----------------------------------------------------------------------------
(* Helpers: leaving, and moving on while the permit stays where it is. *)

\* `forward` (or its response body) is dropped or returns: permit and open
\* upstream responses go with it.
End(r, how) ==
  /\ pc' = [pc EXCEPT ![r] = how]
  /\ calls' = [calls EXCEPT ![r] = 0]
  /\ Release(r)
  /\ UNCHANGED <<provider, attached, ticket, tickets>>

Proceed(r, to, open) ==
  /\ pc' = [pc EXCEPT ![r] = to]
  /\ calls' = [calls EXCEPT ![r] = open]
  /\ UNCHANGED <<provider, attached, free, permit, ticket, tickets>>

\* The final upstream response: streamed with the permit inside the body, or,
\* for a non-streaming translated chat on the Codex route, read whole.
Deliver(r) ==
  \/ Proceed(r, "streaming", 1)
  \/ provider[r] = "codex" /\ Proceed(r, "buffering", 1)

-----------------------------------------------------------------------------
(* Acquiring the permit. *)

\* acquire_owned polled for the first time finds a permit.
ArriveFree(r) ==
  /\ pc[r] = "new"
  /\ free[provider[r]] > 0
  /\ pc' = [pc EXCEPT ![r] = "body"]
  /\ free' = [free EXCEPT ![provider[r]] = @ - 1]
  /\ permit' = [permit EXCEPT ![r] = "held"]
  /\ UNCHANGED <<provider, attached, ticket, tickets, calls>>

ArriveBusy(r) ==
  /\ pc[r] = "new"
  /\ free[provider[r]] = 0
  /\ pc' = [pc EXCEPT ![r] = "queued"]
  /\ ticket' = [ticket EXCEPT ![r] = tickets]
  /\ tickets' = tickets + 1
  /\ UNCHANGED <<provider, attached, free, permit, calls>>

\* The queued request runs again and finds the permit it was assigned, even
\* past the deadline: tokio's timeout polls the inner future first.
Granted(r) ==
  /\ pc[r] = "queued"
  /\ permit[r] = "assigned"
  /\ pc' = [pc EXCEPT ![r] = "body"]
  /\ permit' = [permit EXCEPT ![r] = "held"]
  /\ UNCHANGED <<provider, attached, free, ticket, tickets, calls>>

\* Slip: acquire().await with no timeout around it.
QueueUnbounded(r) == FALSE /\ UNCHANGED vars

\* queue_timeout passed with no permit assigned: the local 429.
QueueTimeout(r) ==
  /\ pc[r] = "queued"
  /\ permit[r] = "none"
  /\ pc' = [pc EXCEPT ![r] = "refused"]
  /\ UNCHANGED <<provider, attached, free, permit, ticket, tickets, calls>>

-----------------------------------------------------------------------------
(* Holding the permit. *)

\* The client's body is complete and acceptable; the first upstream call
\* starts.  Credential lookup, compression, translation and disguise happen
\* here, with no await between them.
ReadBody(r) ==
  /\ pc[r] = "body"
  /\ Proceed(r, "sending", 1)

\* A chat body the Codex route cannot express: the local 400.
RejectBody(r) ==
  /\ pc[r] = "body"
  /\ provider[r] = "codex"
  /\ End(r, "rejected")

\* Every `?` in forward: the 502 of `proxy`.
Fail(r) ==
  /\ pc[r] \in {"body", "sending", "resending", "buffering"}
  /\ End(r, "failed")

\* Response headers of the first call.  Only a 401 for a credential the
\* gateway itself attached is looked into; the response stays open meanwhile.
FirstAnswer(r) ==
  /\ pc[r] = "sending"
  /\ \/ Deliver(r)
     \/ attached[r] /\ Proceed(r, "recovering", 1)

\* A different credential was found (Codex: refreshed; Anthropic: rotated by
\* its owner).  The retry starts before the rejected response is dropped.
FindFresh(r) ==
  /\ pc[r] = "recovering"
  /\ Proceed(r, "resending", 2)

\* None was found in time: Anthropic's 401 is replaced by the gateway's own,
\* Codex's goes back as it came.
NoFresh(r) ==
  /\ pc[r] = "recovering"
  /\ IF provider[r] = "anthropic" THEN End(r, "explained") ELSE Deliver(r)

\* Slip: a second 401 starts another round of recovery.
SecondAnswerLoops(r) ==
  /\ pc[r] = "resending"
  /\ \/ Deliver(r)
     \/ Proceed(r, "recovering", 1)

\* The retry's headers; assigning upstream_resp drops the first response.
\* There is no third call: a second 401 is final.
SecondAnswer(r) ==
  /\ pc[r] = "resending"
  /\ \/ Deliver(r)
     \/ provider[r] = "anthropic" /\ End(r, "explained")

\* The stream or the buffered body ends: EOF, transport error or the client's
\* timeout on the upstream.
BodyEnds(r) ==
  /\ pc[r] \in {"streaming", "buffering"}
  /\ End(r, "delivered")

\* Slip: cancelling a wait returns a permit that was never granted.
LeaveQueueReleases(r) ==
  /\ pc[r] = "queued"
  /\ permit[r] = "none"
  /\ pc' = [pc EXCEPT ![r] = "gone"]
  /\ free' = [free EXCEPT ![provider[r]] = @ + 1]
  /\ UNCHANGED <<provider, attached, permit, ticket, tickets, calls>>

\* hyper drops the handler's future, or the response body, at any await.
LeaveQueue(r) ==
  /\ pc[r] = "queued"
  /\ permit[r] = "none"
  /\ pc' = [pc EXCEPT ![r] = "gone"]
  /\ UNCHANGED <<provider, attached, free, permit, ticket, tickets, calls>>

LeaveHolding(r) ==
  /\ pc[r] \in Admitted \/ (pc[r] = "queued" /\ permit[r] = "assigned")
  /\ End(r, "gone")

-----------------------------------------------------------------------------
Handler(r) ==
  \/ ArriveFree(r) \/ ArriveBusy(r) \/ Granted(r) \/ QueueTimeout(r)
  \/ ReadBody(r) \/ RejectBody(r) \/ Fail(r)
  \/ FirstAnswer(r) \/ FindFresh(r) \/ NoFresh(r) \/ SecondAnswer(r)
  \/ BodyEnds(r)

Client(r) == LeaveQueue(r) \/ LeaveHolding(r)

Next == \E r \in Requests : Handler(r) \/ Client(r)

Spec == Init /\ [][Next]_vars

\* What the gateway's own timers guarantee whatever the client does: a queued
\* request runs when granted or timed out, a 401 is looked into for a bounded
\* time, and an upstream call is answered or fails within UPSTREAM_TIMEOUT.
TimerFairness ==
  \A r \in Requests :
    /\ WF_vars(Granted(r))
    /\ WF_vars(QueueTimeout(r))
    /\ WF_vars(FindFresh(r) \/ NoFresh(r))
    /\ WF_vars(FirstAnswer(r) \/ (pc[r] = "sending" /\ Fail(r)))
    /\ WF_vars(SecondAnswer(r) \/ (pc[r] = "resending" /\ Fail(r)))
    /\ WF_vars(pc[r] = "buffering" /\ (BodyEnds(r) \/ Fail(r)))

\* Beyond that, every client finishes uploading its body or hangs up, and
\* reads its response to the end or hangs up.  Nothing in the gateway makes it.
ClientFairness ==
  \A r \in Requests :
    /\ WF_vars(ReadBody(r) \/ RejectBody(r) \/ (pc[r] = "body" /\ Fail(r)))
    /\ WF_vars(BodyEnds(r))

FairSpec == Spec /\ TimerFairness

-----------------------------------------------------------------------------
(* Safety. *)

\* No exit path of forward loses or duplicates a permit: what is free and what
\* is owned add up to the cap, for every provider, in every state.
PermitsAccounted ==
  \A p \in Providers : free[p] + Cardinality(Holding(p)) = Cap

\* The cap itself: at most Cap requests have an upstream call to one provider
\* open, streams that outlive `forward` included.
CallsWithinCap ==
  \A p \in Providers :
    Cardinality({r \in Requests : calls[r] > 0 /\ provider[r] = p}) =< Cap

\* No lost wake-up: a permit is never free while a request waits for it.
NoIdlePermit == \A p \in Providers : Waiting(p) # {} => free[p] = 0

-----------------------------------------------------------------------------
(* Liveness. *)

\* The wait for a permit is bounded by the gateway alone, whatever the clients
\* that hold the permits do.
QueueIsLeft == \A r \in Requests : pc[r] = "queued" ~> pc[r] # "queued"

\* When clients read and upload or hang up, every request ends, and with it
\* its claim on a permit.
EveryRequestEnds ==
  ClientFairness => \A r \in Requests : pc[r] # "new" ~> pc[r] \in Ended

-----------------------------------------------------------------------------
(* The abstract specification this one implements. *)

phaseOf ==
  [r \in Requests |->
     IF pc[r] = "new" THEN "new"
     ELSE IF pc[r] = "refused" THEN "refused"
     ELSE IF pc[r] \in Ended THEN "over"
     ELSE IF permit[r] = "none" THEN "waiting" ELSE "calling"]

Promise == INSTANCE CappedCalls WITH phase <- phaseOf, target <- provider

\* Waiting only while saturated, refusing only while saturated, a freed slot
\* handed to a waiter in the same step: CappedCalls, under phaseOf.
KeepsPromise == Promise!Spec

=============================================================================
