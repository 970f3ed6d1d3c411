---------------------------- MODULE CappedCalls ----------------------------
(***************************************************************************)
(* What the per-provider concurrency cap promises, without saying how.     *)
(*                                                                         *)
(* A request to a provider is new, waiting, calling, refused (the local    *)
(* 429) or over.  At most Cap requests call one provider at once; a        *)
(* request waits, and is refused, only while Cap others are calling; a     *)
(* slot that frees goes straight to a waiting request if there is one.     *)
(* Nothing here mentions permits, queues, timers, retries or streams: see  *)
(* ConcurrencyCap, which implements this specification.                    *)
(***************************************************************************)
EXTENDS Integers, FiniteSets

CONSTANTS
  Requests,   \* requests the gateway will ever see
  Providers,  \* upstream providers, each with its own cap
  Cap         \* calls one provider may have at once

VARIABLES
  phase,      \* phase[r]: where request r stands
  target      \* target[r]: the provider request r is for

vars == <<phase, target>>

Phases == {"new", "waiting", "calling", "refused", "over"}

Waiting(p) == {r \in Requests : phase[r] = "waiting" /\ target[r] = p}
Calling(p) == {r \in Requests : phase[r] = "calling" /\ target[r] = p}

Saturated(p) == Cardinality(Calling(p)) = Cap

Init ==
  /\ phase = [r \in Requests |-> "new"]
  /\ target \in [Requests -> Providers]

\* A slot is free: the request starts calling at once.
Admit(r) ==
  /\ phase[r] = "new"
  /\ ~Saturated(target[r])
  /\ phase' = [phase EXCEPT ![r] = "calling"]
  /\ UNCHANGED target

Queue(r) ==
  /\ phase[r] = "new"
  /\ Saturated(target[r])
  /\ phase' = [phase EXCEPT ![r] = "waiting"]
  /\ UNCHANGED target

\* The local 429: only for a request that found, and still finds, the
\* provider saturated by others.
Refuse(r) ==
  /\ phase[r] = "waiting"
  /\ Saturated(target[r])
  /\ phase' = [phase EXCEPT ![r] = "refused"]
  /\ UNCHANGED target

Abandon(r) ==
  /\ phase[r] = "waiting"
  /\ phase' = [phase EXCEPT ![r] = "over"]
  /\ UNCHANGED target

\* The last holder leaves a provider nobody is waiting for.
Leave(r) ==
  /\ phase[r] = "calling"
  /\ Waiting(target[r]) = {}
  /\ phase' = [phase EXCEPT ![r] = "over"]
  /\ UNCHANGED target

\* The slot passes from r to w in one step: no third request can take it.
HandOver(r, w) ==
  /\ phase[r] = "calling"
  /\ w \in Waiting(target[r])
  /\ phase' = [phase EXCEPT ![r] = "over", ![w] = "calling"]
  /\ UNCHANGED target

Next ==
  \E r \in Requests :
    \/ Admit(r) \/ Queue(r) \/ Refuse(r) \/ Abandon(r) \/ Leave(r)
    \/ \E w \in Requests : HandOver(r, w)

Spec == Init /\ [][Next]_vars

=============================================================================
