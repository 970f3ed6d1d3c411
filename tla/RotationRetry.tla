---------------------------- MODULE RotationRetry ----------------------------
(***************************************************************************)
(* What happens to a request whose Anthropic credential upstream rejects:  *)
(* `forward` from the disguise gate to its own 401 (src/lib.rs),           *)
(* wait_for_rotation (src/anthropic_retry.rs), and the rate-limited and    *)
(* the unconditional invalidation of the memoised read (src/keychain.rs).  *)
(*                                                                         *)
(* There are two stores, the keychain and the credentials file; off macOS  *)
(* a keychain that yields nothing sends the gateway to the file            *)
(* (keychain_fallback), and each may hold what the owner once left there.  *)
(* Tokens are numbered in the order their owner, Claude Code, writes them; *)
(* 0 is a read that yields none: an error, no entry, a logout.  `cached`   *)
(* is that of CredentialCache with its deadlines reduced to a value being  *)
(* fresh until some moment: the minutes and hours they measure are long    *)
(* against the half second this module is about.  Time is kept in timers   *)
(* that run down, in units of ROTATION_POLL.                               *)
(*                                                                         *)
(* A definition introduced by "Slip" is not the code: it is the definition *)
(* after it with a plausible mistake, kept to see the properties fail.     *)
(***************************************************************************)
EXTENDS Integers

CONSTANTS
  Requests,           \* requests the gateway attaches a stored credential to
  Nobody,             \* REFRESH is free
  Nothing,            \* CACHE is empty
  RotationWait,       \* ROTATION_WAIT, in polls
  RejectionCooldown,  \* REJECTION_COOLDOWN, in polls
  MaxToken            \* bound on the tokens the owner writes

ASSUME TimesAssumption == RotationWait \in Nat /\ RejectionCooldown \in Nat
ASSUME MaxTokenAssumption == MaxToken \in Nat \ {0}
ASSUME RequestAssumption == Nobody \notin Requests

VARIABLES
  source,     \* the token source configured: "keychain" or "file"
  isMacos,    \* keychain_fallback's parameter
  store,      \* store[s]: the token the owner keeps in s
  cache,      \* CACHE: the memoised read
  reader,     \* the holder of REFRESH
  cooldown,   \* time until LAST_REJECTION may be claimed again
  pc,         \* pc[r]: where r is in forward
  step,       \* step[r]: where r is in `cached`
  snap,       \* snap[r]: the snapshot r took of CACHE
  got,        \* got[r]: what r's fetch returned, not yet stored
  token,      \* token[r]: the credential r was sent with first
  retry,      \* retry[r]: the one it was sent with again
  left,       \* left[r]: time to wait_for_rotation's deadline
  nap,        \* nap[r]: time to r's next poll
  tokenFrom,  \* history: the store r's first token was read from
  retryFrom,  \* history: the store its second token was read from
  seen,       \* history: the store r's last poll got a token from
  overdue     \* history: the store r had to take another token from when its
              \* last poll began, no older read waiting to be stored

environment == <<source, isMacos, store>>
memo == <<cache, reader, step, snap, got>>
timers == <<cooldown, left, nap>>
sends == <<token, retry>>
history == <<tokenFrom, retryFrom, seen, overdue>>
vars == <<environment, memo, timers, pc, sends, history>>

Tokens == 0 .. MaxToken
Stores == {"keychain", "file"}
Memos == [tok : Tokens, fresh : BOOLEAN]

ASSUME NothingAssumption == Nothing \notin Memos

\* Where forward waits for a credential read to return.
Resolving == {"attaching", "checking", "polling"}

\* How a request ends: with the gateway's own 401, or in another way (answered,
\* passed through, failed, without its client).
Ended == {"over", "explained"}

TypeOK ==
  /\ source \in Stores /\ isMacos \in BOOLEAN
  /\ store \in [Stores -> Tokens]
  /\ cache \in Memos \cup {Nothing}
  /\ reader \in Requests \cup {Nobody}
  /\ cooldown \in 0 .. RejectionCooldown
  /\ pc \in [Requests -> {"new", "sent", "claimed", "sleeping", "retrying"} \cup Resolving \cup Ended]
  /\ step \in [Requests -> {"idle", "missed", "blocked", "fetching", "storing", "missing"}]
  /\ snap \in [Requests -> Memos \cup {Nothing}]
  /\ got \in [Requests -> Tokens]
  /\ token \in [Requests -> Tokens]
  /\ retry \in [Requests -> Tokens]
  /\ left \in [Requests -> 0 .. RotationWait]
  /\ nap \in [Requests -> 0 .. 1]
  /\ tokenFrom \in [Requests -> Stores \cup {"none"}]
  /\ retryFrom \in [Requests -> Stores \cup {"none"}]
  /\ seen \in [Requests -> Stores \cup {"none"}]
  /\ overdue \in [Requests -> Stores \cup {"none"}]

\* The stores a read may reach.
Reached ==
  IF source = "file" THEN {"file"} ELSE IF isMacos THEN {"keychain"} ELSE Stores

Init ==
  /\ source \in Stores /\ isMacos \in BOOLEAN
  /\ source = "file" => isMacos     \* the file is read alike on every system
  /\ store \in [Stores -> Tokens]
  /\ \A s \in Stores : store[s] # 0 => s \in Reached
  /\ cache = Nothing
  /\ reader = Nobody
  /\ cooldown = 0
  /\ pc = [r \in Requests |-> "new"]
  /\ step = [r \in Requests |-> "idle"]
  /\ snap = [r \in Requests |-> Nothing]
  /\ got = [r \in Requests |-> 0]
  /\ token = [r \in Requests |-> 0]
  /\ retry = [r \in Requests |-> 0]
  /\ left = [r \in Requests |-> 0]
  /\ nap = [r \in Requests |-> 0]
  /\ tokenFrom = [r \in Requests |-> "none"]
  /\ retryFrom = [r \in Requests |-> "none"]
  /\ seen = [r \in Requests |-> "none"]
  /\ overdue = [r \in Requests |-> "none"]

-----------------------------------------------------------------------------
(* forward, when a read of the credential returns tok, out of store s, to r. *)

\* forward's locals go with it.
Forget(r) ==
  /\ token' = [token EXCEPT ![r] = 0] /\ retry' = [retry EXCEPT ![r] = 0]
  /\ tokenFrom' = [tokenFrom EXCEPT ![r] = "none"]
  /\ retryFrom' = [retryFrom EXCEPT ![r] = "none"]

From(s, tok) == IF tok = 0 THEN "none" ELSE s

\* The disguise gate: no token means passthrough, which is not followed here.
Attached(r, s, tok) ==
  /\ pc[r] = "attaching"
  /\ pc' = [pc EXCEPT ![r] = IF tok = 0 THEN "over" ELSE "sent"]
  /\ token' = [token EXCEPT ![r] = tok]
  /\ tokenFrom' = [tokenFrom EXCEPT ![r] = From(s, tok)]
  /\ UNCHANGED <<retry, left, nap, retryFrom, seen, overdue>>

\* anthropic_credential_expiry; wait_for_rotation sets its deadline next.
Checked(r) ==
  /\ pc[r] = "checking"
  /\ pc' = [pc EXCEPT ![r] = "polling"]
  /\ left' = [left EXCEPT ![r] = RotationWait]
  /\ UNCHANGED <<token, retry, nap, history>>

\* One look at the store: another token ends the wait, the deadline ends it
\* without one, anything else, errors included, sleeps until the next poll.
Polled(r, s, tok) ==
  /\ pc[r] = "polling"
  /\ \/ /\ tok \notin {0, token[r]}
        /\ pc' = [pc EXCEPT ![r] = "retrying"]
        /\ retry' = [retry EXCEPT ![r] = tok]
        /\ retryFrom' = [retryFrom EXCEPT ![r] = s]
        /\ left' = [left EXCEPT ![r] = 0]
        /\ overdue' = [overdue EXCEPT ![r] = "none"]
        /\ UNCHANGED <<nap, token, tokenFrom, seen>>
     \/ /\ tok \in {0, token[r]}
        /\ left[r] = 0
        /\ pc' = [pc EXCEPT ![r] = "explained"]
        /\ seen' = [seen EXCEPT ![r] = From(s, tok)]
        /\ Forget(r)
        /\ UNCHANGED <<left, nap, overdue>>
     \/ /\ tok \in {0, token[r]}
        /\ left[r] > 0
        /\ pc' = [pc EXCEPT ![r] = "sleeping"]
        /\ nap' = [nap EXCEPT ![r] = 1]
        /\ overdue' = [overdue EXCEPT ![r] = "none"]
        /\ UNCHANGED <<left, sends, tokenFrom, retryFrom, seen>>

\* `cached` is left, with nothing of it kept.
Done(r, to) ==
  /\ step' = [step EXCEPT ![r] = to]
  /\ snap' = [snap EXCEPT ![r] = Nothing]
  /\ got' = [got EXCEPT ![r] = 0]

\* resolve returns tok, and forward goes on at once: no await in between.
Return(r, s, tok) ==
  /\ Done(r, "idle")
  /\ Attached(r, s, tok) \/ Checked(r) \/ Polled(r, s, tok)
  /\ UNCHANGED <<environment, cooldown>>

\* keychain_fallback: what `cached` returned is the answer if it is a credential
\* or the system is macOS; else the credentials file is read next.
KeychainFallback(r, tok) ==
  \/ /\ tok # 0 \/ isMacos
     /\ Return(r, "keychain", tok)
  \/ /\ tok = 0 /\ ~isMacos
     /\ Done(r, "missing")
     /\ UNCHANGED <<environment, timers, pc, sends, history>>

\* `cached` goes on to `to` and returns nothing yet.
Continue(r, to) ==
  /\ step' = [step EXCEPT ![r] = to]
  /\ UNCHANGED <<environment, timers, pc, sends, history>>

-----------------------------------------------------------------------------
(* A read of the credential. *)

Fresh(e) == e # Nothing /\ e.fresh

\* read_credentials_file_credential, for the file source and for the keychain's
\* fallback: every call reads the file.
ReadFile(r) ==
  /\ \/ source = "file" /\ pc[r] \in Resolving
     \/ step[r] = "missing"
  /\ \E tok \in {store["file"], 0} : Return(r, "file", tok)
  /\ UNCHANGED <<cache, reader>>

\* The snapshot of CACHE.
Look(r) ==
  /\ source = "keychain"
  /\ pc[r] \in Resolving
  /\ step[r] = "idle"
  /\ \/ /\ Fresh(cache)
        /\ KeychainFallback(r, cache.tok)
     \/ /\ ~Fresh(cache)
        /\ snap' = [snap EXCEPT ![r] = cache]
        /\ Continue(r, "missed")
        /\ UNCHANGED got
  /\ UNCHANGED <<cache, reader>>

\* Slip: the keychain is read without taking REFRESH.
TakeRefreshBriefly(r) ==
  /\ step[r] = "missed"
  /\ reader = Nobody
  /\ Continue(r, "fetching")
  /\ UNCHANGED <<cache, reader, snap, got>>

TakeRefresh(r) ==
  /\ step[r] = "missed"
  /\ reader = Nobody
  /\ reader' = r
  /\ Continue(r, "fetching")
  /\ UNCHANGED <<cache, snap, got>>

\* Somebody is reading: the snapshot if it is a credential (only those have a
\* grace window, and it may be over), else wait.
ServeStale(r) ==
  /\ step[r] = "missed"
  /\ reader # Nobody
  /\ snap[r] # Nothing
  /\ snap[r].tok # 0
  /\ KeychainFallback(r, snap[r].tok)
  /\ UNCHANGED <<cache, reader>>

Block(r) ==
  /\ step[r] = "missed"
  /\ reader # Nobody
  /\ Continue(r, "blocked")
  /\ UNCHANGED <<cache, reader, snap, got>>

\* REFRESH acquired after waiting: CACHE is looked at again.
WakeUp(r) ==
  /\ step[r] = "blocked"
  /\ reader = Nobody
  /\ \/ /\ Fresh(cache)
        /\ KeychainFallback(r, cache.tok)
        /\ UNCHANGED reader
     \/ /\ ~Fresh(cache)
        /\ reader' = r
        /\ Continue(r, "fetching")
        /\ UNCHANGED <<snap, got>>
  /\ UNCHANGED cache

\* The keychain answers, or fails.
Fetch(r) ==
  /\ step[r] = "fetching"
  /\ \E tok \in {store["keychain"], 0} : got' = [got EXCEPT ![r] = tok]
  /\ Continue(r, "storing")
  /\ UNCHANGED <<cache, reader, snap>>

\* Slip: an early return that skips the guard: REFRESH stays locked.
StoreKeepingLock(r) ==
  /\ step[r] = "storing"
  /\ cache' = [tok |-> got[r], fresh |-> TRUE]
  /\ KeychainFallback(r, got[r])
  /\ UNCHANGED reader

Store(r) ==
  /\ step[r] = "storing"
  /\ cache' = [tok |-> got[r], fresh |-> TRUE]
  /\ reader' = Nobody
  /\ KeychainFallback(r, got[r])

-----------------------------------------------------------------------------
(* forward between the reads. *)

Goto(r, to) == pc' = [pc EXCEPT ![r] = to]

\* The disguise gate asks for the credential.
Attach(r) ==
  /\ pc[r] = "new"
  /\ Goto(r, "attaching")
  /\ UNCHANGED <<environment, memo, timers, sends, history>>

\* Upstream accepts the credential, or the call fails.
Accepted(r) ==
  /\ pc[r] \in {"sent", "retrying"}
  /\ Goto(r, "over")
  /\ Forget(r)
  /\ UNCHANGED <<environment, memo, timers, seen, overdue>>

\* A 401: claim_rejection_slot.  Only a claimed slot invalidates; the file
\* source goes through the same motions without effect on its reads.
Rejected(r) ==
  /\ pc[r] = "sent"
  /\ \/ /\ cooldown = 0
        /\ cooldown' = RejectionCooldown
        /\ Goto(r, "claimed")
     \/ /\ cooldown > 0
        /\ Goto(r, "checking")
        /\ UNCHANGED cooldown
  /\ UNCHANGED <<environment, memo, left, nap, sends, history>>

\* invalidate_after_rejection, once the slot is claimed.
Drop(r) ==
  /\ pc[r] = "claimed"
  /\ cache' = Nothing
  /\ Goto(r, "checking")
  /\ UNCHANGED <<environment, reader, step, snap, got, timers, sends, history>>

\* History: the store a look that begins now has to take another token from.
Overdue(r) ==
  IF \E q \in Requests : step[q] = "storing" THEN "none"
  ELSE IF "keychain" \in Reached /\ store["keychain"] # 0
    THEN IF store["keychain"] # token[r] THEN "keychain" ELSE "none"
  ELSE IF "file" \in Reached /\ store["file"] \notin {0, token[r]} THEN "file" ELSE "none"

\* Slip: the memoised read is not dropped between polls.
WakeMemoised(r) ==
  /\ pc[r] = "sleeping"
  /\ nap[r] = 0
  /\ Goto(r, "polling")
  /\ overdue' = [overdue EXCEPT ![r] = Overdue(r)]
  /\ UNCHANGED <<environment, memo, timers, sends, tokenFrom, retryFrom, seen>>

\* The sleep is over: the memoised read is dropped and the store looked at
\* again.
Wake(r) ==
  /\ pc[r] = "sleeping"
  /\ nap[r] = 0
  /\ cache' = IF source = "keychain" THEN Nothing ELSE cache
  /\ Goto(r, "polling")
  /\ overdue' = [overdue EXCEPT ![r] = Overdue(r)]
  /\ UNCHANGED <<environment, reader, step, snap, got, timers, sends, tokenFrom, retryFrom, seen>>

\* A second 401: the gateway's own, no further retry.
RejectedAgain(r) ==
  /\ pc[r] = "retrying"
  /\ Goto(r, "explained")
  /\ Forget(r)
  /\ UNCHANGED <<environment, memo, timers, seen, overdue>>

\* The client leaves: hyper drops the future at an await.
Leave(r) ==
  /\ pc[r] \in {"sent", "sleeping", "retrying"}
  /\ Goto(r, "over")
  /\ Forget(r)
  /\ left' = [left EXCEPT ![r] = 0]
  /\ nap' = [nap EXCEPT ![r] = 0]
  /\ UNCHANGED <<environment, memo, cooldown, seen, overdue>>

-----------------------------------------------------------------------------
(* The owner of the credential, and time. *)

Issued == IF store["keychain"] > store["file"] THEN store["keychain"] ELSE store["file"]

\* A refresh or a login writes a new token, to one store or to both.  A logout
\* is a store whose reads yield nothing from then on, which any read may do.
Rotate ==
  /\ Issued < MaxToken
  /\ \E written \in SUBSET Reached \ {{}} :
       store' = [s \in Stores |-> IF s \in written THEN Issued + 1 ELSE store[s]]
  /\ UNCHANGED <<source, isMacos, memo, timers, pc, sends, history>>

\* The memoised read passes its refresh_after.
Age ==
  /\ Fresh(cache)
  /\ cache' = [cache EXCEPT !.fresh = FALSE]
  /\ UNCHANGED <<environment, reader, step, snap, got, timers, pc, sends, history>>

RunDown(t) == IF t > 0 THEN t - 1 ELSE 0

Tick ==
  /\ cooldown' = RunDown(cooldown)
  /\ left' = [r \in Requests |-> RunDown(left[r])]
  /\ nap' = [r \in Requests |-> RunDown(nap[r])]
  /\ UNCHANGED <<environment, memo, pc, sends, history>>

Read(r) ==
  \/ ReadFile(r) \/ Look(r) \/ TakeRefresh(r) \/ ServeStale(r) \/ Block(r)
  \/ WakeUp(r) \/ Fetch(r) \/ Store(r)

Forward(r) ==
  \/ Attach(r) \/ Accepted(r) \/ Rejected(r) \/ Drop(r) \/ Wake(r)
  \/ RejectedAgain(r) \/ Leave(r)

Next == (\E r \in Requests : Read(r) \/ Forward(r)) \/ Rotate \/ Age \/ Tick

Spec == Init /\ [][Next]_vars

\* The gateway runs, reads return, upstream answers or times out, and time
\* passes.  Nothing makes a request arrive, a client leave or the owner write.
FairSpec ==
  /\ Spec
  /\ WF_vars(Tick)
  /\ \A r \in Requests :
       /\ WF_vars(ReadFile(r) \/ Look(r))
       /\ WF_vars(TakeRefresh(r) \/ ServeStale(r) \/ Block(r))
       /\ WF_vars(WakeUp(r))
       /\ WF_vars(Fetch(r))
       /\ WF_vars(Store(r))
       /\ WF_vars(Drop(r))
       /\ WF_vars(Wake(r))
       /\ WF_vars(Accepted(r) \/ Rejected(r) \/ RejectedAgain(r))

-----------------------------------------------------------------------------
(* Properties. *)

\* "Never ... resend a rejected token": the retry carries another token than the
\* rejected one, and where both come from one store (always, on macOS and with
\* the file source), one its owner wrote later.  The code compares for difference
\* only; that no older token turns up rests on the order `cached` gives its reads.
\* Between the stores there is no order: a refused read of the keychain makes the
\* retry carry whatever the file holds, be it older.
RetryMovesForward ==
  \A r \in Requests : retry[r] # 0 =>
    /\ retry[r] # token[r]
    /\ retryFrom[r] = tokenFrom[r] => retry[r] > token[r]

\* A request gives up although the owner had published another token before its
\* last poll only if the read of that store yielded nothing, or an older read
\* was about to be stored: what that poll found, if anything, is the token of
\* the store that comes after it.
RotationInTimeIsUsed ==
  \A r \in Requests : pc[r] = "explained" =>
    /\ overdue[r] = "keychain" => seen[r] # "keychain"
    /\ overdue[r] = "file" => seen[r] = "none"

\* Every request ends, its rejection looked into for a bounded time: what the
\* permit's life cycle takes for granted of a recovering request.
EveryRequestEnds == \A r \in Requests : pc[r] # "new" ~> pc[r] \in Ended
=============================================================================
