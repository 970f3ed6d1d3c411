------------------------ MODULE RotationRetryProofs ------------------------
(***************************************************************************)
(* Proofs about RotationRetry: a retry carries another token, a newer one  *)
(* of the same store, and one that was published before the last poll is   *)
(* used, for any number of requests and any lengths of the wait and the    *)
(* cooldown.  Both rest on the order that REFRESH gives the reads of the   *)
(* keychain: what is about to be stored is no older than anything a        *)
(* request holds out of it.                                                *)
(***************************************************************************)
EXTENDS RotationRetry, TLAPS

\* The token of a memoised read, 0 if there is none.
Tok(e) == IF e = Nothing THEN 0 ELSE e.tok

\* The memo is read by requests that wait for a credential from the keychain, and
\* only the holder of REFRESH has an answer of the keychain.
Reading ==
  \A r \in Requests :
    /\ step[r] # "idle" => source = "keychain" /\ pc[r] \in Resolving
    /\ step[r] \in {"idle", "missing"} => snap[r] = Nothing
    /\ step[r] \in {"fetching", "storing"} => reader = r
    /\ step[r] # "storing" => got[r] = 0

FileUncached == source = "file" => cache = Nothing

\* What forward has decided so far.
Stage ==
  \A r \in Requests :
    /\ pc[r] \in {"new", "attaching"} => token[r] = 0 /\ tokenFrom[r] = "none"
    /\ token[r] # 0 => tokenFrom[r] \in Stores
    /\ retry[r] # 0 => pc[r] = "retrying"
    /\ overdue[r] # "none" => pc[r] \in {"polling", "explained"}

\* Nobody holds a token newer than the store it came from.
Published ==
  /\ Tok(cache) <= store["keychain"]
  /\ \A r \in Requests :
       /\ Tok(snap[r]) <= store["keychain"] /\ got[r] <= store["keychain"]
       /\ \A s \in Stores : tokenFrom[r] = s => token[r] <= store[s]

\* A request's snapshot is no older than its token, if the keychain gave it, the
\* memo no older than either, and what the keychain answered no older than all.
Order ==
  \A r \in Requests :
    /\ tokenFrom[r] = "keychain" =>
         /\ Tok(snap[r]) # 0 => token[r] <= Tok(snap[r])
         /\ Tok(cache) # 0 => token[r] <= Tok(cache)
         /\ \A q \in Requests : got[q] # 0 => token[r] <= got[q]
    /\ Tok(cache) # 0 => Tok(snap[r]) <= Tok(cache)
    /\ \A q \in Requests : got[q] # 0 => Tok(snap[r]) <= got[q] /\ Tok(cache) <= got[q]

\* No token, or another one than r was sent with.
Other(r, tok) == tok = 0 \/ tok # token[r]

\* A poll that began after the rotation finds the old token nowhere on its way.
Late ==
  \A r \in Requests : pc[r] = "polling" /\ overdue[r] # "none" =>
    /\ Other(r, Tok(cache)) /\ Other(r, Tok(snap[r]))
    /\ \A q \in Requests : Other(r, got[q])
    /\ source = "keychain" => Other(r, store["keychain"])
    /\ overdue[r] = "file" => Other(r, store["file"])

Inv ==
  /\ TypeOK /\ Reading /\ FileUncached /\ Stage /\ Published /\ Order /\ Late
  /\ RetryMovesForward /\ RotationInTimeIsUsed

-----------------------------------------------------------------------------
\* A memo is not Nothing, and has a token.
LEMMA Memoised ==
  ASSUME NEW e \in Memos \cup {Nothing}
  PROVE  Tok(e) \in Tokens /\ (e # Nothing => e \in Memos /\ e.tok \in Tokens /\ Tok(e) = e.tok)
  BY NothingAssumption, MaxTokenAssumption DEF Memos, Tok, Tokens

\* An empty memo holds no token.
LEMMA NothingIsNone == Tok(Nothing) = 0
  BY DEF Tok

\* What `cached` stores.
LEMMA Stored ==
  ASSUME NEW tok \in Tokens, NEW fresh \in BOOLEAN
  PROVE  [tok |-> tok, fresh |-> fresh] \in Memos /\ Tok([tok |-> tok, fresh |-> fresh]) = tok
  BY NothingAssumption DEF Memos, Tok

\* A read has an answer: forward goes on with it, or the file is read next.
Answer(r, s, tok) ==
  Return(r, s, tok) \/ (s = "keychain" /\ KeychainFallback(r, tok))

\* What an answer does to r: it is attached, ignored, or looked at in a poll; or
\* the keychain had none.
LEMMA AnswerSteps ==
  ASSUME TypeOK, NEW r \in Requests, NEW s \in Stores, NEW tok \in Tokens, Answer(r, s, tok)
  PROVE  /\ snap' = [snap EXCEPT ![r] = Nothing] /\ got' = [got EXCEPT ![r] = 0]
         /\ UNCHANGED <<source, isMacos, store, cooldown>>
         /\ \/ step' = [step EXCEPT ![r] = "idle"]
               /\ (Attached(r, s, tok) \/ Checked(r) \/ Polled(r, s, tok))
            \/ /\ step' = [step EXCEPT ![r] = "missing"] /\ tok = 0
               /\ UNCHANGED <<timers, pc, sends, history>>
<1>1. CASE Return(r, s, tok)
  BY <1>1 DEF Return, Done, environment
<1>2. CASE s = "keychain" /\ KeychainFallback(r, tok) /\ ~Return(r, s, tok)
  BY <1>2 DEF KeychainFallback, Done, environment, timers
<1> QED BY <1>1, <1>2 DEF Answer

\* Any read returns one of the owner's tokens, or none.
LEMMA TypedReturn ==
  ASSUME TypeOK, NEW r \in Requests, NEW s \in Stores, NEW tok \in Tokens, Answer(r, s, tok),
         cache' \in Memos \cup {Nothing}, reader' \in Requests \cup {Nobody}
  PROVE  TypeOK'
<1> USE TimesAssumption, MaxTokenAssumption
<1>1. /\ step' \in [Requests -> {"idle", "missed", "blocked", "fetching", "storing", "missing"}]
      /\ snap' \in [Requests -> Memos \cup {Nothing}]
      /\ got' \in [Requests -> Tokens]
      /\ source' \in Stores /\ isMacos' \in BOOLEAN /\ store' \in [Stores -> Tokens]
      /\ cooldown' \in 0 .. RejectionCooldown
  <2>1. /\ snap' = [snap EXCEPT ![r] = Nothing] /\ got' = [got EXCEPT ![r] = 0]
        /\ step' \in {[step EXCEPT ![r] = "idle"], [step EXCEPT ![r] = "missing"]}
        /\ UNCHANGED <<source, isMacos, store, cooldown>>
    BY AnswerSteps
  <2> QED BY <2>1 DEF TypeOK, Tokens
<1>2. /\ pc' \in [Requests -> {"new", "sent", "claimed", "sleeping", "retrying"} \cup Resolving \cup Ended]
      /\ token' \in [Requests -> Tokens] /\ retry' \in [Requests -> Tokens]
      /\ left' \in [Requests -> 0 .. RotationWait] /\ nap' \in [Requests -> 0 .. 1]
      /\ tokenFrom' \in [Requests -> Stores \cup {"none"}] /\ retryFrom' \in [Requests -> Stores \cup {"none"}]
      /\ seen' \in [Requests -> Stores \cup {"none"}] /\ overdue' \in [Requests -> Stores \cup {"none"}]
  <2>1. CASE Attached(r, s, tok)
    BY <2>1 DEF Attached, From, TypeOK, Resolving, Ended
  <2>2. CASE Checked(r)
    BY <2>2 DEF Checked, history, TypeOK, Resolving, Ended
  <2>3. CASE Polled(r, s, tok)
    <3>1. /\ pc' \in [Requests -> {"new", "sent", "claimed", "sleeping", "retrying"} \cup Resolving \cup Ended]
          /\ left' \in [Requests -> 0 .. RotationWait] /\ nap' \in [Requests -> 0 .. 1]
      BY <2>3 DEF Polled, TypeOK, Resolving, Ended
    <3>2. token' \in [Requests -> Tokens] /\ retry' \in [Requests -> Tokens]
      BY <2>3 DEF Polled, Forget, sends, TypeOK, Tokens
    <3>3. /\ tokenFrom' \in [Requests -> Stores \cup {"none"}] /\ retryFrom' \in [Requests -> Stores \cup {"none"}]
          /\ seen' \in [Requests -> Stores \cup {"none"}] /\ overdue' \in [Requests -> Stores \cup {"none"}]
      BY <2>3 DEF Polled, Forget, From, TypeOK
    <3> QED BY <3>1, <3>2, <3>3
  <2>4. CASE UNCHANGED <<timers, pc, sends, history>>
    BY <2>4 DEF timers, sends, history, TypeOK
  <2> QED BY <2>1, <2>2, <2>3, <2>4, AnswerSteps
<1> QED BY <1>1, <1>2 DEF TypeOK

\* A token that a read may give r out of s: no older than what r was sent with, if
\* that came out of s too; out of the keychain, no newer than what is, or is about
\* to be, in the memo; and after a rotation not the old one.
Safe(r, s, tok) ==
  /\ tok # 0 =>
       /\ tok <= store[s]
       /\ tokenFrom[r] = s => token[r] <= tok
       /\ s = "keychain" =>
            /\ Tok(cache') # 0 => tok <= Tok(cache')
            /\ \A q \in Requests \ {r} : got[q] # 0 => tok <= got[q]
  /\ pc[r] = "polling" /\ overdue[r] # "none" =>
       /\ s = "keychain" => Other(r, tok)
       /\ overdue[r] = "file" => Other(r, tok)

\* The memo when r's read returns: as it was, or just filled by r.
Left(r) ==
  \/ UNCHANGED <<cache, reader>> /\ step[r] \notin {"fetching", "storing"}
  \/ step[r] = "storing" /\ Tok(cache') = got[r] /\ reader' = Nobody

\* An answer with such a token keeps the invariant.
LEMMA SafeReturn ==
  ASSUME Inv, TypeOK', NEW r \in Requests, NEW s \in Stores, NEW tok \in Tokens, Answer(r, s, tok),
         Safe(r, s, tok), Left(r), FileUncached',
         Return(r, s, tok) \/ (source = "keychain" /\ pc[r] \in Resolving)
  PROVE  Inv'
<1> USE RequestAssumption
<1>1. /\ snap' = [snap EXCEPT ![r] = Nothing] /\ got' = [got EXCEPT ![r] = 0]
      /\ step' \in {[step EXCEPT ![r] = "idle"], [step EXCEPT ![r] = "missing"]}
      /\ UNCHANGED <<source, isMacos, store>>
  BY AnswerSteps DEF Inv
<1>2. /\ \A q \in Requests : q # r =>
            /\ step'[q] = step[q] /\ snap'[q] = snap[q] /\ got'[q] = got[q] /\ pc'[q] = pc[q]
            /\ token'[q] = token[q] /\ retry'[q] = retry[q] /\ seen'[q] = seen[q]
            /\ tokenFrom'[q] = tokenFrom[q] /\ retryFrom'[q] = retryFrom[q] /\ overdue'[q] = overdue[q]
      /\ step'[r] \in {"idle", "missing"} /\ snap'[r] = Nothing /\ got'[r] = 0
      /\ Tok(snap'[r]) = 0
  <2>1. /\ step'[r] \in {"idle", "missing"} /\ snap'[r] = Nothing /\ got'[r] = 0
        /\ \A q \in Requests : q # r => step'[q] = step[q] /\ snap'[q] = snap[q] /\ got'[q] = got[q]
    BY <1>1 DEF Inv, TypeOK
  <2>2. \A q \in Requests : q # r =>
            /\ pc'[q] = pc[q]
            /\ token'[q] = token[q] /\ retry'[q] = retry[q] /\ seen'[q] = seen[q]
            /\ tokenFrom'[q] = tokenFrom[q] /\ retryFrom'[q] = retryFrom[q] /\ overdue'[q] = overdue[q]
    <3>1. CASE Attached(r, s, tok)
      BY <3>1 DEF Attached, Inv, TypeOK
    <3>2. CASE Checked(r)
      BY <3>2 DEF Checked, history, Inv, TypeOK
    <3>3. CASE Polled(r, s, tok)
      BY <3>3 DEF Polled, Forget, sends, Inv, TypeOK
    <3>4. CASE UNCHANGED <<timers, pc, sends, history>>
      BY <3>4 DEF timers, sends, history
    <3> QED BY <3>1, <3>2, <3>3, <3>4, AnswerSteps DEF Inv
  <2> QED BY <2>1, <2>2, NothingIsNone
<1>3. /\ tok \in Nat /\ Tok(cache) \in Nat /\ Tok(cache') \in Nat
      /\ store["keychain"] \in Nat /\ store["file"] \in Nat
      /\ \A q \in Requests : token[q] \in Nat /\ Tok(snap[q]) \in Nat /\ got[q] \in Nat
  BY Memoised DEF Inv, TypeOK, Tokens, Stores
\* What becomes of r.
<1>4. \/ /\ pc[r] = "attaching" /\ token'[r] = tok /\ tokenFrom'[r] = From(s, tok)
         /\ step'[r] = "idle" /\ pc'[r] \in {"over", "sent"}
         /\ retry'[r] = retry[r] /\ seen'[r] = seen[r] /\ overdue'[r] = overdue[r]
      \/ /\ pc[r] = "checking" /\ pc'[r] = "polling" /\ step'[r] = "idle"
         /\ token'[r] = token[r] /\ tokenFrom'[r] = tokenFrom[r]
         /\ retry'[r] = retry[r] /\ seen'[r] = seen[r] /\ overdue'[r] = overdue[r]
      \/ /\ pc[r] = "polling" /\ pc'[r] = "retrying" /\ step'[r] = "idle"
         /\ token'[r] = token[r] /\ tokenFrom'[r] = tokenFrom[r]
         /\ retry'[r] = tok /\ retryFrom'[r] = s /\ tok \notin {0, token[r]}
         /\ overdue'[r] = "none" /\ seen'[r] = seen[r]
      \/ /\ pc[r] = "polling" /\ pc'[r] = "sleeping" /\ step'[r] = "idle"
         /\ token'[r] = token[r] /\ tokenFrom'[r] = tokenFrom[r] /\ retry'[r] = retry[r]
         /\ overdue'[r] = "none" /\ seen'[r] = seen[r]
      \/ /\ pc[r] = "polling" /\ pc'[r] = "explained" /\ step'[r] = "idle"
         /\ token'[r] = 0 /\ retry'[r] = 0 /\ tokenFrom'[r] = "none"
         /\ overdue'[r] = overdue[r] /\ seen'[r] = From(s, tok) /\ tok \in {0, token[r]}
      \/ /\ pc'[r] = pc[r] /\ token'[r] = token[r] /\ tokenFrom'[r] = tokenFrom[r]
         /\ retry'[r] = retry[r] /\ retryFrom'[r] = retryFrom[r]
         /\ overdue'[r] = overdue[r] /\ seen'[r] = seen[r] /\ step'[r] = "missing"
         /\ source = "keychain" /\ pc[r] \in Resolving
  <2>1. CASE step' = [step EXCEPT ![r] = "idle"] /\ Attached(r, s, tok)
    BY <2>1 DEF Attached, Inv, TypeOK
  <2>2. CASE step' = [step EXCEPT ![r] = "idle"] /\ Checked(r)
    BY <2>2 DEF Checked, history, Inv, TypeOK
  <2>3. CASE step' = [step EXCEPT ![r] = "idle"] /\ Polled(r, s, tok)
    BY <2>3 DEF Polled, Forget, sends, Inv, TypeOK
  <2>4. CASE step' = [step EXCEPT ![r] = "missing"] /\ UNCHANGED <<timers, pc, sends, history>>
    <3>1. source = "keychain" /\ pc[r] \in Resolving
      <4>1. CASE Return(r, s, tok)
        BY <2>4, <4>1 DEF Return, Done, Inv, TypeOK
      <4> QED BY <4>1
    <3> QED BY <2>4, <3>1 DEF sends, history, Inv, TypeOK
  <2> QED BY <2>1, <2>2, <2>3, <2>4, AnswerSteps DEF Inv
<1>5. Reading'
  BY <1>1, <1>2, <1>4 DEF Inv, Reading, Left
<1>6. Stage'
  BY <1>2, <1>4 DEF Inv, Stage, From, Stores
<1>7. Published'
  <2>1. Tok(cache') <= store'["keychain"]
    BY <1>1 DEF Inv, Published, Left
  <2>2. \A q \in Requests : Tok(snap'[q]) <= store'["keychain"] /\ got'[q] <= store'["keychain"]
    BY <1>1, <1>2, <1>3 DEF Inv, Published
  <2>3. \A q \in Requests, t \in Stores : tokenFrom'[q] = t => token'[q] <= store'[t]
    BY <1>1, <1>2, <1>3, <1>4 DEF Inv, Published, Safe, From, Stores
  <2> QED BY <2>1, <2>2, <2>3 DEF Published
<1>8. Order'
  <2> SUFFICES ASSUME NEW q \in Requests
               PROVE  /\ tokenFrom'[q] = "keychain" =>
                           /\ Tok(snap'[q]) # 0 => token'[q] <= Tok(snap'[q])
                           /\ Tok(cache') # 0 => token'[q] <= Tok(cache')
                           /\ \A p \in Requests : got'[p] # 0 => token'[q] <= got'[p]
                      /\ Tok(cache') # 0 => Tok(snap'[q]) <= Tok(cache')
                      /\ \A p \in Requests : got'[p] # 0 => Tok(snap'[q]) <= got'[p] /\ Tok(cache') <= got'[p]
    BY DEF Order
  <2>0. tokenFrom'[r] = "keychain" => (token'[r] = token[r] /\ tokenFrom[r] = "keychain") \/ (token'[r] = tok /\ s = "keychain")
    BY <1>4 DEF From
  <2>1. CASE UNCHANGED <<cache, reader>> /\ step[r] \notin {"fetching", "storing"}
    <3>1. CASE q # r
      BY <1>2, <1>3, <2>1, <3>1 DEF Inv, Order
    <3>2. CASE q = r
      BY <1>2, <1>3, <2>0, <2>1, <3>2 DEF Inv, Order, Safe
    <3> QED BY <3>1, <3>2
  <2>2. CASE step[r] = "storing" /\ Tok(cache') = got[r] /\ reader' = Nobody
    <3>1. \A p \in Requests : got'[p] = 0
      BY <1>2, <2>2 DEF Inv, Reading
    <3>2. CASE q # r
      BY <1>2, <1>3, <2>2, <3>1, <3>2 DEF Inv, Order
    <3>3. CASE q = r
      BY <1>2, <1>3, <2>0, <2>2, <3>1, <3>3 DEF Inv, Order, Safe
    <3> QED BY <3>2, <3>3
  <2> QED BY <2>1, <2>2 DEF Left
<1>9. Late'
  BY <1>1, <1>2, <1>3, <1>4 DEF Inv, Late, Other, Left, Stage
<1>10. RetryMovesForward'
  <2>1. \A q \in Requests : q # r => (retry'[q] # 0 =>
          retry'[q] # token'[q] /\ (retryFrom'[q] = tokenFrom'[q] => retry'[q] > token'[q]))
    BY <1>2 DEF Inv, RetryMovesForward
  <2>2. retry'[r] # 0 =>
          retry'[r] # token'[r] /\ (retryFrom'[r] = tokenFrom'[r] => retry'[r] > token'[r])
    BY <1>3, <1>4 DEF Inv, RetryMovesForward, Stage, Safe
  <2> QED BY <2>1, <2>2 DEF RetryMovesForward
<1>11. RotationInTimeIsUsed'
  <2>1. \A q \in Requests : q # r => (pc'[q] = "explained" =>
          (overdue'[q] = "keychain" => seen'[q] # "keychain") /\ (overdue'[q] = "file" => seen'[q] = "none"))
    BY <1>2 DEF Inv, RotationInTimeIsUsed
  <2>2. pc'[r] = "explained" =>
          (overdue'[r] = "keychain" => seen'[r] # "keychain") /\ (overdue'[r] = "file" => seen'[r] = "none")
    BY <1>4 DEF Inv, RotationInTimeIsUsed, Safe, Other, From
  <2> QED BY <2>1, <2>2 DEF RotationInTimeIsUsed
<1> QED BY <1>5, <1>6, <1>7, <1>8, <1>9, <1>10, <1>11 DEF Inv

\* The memo, a snapshot, the keychain's answer and the file are safe to return.
LEMMA ReadStays ==
  ASSUME Inv, NEW r \in Requests,
         ReadFile(r) \/ ServeStale(r) \/ Store(r)
           \/ (Fresh(cache) /\ (Look(r) \/ WakeUp(r)))
  PROVE  Inv'
<1> USE MaxTokenAssumption
<1> DEFINE Known == {0, store["file"], Tok(cache), Tok(snap[r]), got[r]}
<1>1. /\ Known \subseteq Tokens /\ store["keychain"] \in Nat /\ store["file"] \in Nat
      /\ \A q \in Requests : token[q] \in Nat /\ Tok(snap[q]) \in Nat /\ got[q] \in Nat
      /\ Tok(cache) \in Nat
  BY Memoised DEF Inv, TypeOK, Tokens, Stores
<1>2. ASSUME NEW s \in Stores, NEW tok \in Known, Answer(r, s, tok), Safe(r, s, tok), Left(r),
             Return(r, s, tok) \/ (source = "keychain" /\ pc[r] \in Resolving),
             cache' \in Memos \cup {Nothing}, reader' \in Requests \cup {Nobody}, FileUncached'
      PROVE  Inv'
  <2>1. TypeOK'
    BY <1>1, <1>2, TypedReturn DEF Inv
  <2> QED BY <1>1, <1>2, <2>1, SafeReturn
<1>3. CASE ReadFile(r)
  <2>1. PICK tok \in {store["file"], 0} : Return(r, "file", tok)
    BY <1>3 DEF ReadFile
  <2>2. UNCHANGED <<cache, reader>> /\ step[r] \in {"idle", "missing"}
    BY <1>3 DEF ReadFile, Inv, Reading
  <2>3. Safe(r, "file", tok)
    BY <1>1, <2>1 DEF Safe, Inv, Published, Late, Other, Stores
  <2>4. Left(r) /\ FileUncached' /\ cache' \in Memos \cup {Nothing} /\ reader' \in Requests \cup {Nobody}
    BY <2>1, <2>2 DEF Left, FileUncached, Inv, TypeOK, Return, environment
  <2> QED BY <1>2, <2>1, <2>3, <2>4 DEF Stores, Answer
<1>4. CASE ServeStale(r)
  <2>1. KeychainFallback(r, snap[r].tok) /\ UNCHANGED <<cache, reader>> /\ step[r] = "missed"
    BY <1>4 DEF ServeStale
  <2>2. snap[r].tok = Tok(snap[r])
    BY <1>4 DEF ServeStale, Tok
  <2>3. Safe(r, "keychain", Tok(snap[r]))
    BY <1>1, <2>1 DEF Safe, Inv, Published, Order, Late
  <2>4. Left(r) /\ FileUncached' /\ cache' \in Memos \cup {Nothing} /\ reader' \in Requests \cup {Nobody}
    BY <2>1 DEF Left, FileUncached, Inv, TypeOK, KeychainFallback, Return, environment
  <2>5. source = "keychain" /\ pc[r] \in Resolving
    BY <1>4, <2>1 DEF Look, Inv, Reading
  <2> QED BY <1>2, <2>1, <2>2, <2>3, <2>4, <2>5 DEF Stores, Answer
<1>5. CASE Store(r)
  <2>1. /\ KeychainFallback(r, got[r]) /\ step[r] = "storing" /\ reader' = Nobody
        /\ cache' = [tok |-> got[r], fresh |-> TRUE]
    BY <1>5 DEF Store
  <2>2. cache' \in Memos /\ Tok(cache') = got[r]
    BY <1>1, <2>1, Stored
  <2>3. \A q \in Requests \ {r} : got[q] = 0
    BY <2>1, RequestAssumption DEF Inv, Reading
  <2>4. Safe(r, "keychain", got[r])
    BY <1>1, <2>1, <2>2, <2>3 DEF Safe, Inv, Published, Order, Late
  <2>5. Left(r) /\ FileUncached'
    BY <2>1, <2>2 DEF Left, FileUncached, Inv, Reading, KeychainFallback, Return, environment
  <2>6. source = "keychain" /\ pc[r] \in Resolving
    BY <2>1 DEF Inv, Reading
  <2> QED BY <1>2, <2>1, <2>2, <2>4, <2>5, <2>6 DEF Stores, Answer
<1>6. CASE Fresh(cache) /\ (Look(r) \/ WakeUp(r))
  <2>1. /\ KeychainFallback(r, cache.tok) /\ UNCHANGED <<cache, reader>>
        /\ step[r] \in {"idle", "blocked"}
    BY <1>6 DEF Look, WakeUp
  <2>2. cache.tok = Tok(cache)
    BY <1>6 DEF Fresh, Tok
  <2>3. Safe(r, "keychain", Tok(cache))
    BY <1>1, <2>1 DEF Safe, Inv, Published, Order, Late
  <2>4. Left(r) /\ FileUncached' /\ cache' \in Memos \cup {Nothing} /\ reader' \in Requests \cup {Nobody}
    BY <2>1 DEF Left, FileUncached, Inv, TypeOK, KeychainFallback, Return, environment
  <2>5. source = "keychain" /\ pc[r] \in Resolving
    BY <1>6, <2>1 DEF Look, WakeUp, Inv, Reading
  <2> QED BY <1>2, <2>1, <2>2, <2>3, <2>4, <2>5 DEF Stores, Answer
<1> QED BY <1>3, <1>4, <1>5, <1>6

-----------------------------------------------------------------------------
\* The parts of a read that return nothing.
LEMMA ContinueStays ==
  ASSUME Inv, NEW r \in Requests,
         TakeRefresh(r) \/ Block(r) \/ Fetch(r) \/ (~Fresh(cache) /\ (Look(r) \/ WakeUp(r)))
  PROVE  Inv'
<1> USE RequestAssumption, MaxTokenAssumption
<1>1. /\ Tok(cache) \in Nat /\ store["keychain"] \in Tokens /\ store["keychain"] \in Nat
      /\ \A q \in Requests : token[q] \in Nat /\ Tok(snap[q]) \in Nat /\ got[q] \in Nat
  BY Memoised DEF Inv, TypeOK, Tokens, Stores
<1>2. /\ UNCHANGED <<source, isMacos, store, cache, cooldown, left, nap, pc, token, retry, history>>
      /\ step' \in [Requests -> {"idle", "missed", "blocked", "fetching", "storing", "missing"}]
      /\ \A q \in Requests : q # r => step'[q] = step[q]
  BY DEF TakeRefresh, Block, Fetch, Look, WakeUp, Continue, environment, timers, sends,
         Inv, TypeOK, Return, Fresh
<1>3. (FileUncached /\ Stage /\ RetryMovesForward /\ RotationInTimeIsUsed)'
  BY <1>2 DEF Inv, FileUncached, Stage, RetryMovesForward, RotationInTimeIsUsed, history
<1>4. CASE Look(r) /\ ~Fresh(cache)
  <2>1. /\ step' = [step EXCEPT ![r] = "missed"] /\ snap' = [snap EXCEPT ![r] = cache]
        /\ UNCHANGED <<reader, got>> /\ step[r] = "idle" /\ pc[r] \in Resolving /\ source = "keychain"
    BY <1>4 DEF Look, Continue
  <2>2. TypeOK'
    BY <1>2, <2>1 DEF Inv, TypeOK, history
  <2>3. /\ snap'[r] = cache /\ step'[r] = "missed" /\ got'[r] = got[r]
        /\ \A q \in Requests : q # r => snap'[q] = snap[q] /\ got'[q] = got[q]
    BY <2>1 DEF Inv, TypeOK
  <2>4. Reading'
    BY <1>2, <2>1, <2>3 DEF Inv, Reading
  <2>5. Published' /\ Order' /\ Late'
    BY <1>1, <1>2, <2>1, <2>3 DEF Inv, Published, Order, Late, Other, history
  <2> QED BY <1>3, <2>2, <2>4, <2>5 DEF Inv
<1>5. CASE TakeRefresh(r) \/ (WakeUp(r) /\ ~Fresh(cache))
  <2>1. /\ step' = [step EXCEPT ![r] = "fetching"] /\ UNCHANGED <<snap, got>>
        /\ reader = Nobody /\ reader' = r /\ step[r] \in {"missed", "blocked"}
    BY <1>5 DEF TakeRefresh, WakeUp, Continue
  <2>2. TypeOK'
    BY <1>2, <2>1 DEF Inv, TypeOK, history
  <2>3. Reading'
    BY <1>2, <2>1 DEF Inv, Reading, TypeOK
  <2>4. Published' /\ Order' /\ Late'
    BY <1>2, <2>1 DEF Inv, Published, Order, Late, Other, history
  <2> QED BY <1>3, <2>2, <2>3, <2>4 DEF Inv
<1>6. CASE Block(r)
  <2>1. /\ step' = [step EXCEPT ![r] = "blocked"] /\ UNCHANGED <<snap, got, reader>> /\ step[r] = "missed"
    BY <1>6 DEF Block, Continue
  <2>2. TypeOK'
    BY <1>2, <2>1 DEF Inv, TypeOK, history
  <2>3. Reading'
    BY <1>2, <2>1 DEF Inv, Reading, TypeOK
  <2>4. Published' /\ Order' /\ Late'
    BY <1>2, <2>1 DEF Inv, Published, Order, Late, Other, history
  <2> QED BY <1>3, <2>2, <2>3, <2>4 DEF Inv
<1>7. CASE Fetch(r)
  <2>1. PICK tok \in {store["keychain"], 0} : got' = [got EXCEPT ![r] = tok]
    BY <1>7 DEF Fetch
  <2>2. /\ step' = [step EXCEPT ![r] = "storing"] /\ UNCHANGED <<snap, reader>> /\ step[r] = "fetching"
    BY <1>7 DEF Fetch, Continue
  <2>3. got'[r] = tok /\ \A q \in Requests : q # r => got'[q] = got[q]
    BY <2>1 DEF Inv, TypeOK
  <2>4. TypeOK'
    BY <1>1, <1>2, <2>1, <2>2 DEF Inv, TypeOK, Tokens, history
  <2>5. Reading'
    BY <1>2, <2>2, <2>3 DEF Inv, Reading, TypeOK
  <2>6. Published' /\ Order' /\ Late'
    BY <1>1, <1>2, <2>2, <2>3 DEF Inv, Reading, Published, Order, Late, Other, Stores, history
  <2> QED BY <1>3, <2>4, <2>5, <2>6 DEF Inv
<1> QED BY <1>4, <1>5, <1>6, <1>7

-----------------------------------------------------------------------------
\* Between the reads: the memo is kept or dropped, nobody's token changes.
LEMMA ForwardStays ==
  ASSUME Inv, NEW r \in Requests, Forward(r)
  PROVE  Inv'
<1> USE TimesAssumption
<1>1. /\ store["keychain"] \in Nat /\ store["file"] \in Nat /\ Tok(cache) \in Nat
      /\ \A q \in Requests : token[q] \in Nat /\ Tok(snap[q]) \in Nat /\ got[q] \in Nat
  BY Memoised, MaxTokenAssumption DEF Inv, TypeOK, Tokens, Stores
<1>2. /\ UNCHANGED <<source, isMacos, store, reader, step, snap, got, seen>>
      /\ cache' \in {cache, Nothing}
  BY DEF Forward, Attach, Accepted, Rejected, Drop, Wake, RejectedAgain, Leave,
         environment, memo, history
<1>3. \A q \in Requests : q # r =>
        /\ pc'[q] = pc[q] /\ overdue'[q] = overdue[q]
        /\ token'[q] = token[q] /\ retry'[q] = retry[q]
        /\ tokenFrom'[q] = tokenFrom[q] /\ retryFrom'[q] = retryFrom[q]
  BY DEF Forward, Attach, Accepted, Rejected, Drop, Wake, RejectedAgain, Leave, Goto, Forget,
         sends, history, Inv, TypeOK
\* What becomes of r.
<1>4. \/ /\ \/ pc[r] = "new" /\ pc'[r] = "attaching"
            \/ pc[r] \in {"sent", "claimed"} /\ pc'[r] \in {"claimed", "checking"}
         /\ token'[r] = token[r] /\ retry'[r] = retry[r] /\ overdue'[r] = overdue[r]
         /\ tokenFrom'[r] = tokenFrom[r] /\ retryFrom'[r] = retryFrom[r]
      \/ /\ pc[r] \in {"sent", "sleeping", "retrying"} /\ pc'[r] \in {"over", "explained"}
         /\ token'[r] = 0 /\ retry'[r] = 0 /\ tokenFrom'[r] = "none" /\ overdue'[r] = overdue[r]
      \/ /\ Wake(r) /\ pc[r] = "sleeping" /\ pc'[r] = "polling"
         /\ token'[r] = token[r] /\ retry'[r] = retry[r] /\ overdue'[r] = Overdue(r)
         /\ tokenFrom'[r] = tokenFrom[r] /\ retryFrom'[r] = retryFrom[r]
  <2>1. CASE Attach(r) \/ Rejected(r) \/ Drop(r)
    BY <2>1 DEF Attach, Rejected, Drop, Goto, sends, history, Inv, TypeOK
  <2>2. CASE Accepted(r) \/ RejectedAgain(r) \/ Leave(r)
    BY <2>2 DEF Accepted, RejectedAgain, Leave, Goto, Forget, Inv, TypeOK
  <2>3. CASE Wake(r)
    BY <2>3 DEF Wake, Goto, sends, Inv, TypeOK
  <2> QED BY <2>1, <2>2, <2>3 DEF Forward
<1>5. TypeOK'
  <2>1. pc' \in [Requests -> {"new", "sent", "claimed", "sleeping", "retrying"} \cup Resolving \cup Ended]
    BY DEF Forward, Attach, Accepted, Rejected, Drop, Wake, RejectedAgain, Leave, Goto,
           Inv, TypeOK, Resolving, Ended
  <2>2. overdue' \in [Requests -> Stores \cup {"none"}]
    BY DEF Forward, Attach, Accepted, Rejected, Drop, Wake, RejectedAgain, Leave, history,
           Inv, TypeOK, Overdue, Stores
  <2>3. /\ cooldown' \in 0 .. RejectionCooldown /\ left' \in [Requests -> 0 .. RotationWait]
        /\ nap' \in [Requests -> 0 .. 1]
    BY DEF Forward, Attach, Accepted, Rejected, Drop, Wake, RejectedAgain, Leave, timers, Inv, TypeOK
  <2>4. /\ token' \in [Requests -> Tokens] /\ retry' \in [Requests -> Tokens]
        /\ tokenFrom' \in [Requests -> Stores \cup {"none"}] /\ retryFrom' \in [Requests -> Stores \cup {"none"}]
    BY MaxTokenAssumption DEF Forward, Attach, Accepted, Rejected, Drop, Wake, RejectedAgain, Leave,
           sends, history, Forget, Inv, TypeOK, Tokens
  <2> QED BY <1>2, <2>1, <2>2, <2>3, <2>4 DEF Inv, TypeOK
<1>6. Tok(cache') \in {0, Tok(cache)}
  BY <1>2, NothingIsNone
<1>7. (Reading /\ FileUncached)'
  <2>1. pc'[r] \in Resolving \/ pc[r] \notin Resolving
    BY <1>4 DEF Resolving
  <2> QED BY <1>2, <1>3, <2>1 DEF Inv, Reading, FileUncached
<1>8. Stage'
  BY <1>3, <1>4 DEF Inv, Stage
<1>9. Published'
  BY <1>1, <1>2, <1>3, <1>4, <1>6 DEF Inv, Published, Stores
<1>10. Order'
  BY <1>1, <1>2, <1>3, <1>4, <1>6 DEF Inv, Order
<1>11. Late'
  <2> SUFFICES ASSUME NEW p \in Requests, pc'[p] = "polling", overdue'[p] # "none"
               PROVE  (/\ Other(p, Tok(cache)) /\ Other(p, Tok(snap[p]))
                       /\ \A q \in Requests : Other(p, got[q])
                       /\ source = "keychain" => Other(p, store["keychain"])
                       /\ overdue[p] = "file" => Other(p, store["file"]))'
    BY <1>2 DEF Late, Other
  <2>1. CASE p # r
    BY <1>2, <1>3, <1>6, <2>1 DEF Inv, Late, Other
  <2>2. CASE p = r
    <3>1. Wake(r) /\ pc[r] = "sleeping" /\ overdue'[r] = Overdue(r) /\ token'[r] = token[r]
      BY <1>4, <2>2 DEF Inv, Stage
    <3>2. /\ \A q \in Requests : step[q] # "storing"
          /\ source = "keychain" => Other(r, store["keychain"])
          /\ overdue'[r] = "file" => Other(r, store["file"])
      BY <2>2, <3>1 DEF Overdue, Reached, Stores, Other, Inv, TypeOK
    <3>3. cache' = Nothing
      BY <3>1 DEF Wake, Inv, FileUncached, TypeOK, Stores
    <3>4. step[r] = "idle" /\ snap[r] = Nothing /\ \A q \in Requests : got[q] = 0
      BY <3>1, <3>2 DEF Inv, Reading, Resolving
    <3> QED BY <1>2, <2>2, <3>1, <3>2, <3>3, <3>4, NothingIsNone DEF Other
  <2> QED BY <2>1, <2>2
<1>12. RetryMovesForward'
  BY <1>3, <1>4 DEF Inv, RetryMovesForward
<1>13. RotationInTimeIsUsed'
  BY <1>2, <1>3, <1>4 DEF Inv, RotationInTimeIsUsed, Stage
<1> QED BY <1>5, <1>7, <1>8, <1>9, <1>10, <1>11, <1>12, <1>13 DEF Inv

-----------------------------------------------------------------------------
\* The owner's tokens only get newer.
LEMMA RotateStays == ASSUME Inv, Rotate PROVE Inv'
<1> USE MaxTokenAssumption
<1>1. UNCHANGED <<source, isMacos, memo, timers, pc, sends, history>>
  BY DEF Rotate
<1>2. /\ store \in [Stores -> Tokens] /\ store["keychain"] \in Nat /\ store["file"] \in Nat
      /\ Tok(cache) \in Nat
      /\ \A q \in Requests : token[q] \in Nat /\ Tok(snap[q]) \in Nat /\ got[q] \in Nat
  BY Memoised DEF Inv, TypeOK, Tokens, Stores
<1>3. /\ Issued \in Nat /\ Issued + 1 \in Tokens
      /\ \A s \in Stores : store[s] <= Issued /\ store'[s] \in {store[s], Issued + 1}
      /\ store' \in [Stores -> Tokens]
  <2>1. PICK written \in SUBSET Reached \ {{}} :
          store' = [s \in Stores |-> IF s \in written THEN Issued + 1 ELSE store[s]]
    BY DEF Rotate
  <2>2. Issued < MaxToken
    BY DEF Rotate
  <2> QED BY <1>2, <2>1, <2>2 DEF Issued, Tokens, Stores
<1>4. TypeOK'
  BY <1>1, <1>3 DEF Inv, TypeOK, memo, timers, sends, history
<1>5. (Reading /\ FileUncached /\ Stage /\ Order /\ RetryMovesForward /\ RotationInTimeIsUsed)'
  BY <1>1 DEF Inv, memo, sends, history, Reading, FileUncached, Stage, Order, RetryMovesForward, RotationInTimeIsUsed
<1>6. Published'
  BY <1>1, <1>2, <1>3 DEF Inv, memo, sends, history, Published, Stores
<1>7. \A q \in Requests : token[q] <= Issued
  <2> SUFFICES ASSUME NEW q \in Requests PROVE token[q] <= Issued
    OBVIOUS
  <2>1. CASE token[q] = 0
    BY <1>3, <2>1
  <2>2. CASE token[q] # 0
    <3>1. PICK s \in Stores : tokenFrom[q] = s
      BY <2>2 DEF Inv, Stage
    <3>2. token[q] <= store[s] /\ store[s] <= Issued /\ store[s] \in Nat
      BY <1>2, <1>3, <3>1 DEF Inv, Published, Stores
    <3> QED BY <1>2, <1>3, <3>2
  <2> QED BY <2>1, <2>2
<1>8. Late'
  BY <1>1, <1>2, <1>3, <1>7 DEF Inv, memo, sends, history, Late, Other, Stores
<1> QED BY <1>4, <1>5, <1>6, <1>8 DEF Inv

\* A memo that is no longer fresh still holds its token.
LEMMA AgeStays == ASSUME Inv, Age PROVE Inv'
<1>1. cache \in Memos /\ cache' = [cache EXCEPT !.fresh = FALSE]
  BY DEF Age, Fresh, Inv, TypeOK
<1>2. cache' = [tok |-> cache.tok, fresh |-> FALSE] /\ cache.tok \in Tokens
  BY <1>1 DEF Memos
<1>3. cache' \in Memos /\ Tok(cache') = cache.tok
  BY <1>2, Stored
<1>4. Tok(cache) = cache.tok
  BY <1>1, Memoised, NothingAssumption
<1>5. /\ UNCHANGED <<environment, reader, step, snap, got, timers, pc, sends, history>>
      /\ Tok(cache') = Tok(cache)
  BY <1>3, <1>4 DEF Age
<1>6. TypeOK'
  BY <1>3, <1>5 DEF Inv, TypeOK, environment, timers, sends, history
<1>7. FileUncached'
  BY <1>1, <1>5, NothingAssumption DEF Inv, FileUncached, environment
<1>8. (Reading /\ Stage /\ RetryMovesForward /\ RotationInTimeIsUsed)'
  BY <1>5 DEF Inv, environment, sends, history, Reading, Stage, RetryMovesForward, RotationInTimeIsUsed
<1>9. Published' /\ Order'
  BY <1>5 DEF Inv, environment, sends, history, Published, Order
<1>10. Late'
  BY <1>5 DEF Inv, environment, sends, history, Late, Other
<1> QED BY <1>6, <1>7, <1>8, <1>9, <1>10 DEF Inv

\* Time changes none of it.
LEMMA TickStays == ASSUME Inv, Tick PROVE Inv'
<1>1. UNCHANGED <<environment, memo, pc, sends, history>>
  BY DEF Tick
<1>2. TypeOK'
  BY <1>1, TimesAssumption DEF Tick, RunDown, Inv, TypeOK, environment, memo, sends, history
<1> QED BY <1>1, <1>2 DEF Inv, environment, memo, sends, history, Reading, FileUncached, Stage,
           Published, Order, Late, Other, RetryMovesForward, RotationInTimeIsUsed

\* The strengthening holds when the gateway starts.
LEMMA InvAtStart == Init => Inv
<1> SUFFICES ASSUME Init PROVE Inv
  OBVIOUS
<1>1. TypeOK
  BY TimesAssumption, MaxTokenAssumption DEF Init, TypeOK, Tokens
<1>2. Tok(cache) = 0 /\ \A r \in Requests : Tok(snap[r]) = 0
  BY NothingIsNone DEF Init
<1>3. store["keychain"] \in Nat /\ store["file"] \in Nat
  BY <1>1 DEF TypeOK, Tokens, Stores
<1> QED BY <1>1, <1>2, <1>3 DEF Init, Inv, Reading, FileUncached, Stage, Published, Order, Late,
           RetryMovesForward, RotationInTimeIsUsed, Resolving, Stores

\* The strengthening is inductive.
LEMMA InvStays == Inv /\ [Next]_vars => Inv'
<1> SUFFICES ASSUME Inv, [Next]_vars PROVE Inv'
  OBVIOUS
<1>1. ASSUME NEW r \in Requests, Read(r) PROVE Inv'
  BY <1>1, ReadStays, ContinueStays DEF Read
<1>2. ASSUME NEW r \in Requests, Forward(r) PROVE Inv'
  BY <1>2, ForwardStays
<1>3. CASE Rotate
  BY <1>3, RotateStays
<1>4. CASE Age
  BY <1>4, AgeStays
<1>5. CASE Tick
  BY <1>5, TickStays
<1>6. CASE UNCHANGED vars
  BY <1>6 DEF vars, environment, memo, timers, sends, history, Inv, TypeOK, Reading, FileUncached, Stage,
              Published, Order, Late, Other, RetryMovesForward, RotationInTimeIsUsed
<1> QED BY <1>1, <1>2, <1>3, <1>4, <1>5, <1>6 DEF Next

-----------------------------------------------------------------------------
\* Every variable keeps its type.
THEOREM TypeCorrect == Spec => []TypeOK
<1>1. Inv => TypeOK
  BY DEF Inv
<1> QED BY <1>1, InvAtStart, InvStays, PTL DEF Spec

\* The retry of a rejected request carries another token, and if both came from one
\* store one its owner wrote later, although the code compares tokens for
\* difference only (anthropic_retry.rs, lines 13-16).
THEOREM RetriesMoveForward == Spec => []RetryMovesForward
<1>1. Inv => RetryMovesForward
  BY DEF Inv
<1> QED BY <1>1, InvAtStart, InvStays, PTL DEF Spec

\* wait_for_rotation's last look is not too early: who gives up after a rotation
\* was not given the token by the store that held it.
THEOREM RotationsInTimeAreUsed == Spec => []RotationInTimeIsUsed
<1>1. Inv => RotationInTimeIsUsed
  BY DEF Inv
<1> QED BY <1>1, InvAtStart, InvStays, PTL DEF Spec
=============================================================================
