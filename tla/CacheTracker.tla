---------------------------- MODULE CacheTracker ----------------------------
(***************************************************************************)
(* The prompt-cache tracker of src/cache_trace.rs: the two recency tables  *)
(* behind `Tracker`, the guard each traced request carries from `on_send`  *)
(* to its drop, and the calls `forward` and UsageTap make on that guard.   *)
(*                                                                         *)
(* A table is a bounded LRU of entries; an entry counts the sends whose    *)
(* response has not begun (`pending`), remembers the last send and the one *)
(* before it, and how long upstream's copy is readable.  A send is named   *)
(* by its sequence number, which stands for last_sent too: the two are     *)
(* only ever assigned together.  The instant at which a send's cache entry *)
(* would expire is chosen freely from a small set.                         *)
(*                                                                         *)
(* The tracker's mutex makes each action one step.  A body that is not a   *)
(* JSON object gets no guard and touches nothing; it is not modelled.      *)
(*                                                                         *)
(* A definition introduced by "Slip" is not the code: it is the definition *)
(* after it with a plausible mistake, kept to see the properties fail.     *)
(***************************************************************************)
EXTENDS Integers, FiniteSets

CONSTANTS
  Requests,    \* the traced requests
  Tables,      \* the recency tables: "prefix", "tools"
  Keys,        \* (model, ctx_fp, fingerprint) triples
  RecencyCap,  \* RECENCY_CAP, the entries a table may hold
  Expiries,    \* send time + TTL, as far as its order matters
  Absent       \* no entry, no key, no instant

ASSUME RequestsAssumption == IsFiniteSet(Requests)
ASSUME KeysAssumption == IsFiniteSet(Keys)
ASSUME TablesAssumption == Tables \subseteq {"prefix", "tools"}
ASSUME CapAssumption == RecencyCap \in Nat \ {0}
ASSUME ExpiriesAssumption == Expiries \subseteq Nat

VARIABLES
  seq,        \* Inner.seq: sends so far
  table,      \* table[tb][k]: the entry, or Absent
  older,      \* older[tb]: <<a, b>> when a was used less recently than b
  pc,         \* pc[r]: how far r's guard is
  want,       \* want[r][tb]: the key of r's body, Absent if it has none
  sent,       \* sent[r]: the guard's seq
  hold,       \* hold[r][tb]: the key the guard holds in a table
  expiry,     \* expiry[r][tb]: what a success raises readable_until to
  outcome,    \* outcome[r]: what the guard settled the tables with
  lines,      \* lines[r]: `cache trace` lines written
  overlapped  \* history: keys that ever had two pending sends at once

vars == <<seq, table, older, pc, want, sent, hold, expiry, outcome, lines, overlapped>>

Entries ==
  [last : Nat, prev : Nat \cup {Absent}, readable : Expiries \cup {Absent}, pending : Nat]

ASSUME AbsentAssumption == Absent \notin Entries \cup Keys \cup Nat

\* lines: at most one per guard.
TypeOK ==
  /\ seq \in Nat
  /\ table \in [Tables -> [Keys -> Entries \cup {Absent}]]
  /\ older \in [Tables -> SUBSET (Keys \X Keys)]
  /\ pc \in [Requests -> {"new", "sent", "opened", "begun", "over"}]
  /\ want \in [Requests -> [Tables -> Keys \cup {Absent}]]
  /\ sent \in [Requests -> Nat]
  /\ hold \in [Requests -> [Tables -> Keys \cup {Absent}]]
  /\ expiry \in [Requests -> [Tables -> Expiries \cup {Absent}]]
  /\ outcome \in [Requests -> {"none", "ok", "failed"}]
  /\ lines \in [Requests -> 0 .. 1]
  /\ overlapped \subseteq Tables \X Keys

Init ==
  /\ seq = 0
  /\ table = [tb \in Tables |-> [k \in Keys |-> Absent]]
  /\ older = [tb \in Tables |-> {}]
  /\ pc = [r \in Requests |-> "new"]
  /\ want \in [Requests -> [Tables -> Keys \cup {Absent}]]
  /\ sent = [r \in Requests |-> 0]
  /\ hold = [r \in Requests |-> [tb \in Tables |-> Absent]]
  /\ expiry = [r \in Requests |-> [tb \in Tables |-> Absent]]
  /\ outcome = [r \in Requests |-> "none"]
  /\ lines = [r \in Requests |-> 0]
  /\ overlapped = {}

-----------------------------------------------------------------------------
(* One table: lookup, eviction, update. *)

Present(tb) == {k \in Keys : table[tb][k] # Absent}

\* Entries no send is waiting on.
Idle(tb) == {k \in Present(tb) : table[tb][k].pending = 0}

Full(tb) == Cardinality(Present(tb)) >= RecencyCap

Oldest(tb, S) == {v \in S : \A w \in S \ {v} : <<v, w>> \in older[tb]}

\* Slip: the least recently used entry goes, in use or not.
VictimsAny(tb) == Oldest(tb, Present(tb))

\* make_room: the least recently used entry without pending sends.
Victims(tb) == Oldest(tb, Idle(tb))

\* touch succeeds: a hit, a free place, or somebody to evict.
Accepts(tb, k) ==
  k # Absent /\ (k \in Present(tb) \/ ~Full(tb) \/ Victims(tb) # {})

\* The entry evicted for k, if any.
Evicted(tb, k) ==
  IF Accepts(tb, k) /\ k \notin Present(tb) /\ Full(tb) THEN Victims(tb) ELSE {Absent}

Touched(tb, k, s) ==
  IF k \in Present(tb)
  THEN [table[tb][k] EXCEPT !.prev = table[tb][k].last, !.last = s, !.pending = @ + 1]
  ELSE [last |-> s, prev |-> Absent, readable |-> Absent, pending |-> 1]

\* The order without the keys in gone.
Without(order, gone) == {p \in order : p[1] \notin gone /\ p[2] \notin gone}

\* The order with the keys of S moved behind all others, order kept within S.
Renewed(order, S, all) ==
  {p \in order : p[1] \in S => p[2] \in S} \cup ((all \ S) \X S)

\* make_room pushes the pending entries it passes over to the front; the
\* touched entry then becomes the most recent.
Reordered(tb, k, v) ==
  LET passed == {q \in Keys : <<q, v>> \in older[tb]}
      left == Present(tb) \ {v}
      rotated == Renewed(Without(older[tb], {v}), passed, left)
  IN Renewed(rotated, {k}, left \cup {k})

-----------------------------------------------------------------------------
(* Settling a send. *)

Later(a, b) == IF a = Absent \/ b > a THEN b ELSE a

\* Slip: whatever the outcome, the entry becomes readable.
SettledAlwaysReadable(e, s, exp, success) ==
  [e EXCEPT !.pending = IF @ = 0 THEN 0 ELSE @ - 1, !.readable = Later(@, exp)]

\* Slip: a failure rolls back whoever sent last.
SettledRollsBackAny(e, s, exp, success) ==
  LET f == [e EXCEPT !.pending = IF @ = 0 THEN 0 ELSE @ - 1] IN
  IF success THEN [f EXCEPT !.readable = Later(@, exp)]
  ELSE IF f.prev # Absent THEN [f EXCEPT !.last = f.prev, !.prev = Absent]
  ELSE f

\* Slip: the key of a failed first send stays.
SettledKeepsFirst(e, s, exp, success) ==
  LET f == [e EXCEPT !.pending = IF @ = 0 THEN 0 ELSE @ - 1] IN
  IF success THEN [f EXCEPT !.readable = Later(@, exp)]
  ELSE IF f.last = s /\ f.prev # Absent THEN [f EXCEPT !.last = f.prev, !.prev = Absent]
  ELSE f

\* settle_entry.  Success raises readable_until.  A failure nothing was sent
\* after is rolled back one level; with nothing to roll back to, the key goes,
\* unless it is readable or in use.
Settled(e, s, exp, success) ==
  LET f == [e EXCEPT !.pending = IF @ = 0 THEN 0 ELSE @ - 1] IN
  IF success THEN [f EXCEPT !.readable = Later(@, exp)]
  ELSE IF f.last # s THEN f
  ELSE IF f.prev # Absent THEN [f EXCEPT !.last = f.prev, !.prev = Absent]
  ELSE IF f.readable = Absent /\ f.pending = 0 THEN Absent
  ELSE f

\* Tracker::settle: both tables, for the keys r's guard holds.
Settle(r, success) ==
  /\ table' = [tb \in Tables |-> [k \in Keys |->
                 IF hold[r][tb] = k /\ table[tb][k] # Absent
                 THEN Settled(table[tb][k], sent[r], expiry[r][tb], success)
                 ELSE table[tb][k]]]
  /\ older' = [tb \in Tables |->
                 Without(older[tb], {k \in Keys : table'[tb][k] = Absent})]
  /\ outcome' = [outcome EXCEPT ![r] = IF success THEN "ok" ELSE "failed"]
  /\ UNCHANGED <<seq, want, sent, hold, expiry, overlapped>>

-----------------------------------------------------------------------------
(* The guard. *)

\* on_send: read, classify and update both tables under one lock.  A request
\* without a prefix breakpoint, or without tools, wants no key in that table; a
\* refused insert holds none.
Send(r) ==
  /\ pc[r] = "new"
  /\ seq' = seq + 1
  /\ pc' = [pc EXCEPT ![r] = "sent"]
  /\ sent' = [sent EXCEPT ![r] = seq + 1]
  /\ hold' = [hold EXCEPT ![r] = [tb \in Tables |->
                IF Accepts(tb, want[r][tb]) THEN want[r][tb] ELSE Absent]]
  /\ \E exp \in [Tables -> Expiries] : expiry' = [expiry EXCEPT ![r] = exp]
  /\ \E evicted \in [Tables -> UNION {Evicted(tb, want[r][tb]) : tb \in Tables}] :
       /\ \A tb \in Tables : evicted[tb] \in Evicted(tb, want[r][tb])
       /\ table' = [tb \in Tables |-> [k \in Keys |->
                      IF k = want[r][tb] /\ Accepts(tb, k) THEN Touched(tb, k, seq + 1)
                      ELSE IF k = evicted[tb] THEN Absent
                      ELSE table[tb][k]]]
       /\ older' = [tb \in Tables |->
                      IF Accepts(tb, want[r][tb]) THEN Reordered(tb, want[r][tb], evicted[tb])
                      ELSE older[tb]]
  /\ overlapped' = overlapped \cup
       {p \in Tables \X Keys : want[r][p[1]] = p[2] /\ p[2] \in Present(p[1]) \ Idle(p[1])}
  /\ UNCHANGED <<want, outcome, lines>>

\* set_status with a failure, at either of forward's call sites: settled, the
\* line written, the guard dropped.
Refused(r) ==
  /\ pc[r] = "sent"
  /\ pc' = [pc EXCEPT ![r] = "over"]
  /\ lines' = [lines EXCEPT ![r] = @ + 1]
  /\ Settle(r, FALSE)

\* set_status, 2xx and not streaming: counts as begun.
Whole(r) ==
  /\ pc[r] = "sent"
  /\ pc' = [pc EXCEPT ![r] = "begun"]
  /\ Settle(r, TRUE)
  /\ UNCHANGED lines

\* set_status, 2xx and streaming: waits for the first chunk.
Opened(r) ==
  /\ pc[r] = "sent"
  /\ pc' = [pc EXCEPT ![r] = "opened"]
  /\ UNCHANGED <<seq, table, older, want, sent, hold, expiry, outcome, lines, overlapped>>

\* UsageTap::observe, first chunk: begun, and perhaps the usage already.
FirstChunk(r) ==
  /\ pc[r] = "opened"
  /\ pc' = [pc EXCEPT ![r] = "begun"]
  /\ \/ UNCHANGED lines
     \/ lines' = [lines EXCEPT ![r] = @ + 1]
  /\ Settle(r, TRUE)

\* A later chunk, or the end of a JSON body, carries the usage.
Usage(r) ==
  /\ pc[r] = "begun"
  /\ lines[r] = 0
  /\ lines' = [lines EXCEPT ![r] = 1]
  /\ UNCHANGED <<seq, table, older, pc, want, sent, hold, expiry, outcome, overlapped>>

\* Drop: a transport error, a client that left, or the end of the body.
Drop(r) ==
  /\ pc[r] \in {"sent", "opened", "begun"}
  /\ pc' = [pc EXCEPT ![r] = "over"]
  /\ lines' = [lines EXCEPT ![r] = 1]
  /\ IF outcome[r] = "none" THEN Settle(r, FALSE)
     ELSE UNCHANGED <<seq, table, older, want, sent, hold, expiry, outcome, overlapped>>

Guard(r) ==
  \/ Send(r) \/ Refused(r) \/ Whole(r) \/ Opened(r)
  \/ FirstChunk(r) \/ Usage(r) \/ Drop(r)

Next == \E r \in Requests : Guard(r)

Spec == Init /\ [][Next]_vars

-----------------------------------------------------------------------------
(* Properties. *)

\* The sends that hold key k and have not settled.
Unsettled(tb, k) ==
  {r \in Requests : pc[r] # "new" /\ hold[r][tb] = k /\ outcome[r] = "none"}

\* pending is exactly the number of unsettled guards: every path of forward
\* and of the tap releases the count once, an entry somebody waits on is never
\* evicted, and saturating_sub never saturates.
PendingExact ==
  \A tb \in Tables, k \in Keys :
    Cardinality(Unsettled(tb, k)) =
      IF k \in Present(tb) THEN table[tb][k].pending ELSE 0

\* "A send that fails never makes the entry readable": readable_until is what
\* a send of that key which did begin earned.
ReadableOnlyIfBegun ==
  \A tb \in Tables, k \in Keys :
    k \in Present(tb) /\ table[tb][k].readable # Absent =>
      \E r \in Requests :
        outcome[r] = "ok" /\ hold[r][tb] = k /\ expiry[r][tb] = table[tb][k].readable

\* However sends, successes and failures interleave, a rollback never forgets
\* a send that has not failed: recency is never understated.
RollbackKeepsSends ==
  \A tb \in Tables : \A k \in Present(tb), r \in Requests :
    pc[r] # "new" /\ hold[r][tb] = k /\ outcome[r] # "failed" => sent[r] =< table[tb][k].last

\* "Failed sends must not pollute recency": for a key whose sends never
\* overlapped, the last send remembered is one that has not failed.
FailuresLeaveNoTrace ==
  \A tb \in Tables : \A k \in Present(tb) :
    <<tb, k>> \notin overlapped =>
      \A r \in Requests : outcome[r] = "failed" => sent[r] # table[tb][k].last

=============================================================================
