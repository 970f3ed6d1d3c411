------------------------- MODULE CacheTrackerProofs -------------------------
(***************************************************************************)
(* Proofs about CacheTracker, for any number of requests, keys and any     *)
(* capacity.                                                               *)
(*                                                                         *)
(* PendingExact and RollbackKeepsSends are not inductive alone.  The first *)
(* needs to know that a guard settles once (Lifecycle): a second settle    *)
(* would release somebody else's count.  The second needs to know what a   *)
(* rollback will restore (History): every unfailed send that is not the    *)
(* last one is covered by prev.  FailuresLeaveNoTrace is about keys whose  *)
(* sends do not overlap: at most one is out (NoTrace).                     *)
(*                                                                         *)
(* The second half is about CacheTrace, the whole of on_send, for any      *)
(* bodies, caps and budget.  Every traced run is a run of CacheTracker     *)
(* (TraceRefines).  What a line reports needs to know what the table of    *)
(* previous requests holds (TableHolds): the last request of each of its   *)
(* keys, in the order these were sent, and a key that is gone had          *)
(* PREV_SLOTS others after it; and that seq_diff and first_diff, which     *)
(* compare capped hashes and kept bytes, find the first difference of the  *)
(* sequences themselves (SeqDiff, FirstDiff).                              *)
(***************************************************************************)
EXTENDS CacheTrace, FiniteSetTheorems, SequenceTheorems, NaturalsInduction,
        WellFoundedInduction, TLAPS

USE DEF Present

\* Where a guard stands determines what it did: settled or not, line or not.
Lifecycle ==
  \A r \in Requests :
    /\ pc[r] \in {"new", "sent", "opened"} => outcome[r] = "none" /\ lines[r] = 0
    /\ pc[r] \in {"begun", "over"} => outcome[r] # "none"
    /\ pc[r] = "over" => lines[r] = 1
    /\ pc[r] = "new" => \A tb \in Tables : hold[r][tb] = Absent
    /\ pc[r] # "new" => \A tb \in Tables : expiry[r][tb] \in Expiries

\* Sequence numbers are distinct, and none is ahead of the counter.
Numbered ==
  /\ \A r \in Requests : sent[r] =< seq
  /\ \A q, r \in Requests : q # r /\ pc[q] # "new" /\ pc[r] # "new" => sent[q] # sent[r]
  /\ \A tb \in Tables : \A k \in Present(tb) :
       /\ table[tb][k].last =< seq
       /\ table[tb][k].prev # Absent => table[tb][k].prev =< seq

\* What `last` and `prev` know of the sends that have not failed.
History ==
  \A tb \in Tables : \A k \in Present(tb) :
    \A r \in Requests : hold[r][tb] = k /\ outcome[r] # "failed" =>
      /\ sent[r] =< table[tb][k].last
      /\ sent[r] # table[tb][k].last /\ table[tb][k].prev # Absent
           => sent[r] =< table[tb][k].prev

IInv ==
  /\ TypeOK
  /\ Lifecycle
  /\ Numbered
  /\ PendingExact
  /\ History
  /\ ReadableOnlyIfBegun

-----------------------------------------------------------------------------
(* Sends that have not settled. *)

\* There are finitely many.
LEMMA UnsettledFinite ==
  ASSUME NEW tb, NEW k
  PROVE  IsFiniteSet(Unsettled(tb, k)) /\ Cardinality(Unsettled(tb, k)) \in Nat
<1>1. Unsettled(tb, k) \subseteq Requests
  BY DEF Unsettled
<1>. QED
  BY <1>1, RequestsAssumption, FS_Subset, FS_CardinalityType

\* A key somebody waits on has an entry, with a positive count.
LEMMA UnsettledPins ==
  ASSUME TypeOK, PendingExact, NEW tb \in Tables, NEW k \in Keys, NEW r \in Unsettled(tb, k)
  PROVE  /\ k \in Present(tb) /\ table[tb][k].pending > 0
         /\ Cardinality(Unsettled(tb, k)) = table[tb][k].pending
<1>1. Cardinality(Unsettled(tb, k)) # 0
  BY UnsettledFinite, FS_EmptySet
<1>2. Cardinality(Unsettled(tb, k)) \in Nat
  BY UnsettledFinite
<1>. QED
  BY <1>1, <1>2 DEF PendingExact

\* What settle_entry makes of an entry.
LEMMA SettledFacts ==
  ASSUME NEW e \in Entries, NEW s \in Nat, NEW exp \in Expiries, NEW success \in BOOLEAN,
         e.pending > 0, NEW f, f = Settled(e, s, exp, success)
  PROVE  /\ f \in Entries \cup {Absent}
         /\ f = Absent => e.pending = 1
         /\ f # Absent =>
              /\ f.pending = e.pending - 1
              /\ f.readable # e.readable => success /\ f.readable = exp
              /\ \/ f.last = e.last /\ f.prev = e.prev
                 \/ ~success /\ e.last = s /\ e.prev # Absent
                    /\ f.last = e.prev /\ f.prev = Absent
<1> DEFINE g == [e EXCEPT !.pending = IF @ = 0 THEN 0 ELSE @ - 1]
<1>1. /\ g \in Entries
      /\ g.pending = e.pending - 1 /\ g.last = e.last /\ g.prev = e.prev /\ g.readable = e.readable
  BY DEF Entries
<1> HIDE DEF g
<1>2. Later(g.readable, exp) \in {g.readable, exp} /\ Later(g.readable, exp) \in Expiries
  BY <1>1, ExpiriesAssumption DEF Later, Entries
<1>3. CASE success
  <2>1. Settled(e, s, exp, success) = [g EXCEPT !.readable = Later(@, exp)]
    BY <1>3 DEF Settled, g
  <2> DEFINE h == [g EXCEPT !.readable = Later(g.readable, exp)]
  <2>2. /\ h \in Entries /\ h.pending = g.pending /\ h.last = g.last /\ h.prev = g.prev
        /\ h.readable = Later(g.readable, exp)
    BY <1>1, <1>2 DEF Entries
  <2>3. h # Absent
    BY <2>2, AbsentAssumption
  <2>. QED
    BY <1>1, <1>2, <1>3, <2>1, <2>2, <2>3
<1>4. CASE ~success
  <2>1. CASE g.last = s /\ g.prev # Absent
    <3>1. Settled(e, s, exp, success) = [g EXCEPT !.last = g.prev, !.prev = Absent]
      BY <1>4, <2>1 DEF Settled, g
    <3> DEFINE h == [g EXCEPT !.last = g.prev, !.prev = Absent]
    <3>2. /\ h \in Entries /\ h.pending = g.pending /\ h.last = g.prev /\ h.prev = Absent
          /\ h.readable = g.readable
      BY <1>1, <2>1 DEF Entries
    <3>3. h # Absent
      BY <3>2, AbsentAssumption
    <3>. QED
      BY <1>1, <1>4, <2>1, <3>1, <3>2, <3>3
  <2>2. CASE g.last # s
    <3>1. Settled(e, s, exp, success) = g
      BY <1>4, <2>2 DEF Settled, g
    <3>. QED
      BY <1>1, <3>1, AbsentAssumption
  <2>3. CASE g.last = s /\ g.prev = Absent
    <3>1. \/ Settled(e, s, exp, success) = Absent /\ g.pending = 0
          \/ Settled(e, s, exp, success) = g
      BY <1>4, <2>3 DEF Settled, g
    <3>. QED
      BY <1>1, <3>1, AbsentAssumption DEF Entries
  <2>. QED
    BY <2>1, <2>2, <2>3
<1>. QED
  BY <1>3, <1>4

-----------------------------------------------------------------------------
(* A guard settles. *)

\* A settle keeps the invariant, whatever the outcome and wherever the guard goes.
LEMMA SettleStep ==
  ASSUME IInv, NEW r \in Requests, pc[r] \in {"sent", "opened"},
         Settle(r, TRUE) \/ Settle(r, FALSE),
         pc'[r] \in {"begun", "over"}, pc' = [pc EXCEPT ![r] = pc'[r]],
         lines'[r] \in 0 .. 1, lines' = [lines EXCEPT ![r] = lines'[r]],
         pc'[r] = "over" => lines'[r] = 1
  PROVE  IInv'
<1> USE DEF IInv
<1>0. PICK success \in BOOLEAN : Settle(r, success)
  OBVIOUS
<1> DEFINE to == pc'[r]
           n == lines'[r]
<1>1. /\ UNCHANGED <<seq, want, sent, hold, expiry, overlapped>>
      /\ outcome' = [outcome EXCEPT ![r] = IF success THEN "ok" ELSE "failed"]
      /\ outcome[r] = "none" /\ \A tb \in Tables : expiry[r][tb] \in Expiries
  BY <1>0 DEF Settle, Lifecycle
<1>2. ASSUME NEW tb \in Tables, NEW k \in Keys, hold[r][tb] # k
      PROVE  table'[tb][k] = table[tb][k] /\ Unsettled(tb, k)' = Unsettled(tb, k)
  <2>1. table'[tb][k] = table[tb][k]
    BY <1>0, <1>2 DEF Settle
  <2>2. Unsettled(tb, k)' = Unsettled(tb, k)
    BY <1>1, <1>2 DEF Unsettled, TypeOK
  <2>. QED
    BY <2>1, <2>2
<1>3. ASSUME NEW tb \in Tables, NEW k \in Keys, hold[r][tb] = k
      PROVE  /\ k \in Present(tb) /\ table[tb][k] \in Entries /\ table[tb][k].pending > 0
             /\ table'[tb][k] = Settled(table[tb][k], sent[r], expiry[r][tb], success)
             /\ Unsettled(tb, k)' = Unsettled(tb, k) \ {r}
             /\ Cardinality(Unsettled(tb, k)') = table[tb][k].pending - 1
  <2>1. r \in Unsettled(tb, k)
    BY <1>1, <1>3 DEF Unsettled
  <2>2. k \in Present(tb) /\ table[tb][k].pending > 0
        /\ Cardinality(Unsettled(tb, k)) = table[tb][k].pending
    BY <2>1, UnsettledPins
  <2>3. table[tb][k] \in Entries
    BY <2>2 DEF TypeOK
  <2>4. Unsettled(tb, k)' = Unsettled(tb, k) \ {r}
    BY <1>1, <1>3 DEF Unsettled, TypeOK
  <2>5. Cardinality(Unsettled(tb, k) \ {r}) = Cardinality(Unsettled(tb, k)) - 1
    BY <2>1, UnsettledFinite, FS_RemoveElement
  <2>6. table'[tb][k] = Settled(table[tb][k], sent[r], expiry[r][tb], success)
    BY <1>0, <1>3, <2>2 DEF Settle
  <2>. QED
    BY <2>2, <2>3, <2>4, <2>5, <2>6
<1>4. ASSUME NEW tb \in Tables, NEW k \in Keys, hold[r][tb] = k
      PROVE  /\ table'[tb][k] \in Entries \cup {Absent}
             /\ table'[tb][k] = Absent => table[tb][k].pending = 1
             /\ table'[tb][k] # Absent =>
                  /\ table'[tb][k].pending = table[tb][k].pending - 1
                  /\ table'[tb][k].readable # table[tb][k].readable
                       => success /\ table'[tb][k].readable = expiry[r][tb]
                  /\ \/ /\ table'[tb][k].last = table[tb][k].last
                        /\ table'[tb][k].prev = table[tb][k].prev
                     \/ /\ ~success
                        /\ table[tb][k].last = sent[r] /\ table[tb][k].prev # Absent
                        /\ table'[tb][k].last = table[tb][k].prev
                        /\ table'[tb][k].prev = Absent
  <2> DEFINE e == table[tb][k]
             f == table'[tb][k]
  <2>1. sent[r] \in Nat /\ expiry[r][tb] \in Expiries
    BY <1>1 DEF TypeOK
  <2>2. e \in Entries /\ e.pending > 0 /\ f = Settled(e, sent[r], expiry[r][tb], success)
    BY <1>3, <1>4
  <2> HIDE DEF e, f
  <2>3. /\ f \in Entries \cup {Absent}
        /\ f = Absent => e.pending = 1
        /\ f # Absent =>
             /\ f.pending = e.pending - 1
             /\ f.readable # e.readable => success /\ f.readable = expiry[r][tb]
             /\ \/ f.last = e.last /\ f.prev = e.prev
                \/ ~success /\ e.last = sent[r] /\ e.prev # Absent
                   /\ f.last = e.prev /\ f.prev = Absent
    BY <2>1, <2>2, SettledFacts
  <2>. QED
    BY <2>3 DEF e, f
<1>5. TypeOK'
  <2>1. table' \in [Tables -> [Keys -> Entries \cup {Absent}]]
    <3>1. ASSUME NEW tb \in Tables, NEW k \in Keys PROVE table'[tb][k] \in Entries \cup {Absent}
      <4>1. table[tb][k] \in Entries \cup {Absent}
        BY DEF TypeOK
      <4>2. CASE hold[r][tb] = k
        BY <1>4, <4>2
      <4>3. CASE hold[r][tb] # k
        BY <1>2, <4>1, <4>3
      <4>. QED
        BY <4>2, <4>3
    <3>2. table' = [tb \in Tables |-> [k \in Keys |-> table'[tb][k]]]
      BY <1>0 DEF Settle
    <3>. QED
      BY <3>1, <3>2
  <2>2. older' \in [Tables -> SUBSET (Keys \X Keys)]
    <3>1. ASSUME NEW tb \in Tables PROVE older'[tb] \subseteq older[tb]
      <4>1. older'[tb] = Without(older[tb], {k \in Keys : table'[tb][k] = Absent})
        BY <1>0 DEF Settle
      <4>. QED
        BY <4>1 DEF Without
    <3>2. older' = [tb \in Tables |-> older'[tb]]
      BY <1>0 DEF Settle
    <3>. QED
      BY <3>1, <3>2 DEF TypeOK
  <2>3. outcome' \in [Requests -> {"none", "ok", "failed"}]
    BY <1>1 DEF TypeOK
  <2>4. pc' \in [Requests -> {"new", "sent", "opened", "begun", "over"}]
    BY DEF TypeOK
  <2>5. lines' \in [Requests -> 0 .. 1]
    BY DEF TypeOK
  <2>. QED
    BY <1>1, <2>1, <2>2, <2>3, <2>4, <2>5 DEF TypeOK
<1>6. Lifecycle'
  BY <1>1 DEF Lifecycle, TypeOK
<1>7. Numbered'
  <2>1. ASSUME NEW tb \in Tables, NEW k \in Present(tb)'
        PROVE  /\ table'[tb][k].last =< seq'
               /\ table'[tb][k].prev # Absent => table'[tb][k].prev =< seq'
    <3>1. CASE hold[r][tb] # k
      BY <1>1, <1>2, <2>1, <3>1 DEF Numbered
    <3>2. CASE hold[r][tb] = k
      <4>1. /\ table[tb][k].last =< seq
            /\ table[tb][k].prev # Absent => table[tb][k].prev =< seq
        BY <1>3, <3>2 DEF Numbered
      <4>2. CASE table'[tb][k].last = table[tb][k].last /\ table'[tb][k].prev = table[tb][k].prev
        BY <1>1, <4>1, <4>2
      <4>3. CASE /\ table[tb][k].prev # Absent
                 /\ table'[tb][k].last = table[tb][k].prev /\ table'[tb][k].prev = Absent
        BY <1>1, <4>1, <4>3
      <4>. QED
        BY <1>4, <2>1, <3>2, <4>2, <4>3
    <3>. QED
      BY <3>1, <3>2
  <2>2. \A q \in Requests : pc'[q] = "new" <=> pc[q] = "new"
    BY DEF TypeOK
  <2>. QED
    BY <1>1, <2>1, <2>2 DEF Numbered
<1>8. PendingExact'
  <2>1. ASSUME NEW tb \in Tables, NEW k \in Keys
        PROVE  Cardinality(Unsettled(tb, k)') =
                 IF k \in Present(tb)' THEN table'[tb][k].pending ELSE 0
    <3>1. CASE hold[r][tb] # k
      BY <1>2, <3>1 DEF PendingExact
    <3>2. CASE hold[r][tb] = k
      <4>1. CASE table'[tb][k] = Absent
        BY <1>3, <1>4, <3>2, <4>1 DEF Entries
      <4>2. CASE table'[tb][k] # Absent
        BY <1>3, <1>4, <3>2, <4>2
      <4>. QED
        BY <4>1, <4>2
    <3>. QED
      BY <3>1, <3>2
  <2>2. \A tb, k : Cardinality(Unsettled(tb, k))' = Cardinality(Unsettled(tb, k)')
    BY DEF Cardinality
  <2>. QED
    BY <2>1, <2>2 DEF PendingExact
<1>9. History'
  <2>1. ASSUME NEW tb \in Tables, NEW k \in Present(tb)', NEW q \in Requests,
               hold'[q][tb] = k, outcome'[q] # "failed"
        PROVE  /\ sent'[q] =< table'[tb][k].last
               /\ sent'[q] # table'[tb][k].last /\ table'[tb][k].prev # Absent
                    => sent'[q] =< table'[tb][k].prev
    <3>1. hold[q][tb] = k /\ outcome[q] # "failed" /\ (q = r => success) /\ sent'[q] = sent[q]
      BY <1>1, <2>1 DEF TypeOK
    <3>2. CASE hold[r][tb] # k
      BY <1>2, <2>1, <3>1, <3>2 DEF History
    <3>3. CASE hold[r][tb] = k
      <4>1. /\ sent[q] =< table[tb][k].last
            /\ sent[q] # table[tb][k].last /\ table[tb][k].prev # Absent
                 => sent[q] =< table[tb][k].prev
        BY <1>3, <3>1, <3>3 DEF History
      <4>2. CASE table'[tb][k].last = table[tb][k].last /\ table'[tb][k].prev = table[tb][k].prev
        BY <3>1, <4>1, <4>2
      <4>3. CASE /\ ~success /\ table[tb][k].last = sent[r] /\ table[tb][k].prev # Absent
                 /\ table'[tb][k].last = table[tb][k].prev /\ table'[tb][k].prev = Absent
        <5>1. q # r /\ pc[q] # "new"
          BY <3>1, <4>3, AbsentAssumption DEF Lifecycle
        <5>2. sent[q] # sent[r]
          BY <5>1 DEF Numbered
        <5>. QED
          BY <3>1, <4>1, <4>3, <5>2
      <4>. QED
        BY <1>4, <2>1, <3>3, <4>2, <4>3
    <3>. QED
      BY <3>2, <3>3
  <2>. QED
    BY <2>1 DEF History
<1>10. ReadableOnlyIfBegun'
  <2>1. ASSUME NEW tb \in Tables, NEW k \in Keys, k \in Present(tb)',
               table'[tb][k].readable # Absent
        PROVE  \E q \in Requests : /\ outcome'[q] = "ok" /\ hold'[q][tb] = k
                                   /\ expiry'[q][tb] = table'[tb][k].readable
    <3>1. CASE hold[r][tb] = k /\ table'[tb][k].readable # table[tb][k].readable
      BY <1>1, <1>4, <2>1, <3>1 DEF TypeOK
    <3>2. CASE ~(hold[r][tb] = k /\ table'[tb][k].readable # table[tb][k].readable)
      <4>1. k \in Present(tb) /\ table[tb][k].readable = table'[tb][k].readable
        BY <1>2, <1>3, <2>1, <3>2
      <4>2. PICK q \in Requests : /\ outcome[q] = "ok" /\ hold[q][tb] = k
                                  /\ expiry[q][tb] = table[tb][k].readable
        BY <2>1, <4>1 DEF ReadableOnlyIfBegun
      <4>3. q # r
        BY <1>1, <4>2
      <4>. QED
        BY <1>1, <4>1, <4>2, <4>3 DEF TypeOK
    <3>. QED
      BY <3>1, <3>2
  <2>. QED
    BY <2>1 DEF ReadableOnlyIfBegun
<1>. QED
  BY <1>5, <1>6, <1>7, <1>8, <1>9, <1>10

-----------------------------------------------------------------------------
(* A send. *)

\* A send keeps it too.
LEMMA SendStep ==
  ASSUME IInv, NEW r \in Requests, Send(r)
  PROVE  IInv'
<1> USE DEF IInv
<1>1. /\ pc[r] = "new" /\ outcome[r] = "none" /\ lines[r] = 0
      /\ seq' = seq + 1 /\ seq \in Nat
      /\ pc' = [pc EXCEPT ![r] = "sent"]
      /\ sent' = [sent EXCEPT ![r] = seq + 1]
      /\ UNCHANGED <<want, outcome, lines>>
  BY DEF Send, Lifecycle, TypeOK
<1>2. PICK exp \in [Tables -> Expiries] : expiry' = [expiry EXCEPT ![r] = exp]
  BY DEF Send
<1>3. PICK evicted \in [Tables -> Keys \cup {Absent}] :
        /\ \A tb \in Tables : evicted[tb] \in Evicted(tb, want[r][tb])
        /\ table' = [tb \in Tables |-> [k \in Keys |->
                       IF k = want[r][tb] /\ Accepts(tb, k) THEN Touched(tb, k, seq + 1)
                       ELSE IF k = evicted[tb] THEN Absent
                       ELSE table[tb][k]]]
        /\ older' = [tb \in Tables |->
                       IF Accepts(tb, want[r][tb]) THEN Reordered(tb, want[r][tb], evicted[tb])
                       ELSE older[tb]]
  <2> DEFINE Out == UNION {Evicted(tb, want[r][tb]) : tb \in Tables}
  <2>1. Out \subseteq Keys \cup {Absent}
    BY DEF Evicted, Victims, Oldest, Idle, Present
  <2>2. [Tables -> Out] \subseteq [Tables -> Keys \cup {Absent}]
    BY <2>1
  <2>. QED
    BY <2>2 DEF Send
<1>4. hold' = [hold EXCEPT ![r] = [tb \in Tables |->
                 IF Accepts(tb, want[r][tb]) THEN want[r][tb] ELSE Absent]]
  BY DEF Send
<1>5. \A tb \in Tables : want[r][tb] \in Keys \cup {Absent}
  BY DEF TypeOK
<1> DEFINE Taken(tb, k) == k = want[r][tb] /\ Accepts(tb, k)
<1> HIDE DEF Taken
<1>6. ASSUME NEW tb \in Tables, NEW k \in Keys
      PROVE  hold'[r][tb] = k <=> Taken(tb, k)
  BY <1>4, AbsentAssumption DEF Taken, TypeOK
\* The three cases of an entry: taken, evicted, untouched.
<1>7. ASSUME NEW tb \in Tables, NEW k \in Keys, Taken(tb, k)
      PROVE  LET f == table'[tb][k] IN
             /\ f \in Entries /\ f # Absent /\ f.last = seq + 1
             /\ IF k \in Present(tb)
                THEN /\ table[tb][k] \in Entries
                     /\ f.prev = table[tb][k].last /\ f.prev # Absent
                     /\ f.readable = table[tb][k].readable
                     /\ f.pending = table[tb][k].pending + 1
                ELSE f.prev = Absent /\ f.readable = Absent /\ f.pending = 1
  <2>1. table'[tb][k] = Touched(tb, k, seq + 1)
    BY <1>3, <1>7 DEF Taken
  <2>2. CASE k \in Present(tb)
    <3> DEFINE e == table[tb][k]
               f == [e EXCEPT !.prev = e.last, !.last = seq + 1, !.pending = @ + 1]
    <3>1. e \in Entries
      BY <2>2 DEF TypeOK
    <3>2. table'[tb][k] = f
      BY <2>1, <2>2 DEF Touched
    <3> HIDE DEF e
    <3>0. e.last \in Nat /\ e.pending + 1 \in Nat /\ seq + 1 \in Nat
      BY <1>1, <3>1 DEF Entries
    <3>3. /\ f \in Entries /\ f.last = seq + 1 /\ f.prev = e.last /\ f.readable = e.readable
          /\ f.pending = e.pending + 1 /\ e.last # Absent
      BY <3>0, <3>1, AbsentAssumption DEF Entries
    <3>4. f # Absent
      BY <3>3, AbsentAssumption
    <3>. QED
      BY <2>2, <3>1, <3>2, <3>3, <3>4 DEF e
  <2>3. CASE k \notin Present(tb)
    <3> DEFINE f == [last |-> seq + 1, prev |-> Absent, readable |-> Absent, pending |-> 1]
    <3>1. table'[tb][k] = f
      BY <2>1, <2>3 DEF Touched
    <3>2. f \in Entries
      BY <1>1 DEF Entries
    <3>3. f # Absent
      BY <3>2, AbsentAssumption
    <3>. QED
      BY <2>3, <3>1, <3>2, <3>3
  <2>. QED
    BY <2>2, <2>3
<1>8. ASSUME NEW tb \in Tables, NEW k \in Keys, ~Taken(tb, k), k = evicted[tb]
      PROVE  table'[tb][k] = Absent /\ k \in Present(tb) /\ table[tb][k].pending = 0
  <2>1. evicted[tb] \in Victims(tb)
    BY <1>3, <1>8, AbsentAssumption DEF Evicted
  <2>. QED
    BY <1>3, <1>8, <2>1 DEF Victims, Oldest, Idle, Taken
<1>9. ASSUME NEW tb \in Tables, NEW k \in Keys, ~Taken(tb, k), k # evicted[tb]
      PROVE  table'[tb][k] = table[tb][k]
  BY <1>3, <1>9 DEF Taken
<1>10. TypeOK'
  <2>1. ASSUME NEW tb \in Tables, NEW k \in Keys PROVE table'[tb][k] \in Entries \cup {Absent}
    <3>1. table[tb][k] \in Entries \cup {Absent}
      BY DEF TypeOK
    <3>. QED
      BY <1>7, <1>8, <1>9, <3>1
  <2>2. table' \in [Tables -> [Keys -> Entries \cup {Absent}]]
    <3>1. table' = [tb \in Tables |-> [k \in Keys |-> table'[tb][k]]]
      BY <1>3
    <3>. QED
      BY <2>1, <3>1
  <2>3. older' \in [Tables -> SUBSET (Keys \X Keys)]
    <3>1. ASSUME NEW tb \in Tables PROVE older'[tb] \in SUBSET (Keys \X Keys)
      <4>1. older[tb] \subseteq Keys \X Keys
        BY DEF TypeOK
      <4>2. CASE Accepts(tb, want[r][tb])
        <5>1. want[r][tb] \in Keys
          BY <1>5, <4>2 DEF Accepts
        <5>2. Reordered(tb, want[r][tb], evicted[tb]) \subseteq Keys \X Keys
          BY <4>1, <5>1 DEF Reordered, Renewed, Without
        <5>. QED
          BY <1>3, <4>2, <5>2
      <4>3. CASE ~Accepts(tb, want[r][tb])
        BY <1>3, <4>1, <4>3
      <4>. QED
        BY <4>2, <4>3
    <3>2. older' = [tb \in Tables |-> older'[tb]]
      BY <1>3
    <3>. QED
      BY <3>1, <3>2
  <2>4. hold' \in [Requests -> [Tables -> Keys \cup {Absent}]]
    BY <1>4, <1>5 DEF TypeOK
  <2>5. expiry' \in [Requests -> [Tables -> Expiries \cup {Absent}]]
    BY <1>2 DEF TypeOK
  <2>6. overlapped' \subseteq Tables \X Keys
    BY DEF Send, TypeOK
  <2>7. sent' \in [Requests -> Nat] /\ pc' \in [Requests -> {"new", "sent", "opened", "begun", "over"}]
    BY <1>1 DEF TypeOK
  <2>. QED
    BY <1>1, <2>2, <2>3, <2>4, <2>5, <2>6, <2>7 DEF TypeOK
<1>11. Lifecycle'
  <2>1. \A q \in Requests \ {r} :
          pc'[q] = pc[q] /\ hold'[q] = hold[q] /\ expiry'[q] = expiry[q]
    BY <1>1, <1>2, <1>4 DEF TypeOK
  <2>2. pc'[r] = "sent" /\ expiry'[r] = exp
    BY <1>1, <1>2 DEF TypeOK
  <2>. QED
    BY <1>1, <2>1, <2>2 DEF Lifecycle
<1>12. Numbered'
  <2>1. \A q \in Requests \ {r} : sent'[q] = sent[q] /\ pc'[q] = pc[q]
    BY <1>1 DEF TypeOK
  <2>2. sent'[r] = seq + 1 /\ \A q \in Requests : sent[q] \in Nat /\ sent[q] =< seq
    BY <1>1 DEF TypeOK, Numbered
  <2>3. ASSUME NEW tb \in Tables, NEW k \in Present(tb)'
        PROVE  /\ table'[tb][k].last =< seq'
               /\ table'[tb][k].prev # Absent => table'[tb][k].prev =< seq'
    <3>1. k \in Present(tb) => /\ table[tb][k] \in Entries
                               /\ table[tb][k].last =< seq
                               /\ table[tb][k].prev # Absent => table[tb][k].prev =< seq
      BY DEF Numbered, TypeOK
    <3>2. CASE Taken(tb, k)
      BY <1>1, <1>7, <3>1, <3>2 DEF Entries
    <3>3. CASE ~Taken(tb, k)
      <4>1. table'[tb][k] = table[tb][k] /\ k \in Present(tb)
        BY <1>8, <1>9, <2>3, <3>3
      <4>2. table[tb][k].last \in Nat /\ table[tb][k].prev \in Nat \cup {Absent}
        BY <3>1, <4>1 DEF Entries
      <4>. QED
        BY <1>1, <3>1, <4>1, <4>2
    <3>. QED
      BY <3>2, <3>3
  <2>. QED
    BY <1>1, <2>1, <2>2, <2>3 DEF Numbered
<1>13. PendingExact'
  <2>1. ASSUME NEW tb \in Tables, NEW k \in Keys
        PROVE  Cardinality(Unsettled(tb, k)') =
                 IF k \in Present(tb)' THEN table'[tb][k].pending ELSE 0
    <3>1. r \notin Unsettled(tb, k)
      BY <1>1 DEF Unsettled
    <3>2. Cardinality(Unsettled(tb, k)) = IF k \in Present(tb) THEN table[tb][k].pending ELSE 0
      BY DEF PendingExact
    <3>3. CASE Taken(tb, k)
      <4>1. Unsettled(tb, k)' = Unsettled(tb, k) \cup {r}
        BY <1>1, <1>4, <1>6, <3>3 DEF Unsettled, TypeOK
      <4>2. Cardinality(Unsettled(tb, k) \cup {r}) = Cardinality(Unsettled(tb, k)) + 1
        BY <3>1, UnsettledFinite, FS_AddElement
      <4>. QED
        BY <1>7, <3>2, <3>3, <4>1, <4>2
    <3>4. CASE ~Taken(tb, k)
      <4>1. Unsettled(tb, k)' = Unsettled(tb, k)
        BY <1>1, <1>4, <1>6, <3>4 DEF Unsettled, TypeOK
      <4>. QED
        BY <1>8, <1>9, <3>2, <3>4, <4>1
    <3>. QED
      BY <3>3, <3>4
  <2>2. \A tb, k : Cardinality(Unsettled(tb, k))' = Cardinality(Unsettled(tb, k)')
    BY DEF Cardinality
  <2>. QED
    BY <2>1, <2>2 DEF PendingExact
<1>14. History'
  <2>1. ASSUME NEW tb \in Tables, NEW k \in Present(tb)', NEW q \in Requests,
               hold'[q][tb] = k, outcome'[q] # "failed"
        PROVE  /\ sent'[q] =< table'[tb][k].last
               /\ sent'[q] # table'[tb][k].last /\ table'[tb][k].prev # Absent
                    => sent'[q] =< table'[tb][k].prev
    <3>1. CASE q = r
      <4>1. Taken(tb, k) /\ sent'[q] = seq + 1
        BY <1>1, <1>6, <2>1, <3>1 DEF TypeOK
      <4>. QED
        BY <1>1, <1>7, <4>1
    <3>2. CASE q # r
      <4>1. hold[q][tb] = k /\ outcome[q] # "failed" /\ sent'[q] = sent[q]
            /\ sent[q] \in Nat /\ sent[q] =< seq
        BY <1>1, <1>4, <2>1, <3>2 DEF TypeOK, Numbered
      <4>2. k \in Present(tb) => /\ table[tb][k] \in Entries
                                 /\ sent[q] =< table[tb][k].last
                                 /\ sent[q] # table[tb][k].last /\ table[tb][k].prev # Absent
                                      => sent[q] =< table[tb][k].prev
        BY <4>1 DEF History, TypeOK
      <4>3. CASE Taken(tb, k)
        BY <1>1, <1>7, <4>1, <4>2, <4>3
      <4>4. CASE ~Taken(tb, k)
        BY <1>8, <1>9, <2>1, <4>1, <4>2, <4>4
      <4>. QED
        BY <4>3, <4>4
    <3>. QED
      BY <3>1, <3>2
  <2>. QED
    BY <2>1 DEF History
<1>15. ReadableOnlyIfBegun'
  <2>1. ASSUME NEW tb \in Tables, NEW k \in Keys, k \in Present(tb)',
               table'[tb][k].readable # Absent
        PROVE  \E q \in Requests : /\ outcome'[q] = "ok" /\ hold'[q][tb] = k
                                   /\ expiry'[q][tb] = table'[tb][k].readable
    <3>1. k \in Present(tb) /\ table[tb][k].readable = table'[tb][k].readable
      <4>1. CASE Taken(tb, k)
        BY <1>7, <2>1, <4>1
      <4>2. CASE ~Taken(tb, k)
        BY <1>8, <1>9, <2>1, <4>2
      <4>. QED
        BY <4>1, <4>2
    <3>2. PICK q \in Requests : /\ outcome[q] = "ok" /\ hold[q][tb] = k
                                /\ expiry[q][tb] = table[tb][k].readable
      BY <2>1, <3>1 DEF ReadableOnlyIfBegun
    <3>3. q # r
      BY <1>1, <3>2
    <3>. QED
      BY <1>1, <1>2, <1>4, <3>1, <3>2, <3>3 DEF TypeOK
  <2>. QED
    BY <2>1 DEF ReadableOnlyIfBegun
<1>. QED
  BY <1>10, <1>11, <1>12, <1>13, <1>14, <1>15

-----------------------------------------------------------------------------
(* The remaining steps, and the theorems. *)

\* A step that leaves the tables and what the guards hold alone.
LEMMA QuietStep ==
  ASSUME IInv, UNCHANGED <<seq, table, older, want, sent, hold, expiry, outcome, overlapped>>,
         NEW r \in Requests, pc[r] # "new",
         pc'[r] \in {"opened", "begun", "over"}, pc' = [pc EXCEPT ![r] = pc'[r]],
         pc'[r] = "opened" <=> outcome[r] = "none",
         lines' \in [Requests -> 0 .. 1],
         \A q \in Requests \ {r} : lines'[q] = lines[q],
         pc'[r] = "opened" => lines'[r] = 0, pc'[r] = "over" => lines'[r] = 1
  PROVE  IInv'
<1> USE DEF IInv
<1>1. TypeOK'
  BY DEF TypeOK
<1>2. Lifecycle'
  BY DEF Lifecycle, TypeOK
<1>3. Numbered'
  <2>1. \A q \in Requests : pc'[q] = "new" <=> pc[q] = "new"
    BY DEF TypeOK
  <2>. QED
    BY <2>1 DEF Numbered
<1>4. PendingExact'
  <2>1. \A tb, k : Unsettled(tb, k)' = Unsettled(tb, k)
    BY DEF Unsettled, TypeOK
  <2>2. \A tb, k : Cardinality(Unsettled(tb, k))' = Cardinality(Unsettled(tb, k)')
    BY DEF Cardinality
  <2>. QED
    BY <2>1, <2>2 DEF PendingExact
<1>5. History' /\ ReadableOnlyIfBegun'
  BY DEF History, ReadableOnlyIfBegun
<1>. QED
  BY <1>1, <1>2, <1>3, <1>4, <1>5

\* IInv holds in every reachable state.
THEOREM InductiveInvariant == Spec => []IInv
<1>1. Init => IInv
  <2> SUFFICES ASSUME Init PROVE IInv
    OBVIOUS
  <2>1. TypeOK /\ Lifecycle /\ Numbered /\ History /\ ReadableOnlyIfBegun
    BY DEF Init, TypeOK, Lifecycle, Numbered, History, ReadableOnlyIfBegun
  <2>2. PendingExact
    <3>1. \A tb, k : Unsettled(tb, k) = {}
      BY DEF Init, Unsettled
    <3>2. \A tb \in Tables : Present(tb) = {}
      BY DEF Init
    <3>. QED
      BY <3>1, <3>2, FS_EmptySet DEF PendingExact
  <2>. QED
    BY <2>1, <2>2 DEF IInv
<1>2. IInv /\ [Next]_vars => IInv'
  <2> SUFFICES ASSUME IInv, [Next]_vars PROVE IInv'
    OBVIOUS
  <2>1. ASSUME NEW r \in Requests, Send(r) PROVE IInv'
    BY <2>1, SendStep
  <2>2. ASSUME NEW r \in Requests, Refused(r) PROVE IInv'
    <3>1. pc[r] = "sent" /\ lines[r] = 0 /\ Settle(r, FALSE)
      BY <2>2 DEF Refused, IInv, Lifecycle
    <3>2. pc'[r] = "over" /\ pc' = [pc EXCEPT ![r] = pc'[r]]
      BY <2>2 DEF Refused, IInv, TypeOK
    <3>3. lines'[r] = 1 /\ lines' = [lines EXCEPT ![r] = lines'[r]] /\ lines'[r] \in 0 .. 1
      <4>1. lines \in [Requests -> 0 .. 1] /\ lines' = [lines EXCEPT ![r] = lines[r] + 1]
        BY <2>2 DEF Refused, IInv, TypeOK
      <4>2. lines[r] + 1 = 1
        BY <3>1
      <4>. QED
        BY <4>1, <4>2
    <3>. QED
      BY <3>1, <3>2, <3>3, SettleStep
  <2>3. ASSUME NEW r \in Requests, Whole(r) PROVE IInv'
    <3>1. pc[r] = "sent" /\ lines[r] = 0 /\ Settle(r, TRUE)
      BY <2>3 DEF Whole, IInv, Lifecycle
    <3>2. pc'[r] = "begun" /\ pc' = [pc EXCEPT ![r] = pc'[r]]
      BY <2>3 DEF Whole, IInv, TypeOK
    <3>3. lines'[r] = 0 /\ lines' = [lines EXCEPT ![r] = lines'[r]] /\ lines'[r] \in 0 .. 1
      <4>1. lines \in [Requests -> 0 .. 1] /\ lines' = lines
        BY <2>3 DEF Whole, IInv, TypeOK
      <4>. QED
        BY <3>1, <4>1
    <3>. QED
      BY <3>1, <3>2, <3>3, SettleStep
  <2>4. ASSUME NEW r \in Requests, Opened(r) PROVE IInv'
    <3>1. outcome[r] = "none" /\ lines[r] = 0 /\ lines \in [Requests -> 0 .. 1]
      BY <2>4 DEF Opened, IInv, Lifecycle, TypeOK
    <3>2. pc'[r] = "opened" /\ pc' = [pc EXCEPT ![r] = pc'[r]]
      BY <2>4 DEF Opened, IInv, TypeOK
    <3>. QED
      BY <2>4, <3>1, <3>2, QuietStep DEF Opened
  <2>5. ASSUME NEW r \in Requests, FirstChunk(r) PROVE IInv'
    <3>1. pc[r] = "opened" /\ lines[r] = 0 /\ Settle(r, TRUE)
      BY <2>5 DEF FirstChunk, IInv, Lifecycle
    <3>2. pc'[r] = "begun" /\ pc' = [pc EXCEPT ![r] = pc'[r]]
      BY <2>5 DEF FirstChunk, IInv, TypeOK
    <3>3. lines'[r] \in 0 .. 1 /\ lines' = [lines EXCEPT ![r] = lines'[r]]
      BY <2>5, <3>1 DEF FirstChunk, IInv, TypeOK
    <3>. QED
      BY <3>1, <3>2, <3>3, SettleStep
  <2>6. ASSUME NEW r \in Requests, Usage(r) PROVE IInv'
    <3>1. pc[r] = "begun" /\ pc'[r] = "begun" /\ outcome[r] # "none"
      BY <2>6 DEF Usage, IInv, Lifecycle
    <3>2. pc' = [pc EXCEPT ![r] = pc'[r]]
      BY <2>6 DEF Usage, IInv, TypeOK
    <3>3. lines' \in [Requests -> 0 .. 1] /\ \A q \in Requests \ {r} : lines'[q] = lines[q]
      BY <2>6 DEF Usage, IInv, TypeOK
    <3>. QED
      BY <2>6, <3>1, <3>2, <3>3, QuietStep DEF Usage
  <2>7. ASSUME NEW r \in Requests, Drop(r) PROVE IInv'
    <3>1. pc[r] \in {"sent", "opened", "begun"} /\ pc'[r] = "over"
          /\ pc' = [pc EXCEPT ![r] = pc'[r]]
      BY <2>7 DEF Drop, IInv, TypeOK
    <3>2. lines'[r] = 1 /\ lines' = [lines EXCEPT ![r] = lines'[r]]
          /\ lines' \in [Requests -> 0 .. 1] /\ \A q \in Requests \ {r} : lines'[q] = lines[q]
      BY <2>7 DEF Drop, IInv, TypeOK
    <3>3. CASE outcome[r] = "none"
      <4>1. pc[r] \in {"sent", "opened"} /\ Settle(r, FALSE)
        BY <2>7, <3>1, <3>3 DEF Drop, IInv, Lifecycle
      <4>. QED
        BY <3>1, <3>2, <4>1, SettleStep
    <3>4. CASE outcome[r] # "none"
      <4>1. UNCHANGED <<seq, table, older, want, sent, hold, expiry, outcome, overlapped>>
        BY <2>7, <3>4 DEF Drop
      <4>. QED
        BY <3>1, <3>2, <3>4, <4>1, QuietStep
    <3>. QED
      BY <3>3, <3>4
  <2>8. CASE UNCHANGED vars
    <3>1. TypeOK' /\ Lifecycle' /\ Numbered' /\ History' /\ ReadableOnlyIfBegun'
      BY <2>8 DEF vars, IInv, TypeOK, Lifecycle, Numbered, History, ReadableOnlyIfBegun
    <3>2. \A tb, k : Unsettled(tb, k)' = Unsettled(tb, k)
      BY <2>8 DEF vars, Unsettled
    <3>3. \A tb, k : Cardinality(Unsettled(tb, k))' = Cardinality(Unsettled(tb, k)')
      BY DEF Cardinality
    <3>4. PendingExact'
      BY <2>8, <3>2, <3>3 DEF vars, IInv, PendingExact
    <3>. QED
      BY <3>1, <3>4 DEF IInv
  <2>. QED
    BY <2>1, <2>2, <2>3, <2>4, <2>5, <2>6, <2>7, <2>8 DEF Next, Guard
<1>. QED
  BY <1>1, <1>2, PTL DEF Spec

\* Every variable keeps its type; no guard ever writes a second line.
THEOREM TypeCorrect == Spec => []TypeOK
<1>1. IInv => TypeOK
  BY DEF IInv
<1>. QED
  BY <1>1, InductiveInvariant, PTL

\* The pending count of every entry is the number of guards that will still
\* release it, on every path and in every interleaving.
THEOREM PendingIsExact == Spec => []PendingExact
<1>1. IInv => PendingExact
  BY DEF IInv
<1>. QED
  BY <1>1, InductiveInvariant, PTL

\* No failure ever makes an entry readable.
THEOREM ReadableIsEarned == Spec => []ReadableOnlyIfBegun
<1>1. IInv => ReadableOnlyIfBegun
  BY DEF IInv
<1>. QED
  BY <1>1, InductiveInvariant, PTL

\* One level of rollback is enough never to forget a send that has not failed.
THEOREM RollbackSafe == Spec => []RollbackKeepsSends
<1>1. IInv => RollbackKeepsSends
  BY DEF IInv, History, RollbackKeepsSends
<1>. QED
  BY <1>1, InductiveInvariant, PTL

-----------------------------------------------------------------------------
(* Failures leave no trace.  A key whose sends never overlapped has at most *)
(* one send out, so that its entry tells the whole story of that send: it   *)
(* is the last one, what came before it began, and an entry that is not yet *)
(* readable is one it made.                                                 *)

\* The last send of k is out, or began; what a rollback would restore began.
Untainted(tb, k) ==
  LET e == table[tb][k] IN
  /\ e.pending =< 1
  /\ e.pending = 0 => \E q \in Requests : outcome[q] = "ok" /\ sent[q] = e.last
  /\ e.pending = 1 => \E q \in Requests : q \in Unsettled(tb, k) /\ sent[q] = e.last
  /\ e.prev # Absent => \E q \in Requests : outcome[q] = "ok" /\ sent[q] = e.prev
  /\ e.pending = 1 /\ e.prev = Absent => e.readable = Absent

NoTrace ==
  \A tb \in Tables : \A k \in Present(tb) : <<tb, k>> \notin overlapped => Untainted(tb, k)

\* A send touches the entry it wants, and leaves or evicts every other.
LEMMA SentEntry ==
  ASSUME TypeOK, NEW r \in Requests, Send(r), NEW tb \in Tables, NEW k \in Present(tb)'
  PROVE  \/ /\ hold'[r][tb] = k /\ k = want[r][tb]
            /\ table'[tb][k] = Touched(tb, k, seq + 1)
         \/ k \in Present(tb) /\ table'[tb][k] = table[tb][k]
<1>1. PICK evicted \in [Tables -> UNION {Evicted(tc, want[r][tc]) : tc \in Tables}] :
        table' = [tc \in Tables |-> [j \in Keys |->
                    IF j = want[r][tc] /\ Accepts(tc, j) THEN Touched(tc, j, seq + 1)
                    ELSE IF j = evicted[tc] THEN Absent
                    ELSE table[tc][j]]]
  BY DEF Send
<1>2. k \in Keys /\ table'[tb][k] # Absent
  BY DEF Present
<1>3. CASE k = want[r][tb] /\ Accepts(tb, k)
  <2>1. hold'[r] = [tc \in Tables |-> IF Accepts(tc, want[r][tc]) THEN want[r][tc] ELSE Absent]
    BY DEF Send, TypeOK
  <2>. QED
    BY <1>1, <1>2, <1>3, <2>1
<1>4. CASE ~(k = want[r][tb] /\ Accepts(tb, k))
  BY <1>1, <1>2, <1>4
<1>. QED
  BY <1>3, <1>4

\* On a key without overlaps a send finds none out: what it keeps as prev began.
LEMMA SendLeavesNoTrace ==
  ASSUME IInv, NoTrace, NEW r \in Requests, Send(r)
  PROVE  NoTrace'
<1> USE DEF IInv
<1>1. /\ pc[r] = "new" /\ outcome[r] = "none" /\ outcome' = outcome /\ seq \in Nat
      /\ pc'[r] = "sent" /\ sent'[r] = seq + 1
      /\ \A q \in Requests \ {r} : pc'[q] = pc[q] /\ sent'[q] = sent[q] /\ hold'[q] = hold[q]
  BY DEF Send, Lifecycle, TypeOK
<1> SUFFICES ASSUME NEW tb \in Tables, NEW k \in Present(tb)', <<tb, k>> \notin overlapped'
             PROVE  Untainted(tb, k)'
  BY DEF NoTrace
<1>2. <<tb, k>> \notin overlapped /\ (k = want[r][tb] => k \notin Present(tb) \ Idle(tb))
  BY DEF Send
<1>3. CASE hold'[r][tb] = k /\ k = want[r][tb] /\ table'[tb][k] = Touched(tb, k, seq + 1)
  <2>1. r \in Unsettled(tb, k)'
    BY <1>1, <1>3 DEF Unsettled
  <2>2. CASE k \notin Present(tb)
    <3>1. table'[tb][k] = [last |-> seq + 1, prev |-> Absent, readable |-> Absent, pending |-> 1]
      BY <1>3, <2>2 DEF Touched
    <3>. QED
      BY <1>1, <2>1, <3>1 DEF Untainted
  <2>3. CASE k \in Present(tb)
    <3> DEFINE e == table[tb][k]
    <3>1. e \in Entries /\ e.pending = 0
      BY <1>2, <1>3, <2>3 DEF Idle, TypeOK
    <3>2. PICK q \in Requests : outcome[q] = "ok" /\ sent[q] = e.last
      BY <1>2, <2>3, <3>1 DEF NoTrace, Untainted
    <3>3. outcome'[q] = "ok" /\ sent'[q] = e.last
      BY <1>1, <3>2
    <3>4. table'[tb][k] = [e EXCEPT !.prev = e.last, !.last = seq + 1, !.pending = @ + 1]
      BY <1>3, <2>3 DEF Touched
    <3>5. /\ table'[tb][k].prev = e.last /\ table'[tb][k].last = seq + 1
          /\ table'[tb][k].pending = 1 /\ e.last # Absent
      BY <3>1, <3>4, AbsentAssumption DEF Entries
    <3>. QED
      BY <1>1, <2>1, <3>3, <3>5 DEF Untainted
  <2>. QED
    BY <2>2, <2>3
<1>4. CASE k \in Present(tb) /\ table'[tb][k] = table[tb][k]
  <2>1. Untainted(tb, k)
    BY <1>2, <1>4 DEF NoTrace
  <2>2. \A q \in Requests : q \in Unsettled(tb, k) =>
          q \in Unsettled(tb, k)' /\ sent'[q] = sent[q]
    BY <1>1 DEF Unsettled
  <2>3. \A q \in Requests : outcome[q] = "ok" => outcome'[q] = "ok" /\ sent'[q] = sent[q]
    BY <1>1
  <2>. QED
    BY <1>4, <2>1, <2>2, <2>3 DEF Untainted
<1>. QED
  BY <1>3, <1>4, SentEntry

\* The one guard that is out settles what it sent: begun, and its send is one
\* that began; failed, and the entry is rolled back or gone.
LEMMA SettleLeavesNoTrace ==
  ASSUME IInv, NoTrace, NEW r \in Requests, pc[r] \in {"sent", "opened"},
         Settle(r, TRUE) \/ Settle(r, FALSE),
         \A q \in Requests \ {r} : pc'[q] = pc[q]
  PROVE  NoTrace'
<1> USE DEF IInv
<1>0. PICK success \in BOOLEAN : Settle(r, success)
  OBVIOUS
<1>1. /\ UNCHANGED <<sent, hold, overlapped>> /\ outcome[r] = "none" /\ pc[r] # "new"
      /\ outcome'[r] = IF success THEN "ok" ELSE "failed"
      /\ \A q \in Requests \ {r} : outcome'[q] = outcome[q]
      /\ \A tb \in Tables : expiry[r][tb] \in Expiries
  BY <1>0 DEF Settle, Lifecycle, TypeOK
<1>2. \A q \in Requests : outcome[q] = "ok" => outcome'[q] = "ok" /\ sent'[q] = sent[q]
  BY <1>1
<1> SUFFICES ASSUME NEW tb \in Tables, NEW k \in Present(tb)', <<tb, k>> \notin overlapped'
             PROVE  Untainted(tb, k)'
  BY DEF NoTrace
<1> DEFINE e == table[tb][k]
           f == table'[tb][k]
<1>3. /\ f = IF hold[r][tb] = k /\ e # Absent
             THEN Settled(e, sent[r], expiry[r][tb], success) ELSE e
      /\ f # Absent
  BY <1>0 DEF Settle
<1>4. CASE hold[r][tb] # k
  <2>1. f = e /\ k \in Present(tb) /\ Untainted(tb, k)
    BY <1>1, <1>3, <1>4 DEF NoTrace
  <2>2. \A q \in Requests : q \in Unsettled(tb, k) =>
          q \in Unsettled(tb, k)' /\ sent'[q] = sent[q]
    BY <1>1, <1>4 DEF Unsettled
  <2>. QED
    BY <1>2, <2>1, <2>2 DEF Untainted
<1>5. CASE hold[r][tb] = k
  <2>1. r \in Unsettled(tb, k)
    BY <1>1, <1>5 DEF Unsettled
  <2>2. k \in Present(tb) /\ e.pending > 0 /\ Cardinality(Unsettled(tb, k)) = e.pending
    BY <2>1, UnsettledPins
  <2>3. e \in Entries /\ Untainted(tb, k) /\ e.pending = 1
    BY <1>1, <2>2 DEF NoTrace, Untainted, TypeOK, Entries
  <2>4. e.last = sent[r]
    <3>1. PICK q \in Requests : q \in Unsettled(tb, k) /\ sent[q] = e.last
      BY <2>3 DEF Untainted
    <3>2. PICK x : Unsettled(tb, k) = {x}
      BY <2>2, <2>3, UnsettledFinite, FS_Singleton
    <3>. QED
      BY <2>1, <3>1, <3>2
  <2>5. f = Settled(e, sent[r], expiry[r][tb], success)
    BY <1>3, <1>5, <2>2
  <2>6. e.prev # Absent => \E q \in Requests : outcome'[q] = "ok" /\ sent'[q] = e.prev
    BY <1>2, <2>3 DEF Untainted
  <2> DEFINE g == [e EXCEPT !.pending = IF @ = 0 THEN 0 ELSE @ - 1]
  <2>7. /\ g \in Entries /\ g.pending = 0 /\ g.last = e.last /\ g.prev = e.prev
        /\ g.readable = e.readable
    BY <2>3 DEF Entries
  <2>8. CASE success
    <3>1. f = [g EXCEPT !.readable = Later(g.readable, expiry[r][tb])]
      BY <2>5, <2>8 DEF Settled, g
    <3> HIDE DEF g
    <3>2. f.pending = 0 /\ f.last = sent[r] /\ f.prev = e.prev
      BY <2>4, <2>7, <3>1 DEF Entries
    <3>3. outcome'[r] = "ok" /\ sent'[r] = sent[r]
      BY <1>1, <2>8
    <3>. QED
      BY <2>6, <3>2, <3>3 DEF Untainted
  <2>9. CASE ~success
    <3>1. e.prev = Absent => e.readable = Absent
      BY <2>3 DEF Untainted
    <3>2. e.prev # Absent /\ f = [g EXCEPT !.last = g.prev, !.prev = Absent]
      BY <1>3, <2>4, <2>5, <2>7, <2>9, <3>1 DEF Settled, g
    <3> HIDE DEF g
    <3>3. f.pending = 0 /\ f.last = e.prev /\ f.prev = Absent
      BY <2>7, <3>2 DEF Entries
    <3>. QED
      BY <2>6, <3>2, <3>3 DEF Untainted
  <2>. QED
    BY <2>8, <2>9
<1>. QED
  BY <1>4, <1>5

\* A step that settles nothing and sends nothing changes nothing of it.
LEMMA QuietLeavesNoTrace ==
  ASSUME NoTrace, UNCHANGED <<table, sent, hold, outcome, overlapped>>,
         \A q \in Requests : pc'[q] = "new" <=> pc[q] = "new"
  PROVE  NoTrace'
<1>1. \A tb, k : Unsettled(tb, k)' = Unsettled(tb, k)
  BY DEF Unsettled
<1>. QED
  BY <1>1 DEF NoTrace, Untainted

\* "Failed sends must not pollute recency", for any number of requests and any
\* capacity: the last send remembered of a key without overlaps never failed.
THEOREM FailuresAreForgotten == Spec => []FailuresLeaveNoTrace
<1>1. Init => NoTrace
  BY DEF Init, NoTrace
<1>2. IInv /\ NoTrace /\ [Next]_vars => NoTrace'
  <2> SUFFICES ASSUME IInv, NoTrace, [Next]_vars PROVE NoTrace'
    OBVIOUS
  <2>0. pc \in [Requests -> {"new", "sent", "opened", "begun", "over"}]
    BY DEF IInv, TypeOK
  <2>1. ASSUME NEW r \in Requests, Send(r) PROVE NoTrace'
    BY <2>1, SendLeavesNoTrace
  <2>2. ASSUME NEW r \in Requests, Refused(r) \/ Whole(r) \/ FirstChunk(r) PROVE NoTrace'
    <3>1. /\ pc[r] \in {"sent", "opened"} /\ (Settle(r, TRUE) \/ Settle(r, FALSE))
          /\ \A q \in Requests \ {r} : pc'[q] = pc[q]
      BY <2>0, <2>2 DEF Refused, Whole, FirstChunk
    <3>. QED
      BY <3>1, SettleLeavesNoTrace
  <2>3. ASSUME NEW r \in Requests, Opened(r) \/ Usage(r) PROVE NoTrace'
    <3>1. /\ UNCHANGED <<table, sent, hold, outcome, overlapped>>
          /\ \A q \in Requests : pc'[q] = "new" <=> pc[q] = "new"
      BY <2>0, <2>3 DEF Opened, Usage
    <3>. QED
      BY <3>1, QuietLeavesNoTrace
  <2>4. ASSUME NEW r \in Requests, Drop(r) PROVE NoTrace'
    <3>1. \A q \in Requests : /\ pc'[q] = "new" <=> pc[q] = "new"
                              /\ q # r => pc'[q] = pc[q]
      BY <2>0, <2>4 DEF Drop
    <3>2. CASE outcome[r] = "none"
      <4>1. pc[r] \in {"sent", "opened"} /\ Settle(r, FALSE)
        BY <2>4, <3>2 DEF Drop, IInv, Lifecycle
      <4>. QED
        BY <3>1, <4>1, SettleLeavesNoTrace
    <3>3. CASE outcome[r] # "none"
      <4>1. UNCHANGED <<table, sent, hold, outcome, overlapped>>
        BY <2>4, <3>3 DEF Drop
      <4>. QED
        BY <3>1, <4>1, QuietLeavesNoTrace
    <3>. QED
      BY <3>2, <3>3
  <2>5. CASE UNCHANGED vars
    BY <2>5, QuietLeavesNoTrace DEF vars
  <2>. QED
    BY <2>1, <2>2, <2>3, <2>4, <2>5 DEF Next, Guard
<1>3. IInv /\ NoTrace => FailuresLeaveNoTrace
  <2> SUFFICES ASSUME IInv, NoTrace, NEW tb \in Tables, NEW k \in Present(tb),
                      <<tb, k>> \notin overlapped,
                      NEW r \in Requests, outcome[r] = "failed"
               PROVE  sent[r] # table[tb][k].last
    BY DEF FailuresLeaveNoTrace
  <2>1. table[tb][k].pending \in Nat /\ Untainted(tb, k)
    BY DEF IInv, TypeOK, Entries, NoTrace
  <2>2. PICK q \in Requests : sent[q] = table[tb][k].last /\ pc[q] # "new" /\ outcome[q] # "failed"
    BY <2>1 DEF Untainted, Unsettled, IInv, Lifecycle
  <2>3. pc[r] # "new"
    BY DEF IInv, Lifecycle
  <2>. QED
    BY <2>2, <2>3 DEF IInv, Numbered
<1>. QED
  BY <1>1, <1>2, <1>3, InductiveInvariant, PTL DEF Spec

\* A set of numbers that is not empty has a least one, and Min is it.
LEMMA Least == ASSUME NEW S \in SUBSET Nat, S # {} PROVE Min(S) \in S /\ \A n \in S : Min(S) <= n
<1> DEFINE R == OpToRel(<, Nat)
<1>1. IsWellFoundedOn(R, Nat)
  BY NatLessThanWellFounded
<1> HIDE DEF R
<1>2. PICK m \in S : \A n \in S : ~(<<n, m>> \in R)
  BY <1>1, WFMin, Zenon
<1>3. R = {ss \in Nat \X Nat : ss[1] < ss[2]}
  BY DEF R, OpToRel
<1>4. ASSUME NEW n \in S PROVE m <= n
  <2>1. <<n, m>> \in Nat \X Nat /\ <<n, m>>[1] = n /\ <<n, m>>[2] = m
    OBVIOUS
  <2> QED BY <1>2, <1>3, <2>1
<1> QED BY <1>4 DEF Min

\* Two sequences agree up to n, and not beyond.
AgreeUpTo(h, g, n) ==
  /\ n =< Len(h) /\ n =< Len(g)
  /\ SubSeq(h, 1, n) = SubSeq(g, 1, n)
  /\ SubSeq(h, n + 1, Len(h)) # SubSeq(g, n + 1, Len(g))
  /\ n < Len(h) /\ n < Len(g) => h[n + 1] # g[n + 1]

\* Two sequences have the same first n elements when these are equal one by one.
LEMMA SamePrefix ==
  ASSUME NEW S, NEW h \in Seq(S), NEW g \in Seq(S), NEW n \in Nat, n <= Len(h), n <= Len(g)
  PROVE  SubSeq(h, 1, n) = SubSeq(g, 1, n) <=> \A i \in 1 .. n : h[i] = g[i]
<1>1. \A i \in 1 .. n : h[i] \in S /\ g[i] \in S
  OBVIOUS
<1>2. /\ SubSeq(h, 1, n) \in Seq(S) /\ Len(SubSeq(h, 1, n)) = n
      /\ \A i \in 1 .. n : SubSeq(h, 1, n)[i] = h[i]
  <2>1. /\ SubSeq(h, 1, n) \in Seq(S) /\ Len(SubSeq(h, 1, n)) = IF 1 <= n THEN n - 1 + 1 ELSE 0
        /\ \A i \in 1 .. n - 1 + 1 : SubSeq(h, 1, n)[i] = h[1 + i - 1]
    BY <1>1, SubSeqProperties
  <2> QED BY <2>1
<1>3. /\ SubSeq(g, 1, n) \in Seq(S) /\ Len(SubSeq(g, 1, n)) = n
      /\ \A i \in 1 .. n : SubSeq(g, 1, n)[i] = g[i]
  <2>1. /\ SubSeq(g, 1, n) \in Seq(S) /\ Len(SubSeq(g, 1, n)) = IF 1 <= n THEN n - 1 + 1 ELSE 0
        /\ \A i \in 1 .. n - 1 + 1 : SubSeq(g, 1, n)[i] = g[1 + i - 1]
    BY <1>1, SubSeqProperties
  <2> QED BY <2>1
<1> DEFINE a == SubSeq(h, 1, n)
           b == SubSeq(g, 1, n)
<1>4. a = b => \A i \in 1 .. n : h[i] = g[i]
  BY <1>2, <1>3
<1>5. (\A i \in 1 .. n : h[i] = g[i]) => a = b
  BY <1>2, <1>3, SeqEqual
<1> QED BY <1>4, <1>5

\* What lies behind n, of a sequence of length at least n.
LEMMA Behind ==
  ASSUME NEW S, NEW h \in Seq(S), NEW n \in Nat, n <= Len(h)
  PROVE  /\ SubSeq(h, n + 1, Len(h)) \in Seq(S) /\ Len(SubSeq(h, n + 1, Len(h))) = Len(h) - n
         /\ \A i \in 1 .. Len(h) - n : SubSeq(h, n + 1, Len(h))[i] = h[n + i]
<1>1. PICK m : m = Len(h)
  OBVIOUS
<1>2. m \in Nat /\ n <= m /\ \A i \in n + 1 .. m : h[i] \in S
  BY <1>1
<1>3. /\ SubSeq(h, n + 1, m) \in Seq(S) /\ Len(SubSeq(h, n + 1, m)) = IF n + 1 <= m THEN m - (n + 1) + 1 ELSE 0
      /\ \A i \in 1 .. m - (n + 1) + 1 : SubSeq(h, n + 1, m)[i] = h[n + 1 + i - 1]
  BY <1>2, SubSeqProperties
<1>4. Len(SubSeq(h, n + 1, m)) = m - n
  BY <1>2, <1>3
<1>5. \A i \in 1 .. m - n : SubSeq(h, n + 1, m)[i] = h[n + i]
  <2> TAKE i \in 1 .. m - n
  <2>1. i \in 1 .. m - (n + 1) + 1 /\ n + 1 + i - 1 = n + i
    BY <1>2
  <2> QED BY <1>3, <2>1
<1> QED BY <1>1, <1>3, <1>4, <1>5

\* Two sequences that are the same up to n and differ after it, or one of which
\* ends there, agree up to n.
LEMMA Agree ==
  ASSUME NEW S, NEW h \in Seq(S), NEW g \in Seq(S), NEW n \in Nat, n <= Len(h), n <= Len(g),
         \A i \in 1 .. n : h[i] = g[i],
         n < Len(h) \/ n < Len(g),
         n < Len(h) /\ n < Len(g) => h[n + 1] # g[n + 1]
  PROVE  AgreeUpTo(h, g, n)
<1>1. PICK p, q : p = Len(h) /\ q = Len(g)
  OBVIOUS
<1>2. p \in Nat /\ q \in Nat
  BY <1>1
<1>3. SubSeq(h, n + 1, p) # SubSeq(g, n + 1, q)
  <2>1. CASE p # q
    <3>1. Len(SubSeq(h, n + 1, p)) = p - n /\ Len(SubSeq(g, n + 1, q)) = q - n
      BY <1>1, Behind
    <3> QED BY <1>2, <2>1, <3>1
  <2>2. CASE p = q
    <3>1. SubSeq(h, n + 1, p)[1] = h[n + 1] /\ SubSeq(g, n + 1, q)[1] = g[n + 1]
      <4>1. 1 \in 1 .. p - n /\ 1 \in 1 .. q - n
        BY <1>1, <1>2, <2>2
      <4> QED BY <1>1, <4>1, Behind
    <3> QED BY <1>1, <2>2, <3>1
  <2> QED BY <2>1, <2>2
<1> QED BY <1>1, <1>3, SamePrefix DEF AgreeUpTo

\* Sequences that are not equal agree up to some place.
LEMMA Diverges ==
  ASSUME NEW S, NEW h \in Seq(S), NEW g \in Seq(S), h # g, NEW k \in Nat, k <= Len(h), k <= Len(g),
         \A i \in 1 .. k : h[i] = g[i]
  PROVE  \E m \in k .. Len(h) : AgreeUpTo(h, g, m)
<1>1. PICK p, q : p = Len(h) /\ q = Len(g)
  OBVIOUS
<1>2. p \in Nat /\ q \in Nat
  BY <1>1
<1> DEFINE D == {i \in 1 .. p : i <= q /\ h[i] # g[i]}
<1>3. CASE D # {}
  <2>1. PICK i \in D : \A j \in D : i <= j
    <3>1. D \in SUBSET Nat
      OBVIOUS
    <3> HIDE DEF D
    <3> QED BY <1>3, <3>1, Least
  <2>2. i - 1 \in Nat /\ i - 1 < p /\ i - 1 < q /\ h[(i - 1) + 1] # g[(i - 1) + 1] /\ i \in 1 .. p
    BY <1>2
  <2>3. \A j \in 1 .. i - 1 : h[j] = g[j]
    <3> SUFFICES ASSUME NEW j \in 1 .. i - 1, h[j] # g[j] PROVE FALSE
      OBVIOUS
    <3>1. j \in D /\ j < i /\ j \in Nat /\ i \in Nat
      BY <1>2, <2>2
    <3> HIDE DEF D
    <3> QED BY <2>1, <3>1
  <2>4. k <= i - 1
    BY <2>2
  <2>5. AgreeUpTo(h, g, i - 1)
    BY <1>1, <1>2, <2>2, <2>3, Agree
  <2>6. i - 1 \in k .. p
    BY <1>2, <2>2, <2>4
  <2> QED BY <1>1, <2>5, <2>6
<1>4. CASE D = {}
  <2> DEFINE m == IF p < q THEN p ELSE q
  <2>1. m \in Nat /\ m <= p /\ m <= q /\ (m = p \/ m = q)
    BY <1>2
  <2>2. \A i \in 1 .. m : h[i] = g[i]
    <3> SUFFICES ASSUME NEW i \in 1 .. m, h[i] # g[i] PROVE FALSE
      OBVIOUS
    <3>1. i \in D
      BY <1>2, <2>1
    <3> QED BY <1>4, <3>1
  <2>3. p # q
    <3> SUFFICES ASSUME p = q PROVE FALSE
      OBVIOUS
    <3>1. m = p
      BY <1>2
    <3> QED BY <1>1, <2>2, <3>1, SeqEqual
  <2>4. m < p \/ m < q
    BY <1>2, <2>3
  <2>5. m \in k .. p
    BY <1>1, <1>2
  <2>6. ~(m < p /\ m < q)
    BY <1>2
  <2> HIDE DEF m
  <2>7. AgreeUpTo(h, g, m)
    BY <1>1, <1>2, <2>1, <2>2, <2>4, <2>6, Agree
  <2> QED BY <1>1, <2>5, <2>7
<1> QED BY <1>3, <1>4

-----------------------------------------------------------------------------
(* What seq_diff and first_diff find. *)

\* The verdict d is true of h and g.
Differs(h, g, cap, d) ==
  \/ d = <<"same">> /\ h = g
  \/ d = <<"tail">> /\ \E m \in cap .. Len(h) : AgreeUpTo(h, g, m)
  \/ \E k \in Nat : d = <<"at", k>> /\ k < Len(h) /\ k < Len(g) /\ AgreeUpTo(h, g, k)
  \/ \E k \in Nat, sign \in {"+", "-"} :
       /\ d = <<"count", k, sign>> /\ AgreeUpTo(h, g, k)
       /\ sign = "+" => Len(h) = k
       /\ sign = "-" => Len(g) = k

\* The smaller of two numbers.
LEMMA Smaller ==
  ASSUME NEW a \in Nat, NEW b \in Nat
  PROVE  Min({a, b}) \in {a, b} /\ Min({a, b}) <= a /\ Min({a, b}) <= b
<1>1. {a, b} \in SUBSET Nat /\ {a, b} # {}
  OBVIOUS
<1> QED BY <1>1, Least

\* A capped sequence: its head as it was, and the rest.
LEMMA CappedParts ==
  ASSUME NEW S, NEW h \in Seq(S), NEW cap \in Nat \ {0}
  PROVE  LET p == CappedSeq(h, cap)
         IN  /\ p.total = Len(h) /\ p.head = SubSeq(h, 1, Min({cap, Len(h)}))
             /\ p.tail = SubSeq(h, cap + 1, Len(h))
             /\ DOMAIN p.head = {i \in 1 .. Len(h) : i <= cap}
             /\ \A i \in DOMAIN p.head : p.head[i] = h[i]
<1>1. PICK m, n : m = Len(h) /\ n = Min({cap, m})
  OBVIOUS
<1>2. m \in Nat /\ n \in Nat /\ n <= cap /\ n <= m /\ n \in {cap, m}
  BY <1>1, Smaller
<1>3. \A i \in 1 .. n : h[i] \in S
  BY <1>1, <1>2
<1>4. /\ SubSeq(h, 1, n) \in Seq(S) /\ Len(SubSeq(h, 1, n)) = n
      /\ \A i \in 1 .. n : SubSeq(h, 1, n)[i] = h[i]
  <2>1. /\ SubSeq(h, 1, n) \in Seq(S) /\ Len(SubSeq(h, 1, n)) = IF 1 <= n THEN n - 1 + 1 ELSE 0
        /\ \A i \in 1 .. n - 1 + 1 : SubSeq(h, 1, n)[i] = h[1 + i - 1]
    BY <1>2, <1>3, SubSeqProperties
  <2> QED BY <1>2, <2>1
<1>5. DOMAIN SubSeq(h, 1, n) = 1 .. n
  BY <1>4
<1>6. 1 .. n = {i \in 1 .. m : i <= cap}
  BY <1>2
<1> QED BY <1>1, <1>4, <1>5, <1>6 DEF CappedSeq

\* seq_diff is right, although it keeps cap hashes only.
LEMMA SeqDiff ==
  ASSUME NEW S, NEW h \in Seq(S), NEW g \in Seq(S), NEW cap \in Nat \ {0}
  PROVE  Differs(h, g, cap, seq_diff(CappedSeq(h, cap), CappedSeq(g, cap), cap))
<1>1. PICK m, n : m = Len(h) /\ n = Len(g)
  OBVIOUS
<1>2. m \in Nat /\ n \in Nat
  BY <1>1
<1>3. PICK p, c : p = CappedSeq(h, cap) /\ c = CappedSeq(g, cap)
  OBVIOUS
<1> DEFINE differing == {i \in DOMAIN p.head \cap DOMAIN c.head : p.head[i] # c.head[i]}
           shared == Min({p.total, c.total})
           d == seq_diff(p, c, cap)
<1>4. /\ p.total = m /\ p.tail = SubSeq(h, cap + 1, m) /\ DOMAIN p.head = {i \in 1 .. m : i <= cap}
      /\ \A i \in DOMAIN p.head : p.head[i] = h[i]
  BY <1>1, <1>3, CappedParts
<1>5. /\ c.total = n /\ c.tail = SubSeq(g, cap + 1, n) /\ DOMAIN c.head = {i \in 1 .. n : i <= cap}
      /\ \A i \in DOMAIN c.head : c.head[i] = g[i]
  BY <1>1, <1>3, CappedParts
<1>6. differing = {i \in 1 .. m : i <= n /\ i <= cap /\ h[i] # g[i]}
  BY <1>2, <1>4, <1>5
<1>7. shared \in Nat /\ shared <= m /\ shared <= n /\ shared \in {m, n}
  BY <1>2, <1>4, <1>5, Smaller
<1>8. d = IF differing # {} THEN <<"at", Min(differing) - 1>>
          ELSE IF p.total # c.total
          THEN IF shared >= cap THEN <<"tail">>
               ELSE <<"count", shared, IF c.total > p.total THEN "+" ELSE "-">>
          ELSE IF p.tail # c.tail THEN <<"tail">>
          ELSE <<"same">>
  BY DEF seq_diff
<1> HIDE DEF differing, shared, d
<1>9. CASE differing # {}
  <2>1. PICK i : i = Min(differing)
    OBVIOUS
  <2>2. i \in differing /\ \A j \in differing : i <= j
    <3>1. differing \in SUBSET Nat
      BY <1>6
    <3> QED BY <1>9, <2>1, <3>1, Least
  <2>3. i \in 1 .. m /\ i <= n /\ i <= cap /\ h[i] # g[i]
    BY <1>6, <2>2
  <2>4. PICK k : k = i - 1
    OBVIOUS
  <2>5. k \in Nat /\ k < m /\ k < n /\ k + 1 = i
    BY <1>2, <2>3, <2>4
  <2>6. \A j \in 1 .. k : h[j] = g[j]
    <3> SUFFICES ASSUME NEW j \in 1 .. k, h[j] # g[j] PROVE FALSE
      OBVIOUS
    <3>1. j \in 1 .. m /\ j <= n /\ j <= cap /\ j < i
      BY <1>2, <2>3, <2>5
    <3>2. j \in differing
      BY <1>6, <3>1
    <3> QED BY <2>2, <2>3, <3>1, <3>2
  <2>7. AgreeUpTo(h, g, k)
    BY <1>1, <1>2, <2>3, <2>5, <2>6, Agree
  <2>8. d = <<"at", k>>
    BY <1>8, <1>9, <2>1, <2>4
  <2> QED BY <1>1, <1>3, <2>5, <2>7, <2>8 DEF Differs, d
<1>10. CASE differing = {}
  <2>1. ASSUME NEW i \in 1 .. m, i <= n, i <= cap PROVE h[i] = g[i]
    BY <1>6, <1>10, <2>1
  <2>2. CASE m # n /\ shared >= cap
    <3>1. cap \in Nat /\ cap <= m /\ cap <= n
      BY <1>2, <1>7, <2>2
    <3>2. \A i \in 1 .. cap : h[i] = g[i]
      BY <1>2, <2>1, <3>1
    <3>3. h # g
      BY <1>1, <2>2
    <3>4. \E k \in cap .. m : AgreeUpTo(h, g, k)
      BY <1>1, <3>1, <3>2, <3>3, Diverges
    <3>5. d = <<"tail">>
      BY <1>4, <1>5, <1>8, <1>10, <2>2
    <3> QED BY <1>1, <1>3, <3>4, <3>5 DEF Differs, d
  <2>3. CASE m # n /\ ~(shared >= cap)
    <3>1. \A i \in 1 .. shared : h[i] = g[i]
      BY <1>2, <1>7, <2>1, <2>3
    <3>2. (shared < m \/ shared < n) /\ ~(shared < m /\ shared < n)
      BY <1>2, <1>7, <2>3
    <3>3. AgreeUpTo(h, g, shared)
      BY <1>1, <1>7, <3>1, <3>2, Agree
    <3>4. PICK sign \in {"+", "-"} : sign = IF n > m THEN "+" ELSE "-"
      OBVIOUS
    <3>5. d = <<"count", shared, sign>>
      BY <1>4, <1>5, <1>8, <1>10, <2>3, <3>4
    <3>6. (sign = "+" => m = shared) /\ (sign = "-" => n = shared)
      BY <1>2, <1>7, <2>3, <3>4
    <3> QED BY <1>1, <1>3, <1>7, <3>3, <3>5, <3>6 DEF Differs, d
  <2>4. CASE m = n /\ p.tail # c.tail
    <3>1. h # g
      BY <1>1, <1>4, <1>5, <2>4
    <3>2. cap < m
      <4> SUFFICES ASSUME ~(cap < m) PROVE FALSE
        OBVIOUS
      <4>1. m < cap + 1
        BY <1>2
      <4>2. SubSeq(h, cap + 1, m) = <<>> /\ SubSeq(g, cap + 1, m) = <<>>
        BY <1>2, <4>1, SubSeqEmpty
      <4> QED BY <1>4, <1>5, <2>4, <4>2
    <3>3. \A i \in 1 .. cap : h[i] = g[i]
      BY <1>2, <2>1, <2>4, <3>2
    <3>4. \E k \in cap .. m : AgreeUpTo(h, g, k)
      <4>1. cap \in Nat /\ cap <= m /\ cap <= n
        BY <1>2, <2>4, <3>2
      <4> QED BY <1>1, <3>1, <3>3, <4>1, Diverges
    <3>5. d = <<"tail">>
      BY <1>4, <1>5, <1>8, <1>10, <2>4
    <3> QED BY <1>1, <1>3, <3>4, <3>5 DEF Differs, d
  <2>5. CASE m = n /\ p.tail = c.tail
    <3>1. ASSUME NEW i \in 1 .. m PROVE h[i] = g[i]
      <4>1. CASE i <= cap
        BY <1>2, <2>1, <2>5, <4>1
      <4>2. CASE ~(i <= cap)
        <5>1. PICK j : j = i - cap
          OBVIOUS
        <5>2. j \in 1 .. m - cap /\ cap + j = i /\ cap <= m
          BY <1>2, <4>2, <5>1
        <5>3. SubSeq(h, cap + 1, m)[j] = h[cap + j] /\ SubSeq(g, cap + 1, n)[j] = g[cap + j]
          BY <1>1, <2>5, <5>2, Behind
        <5> QED BY <1>4, <1>5, <2>5, <5>2, <5>3
      <4> QED BY <4>1, <4>2
    <3>2. h = g
      BY <1>1, <2>5, <3>1, SeqEqual
    <3>3. d = <<"same">>
      BY <1>4, <1>5, <1>8, <1>10, <2>5
    <3> QED BY <1>3, <3>2, <3>3 DEF Differs, d
  <2> QED BY <2>2, <2>3, <2>4, <2>5
<1> QED BY <1>9, <1>10

\* Two texts share that many bytes, and no more.
BytesAgree(old, new, at) ==
  /\ at =< Len(old) /\ at =< Len(new)
  /\ SubSeq(old, 1, at) = SubSeq(new, 1, at)
  /\ at < Len(old) /\ at < Len(new) => old[at + 1] # new[at + 1]

\* first_diff counts them.
LEMMA FirstDiff ==
  ASSUME NEW S, NEW a \in Seq(S), NEW b \in Seq(S)
  PROVE  BytesAgree(a, b, first_diff(a, b))
<1>1. PICK m, n : m = Len(a) /\ n = Len(b)
  OBVIOUS
<1>2. m \in Nat /\ n \in Nat /\ DOMAIN a = 1 .. m /\ DOMAIN b = 1 .. n
  BY <1>1
<1>3. PICK least : least = Min({m, n})
  OBVIOUS
<1>4. least \in Nat /\ least <= m /\ least <= n /\ least \in {m, n}
  BY <1>2, <1>3, Smaller
<1> DEFINE D == {i \in DOMAIN a \cap DOMAIN b : a[i] # b[i]}
           places == {i - 1 : i \in D} \cup {least}
<1>5. PICK at : at = Min(places)
  OBVIOUS
<1>6. at = first_diff(a, b)
  BY <1>1, <1>3, <1>5 DEF first_diff
<1>7. D = {i \in 1 .. m : i <= n /\ a[i] # b[i]}
  BY <1>2
<1> HIDE DEF D
<1>8. at \in places /\ \A k \in places : at <= k
  <2>1. places \in SUBSET Nat /\ places # {}
    BY <1>2, <1>4, <1>7
  <2> HIDE DEF places
  <2> QED BY <1>5, <2>1, Least
<1>9. at \in Nat /\ at <= m /\ at <= n
  BY <1>2, <1>4, <1>7, <1>8
<1>10. \A j \in 1 .. at : a[j] = b[j]
  <2> SUFFICES ASSUME NEW j \in 1 .. at, a[j] # b[j] PROVE FALSE
    OBVIOUS
  <2>1. j \in D
    BY <1>2, <1>7, <1>9
  <2>2. j - 1 \in places
    BY <2>1
  <2>3. at <= j - 1
    BY <1>8, <2>2
  <2> QED BY <1>9, <2>3
<1>11. SubSeq(a, 1, at) = SubSeq(b, 1, at)
  BY <1>1, <1>9, <1>10, SamePrefix
<1>12. ASSUME at < m, at < n PROVE a[at + 1] # b[at + 1]
  <2>1. at # least
    BY <1>2, <1>4, <1>9, <1>12
  <2>2. PICK i \in D : at = i - 1
    BY <1>8, <2>1
  <2>3. i = at + 1
    BY <1>7, <1>9, <2>2
  <2> QED BY <1>7, <2>3
<1> QED BY <1>1, <1>6, <1>9, <1>11, <1>12 DEF BytesAgree

-----------------------------------------------------------------------------
(* What a line says of two bodies. *)

Sections == {"tools", "system", "msgs"}
Blocks == [text : Seq(Nat), mark : {0, 5, 60}]

\* The texts of a section, one for each block.
LEMMA TextsOf ==
  ASSUME NEW blocks \in Seq(Blocks)
  PROVE  /\ Texts(blocks) \in Seq(Seq(Nat)) /\ Len(Texts(blocks)) = Len(blocks)
         /\ \A i \in 1 .. Len(blocks) : Texts(blocks)[i] = blocks[i].text /\ blocks[i].text \in Seq(Nat)
<1>1. PICK n : n = Len(blocks)
  OBVIOUS
<1>2. n \in Nat /\ DOMAIN blocks = 1 .. n /\ \A i \in 1 .. n : blocks[i] \in Blocks
  BY <1>1
<1>3. Texts(blocks) = [i \in 1 .. n |-> blocks[i].text]
  BY <1>2 DEF Texts
<1>4. \A i \in 1 .. n : blocks[i].text \in Seq(Nat)
  BY <1>2 DEF Blocks
<1>5. Texts(blocks) \in Seq(Seq(Nat)) /\ Len(Texts(blocks)) = n
  BY <1>2, <1>3, <1>4
<1> QED BY <1>1, <1>3, <1>4, <1>5

\* The sections of a body.
LEMMA SectionsOf ==
  ASSUME NEW b \in Bodies, NEW s \in Sections
  PROVE  b[s] \in Seq(Blocks)
BY BodiesAssumption DEF Sections, Blocks

\* What the report r says of section s is true of the two bodies.
Locates(r, p, b, s, cap) ==
  /\ r[1] = s
  /\ LET n == r[2] IN
     IF Len(r) = 3 /\ r[3] = "tail"
     THEN \E m \in cap .. Len(p[s]) : AgreeFor(p, b, s, m)
     ELSE /\ AgreeFor(p, b, s, n)
          /\ Len(r) = 3 /\ r[3] = "+" => Len(p[s]) = n
          /\ Len(r) = 3 /\ r[3] = "-" => Len(b[s]) = n
          /\ Len(r) = 4 =>
               BytesAgree(p[s][n + 1].text, b[s][n + 1].text, r[4])

\* The line of a section that differs locates the difference, to the byte if the
\* earlier bytes were kept.
LEMMA SectionLocates ==
  ASSUME NEW p \in Bodies, NEW b \in Bodies, NEW s \in Sections, NEW cap \in Nat \ {0}, NEW d,
         Differs(Texts(p[s]), Texts(b[s]), cap, d), d # <<"same">>, NEW kept, NEW earlier,
         kept => earlier = Texts(p[s]), NEW r,
         r = section(s, cap, d, kept, earlier, Texts(b[s]))
  PROVE  Locates(r, p, b, s, cap)
<1>1. PICK h, g : h = Texts(p[s]) /\ g = Texts(b[s])
  OBVIOUS
<1>2. /\ h \in Seq(Seq(Nat)) /\ Len(h) = Len(p[s]) /\ g \in Seq(Seq(Nat)) /\ Len(g) = Len(b[s])
      /\ \A i \in 1 .. Len(h) : h[i] = p[s][i].text /\ h[i] \in Seq(Nat)
      /\ \A i \in 1 .. Len(g) : g[i] = b[s][i].text /\ g[i] \in Seq(Nat)
  BY <1>1, SectionsOf, TextsOf
<1>3. \A n : AgreeFor(p, b, s, n) <=> AgreeUpTo(h, g, n)
  BY <1>1 DEF AgreeFor, AgreeUpTo
<1>4. CASE d = <<"tail">> /\ \E m \in cap .. Len(h) : AgreeUpTo(h, g, m)
  <2>1. r = <<s, cap, "tail">>
    BY <1>4 DEF section
  <2>2. r[1] = s /\ Len(r) = 3 /\ r[3] = "tail"
    BY <2>1
  <2> QED BY <1>2, <1>3, <1>4, <2>2 DEF Locates
<1>5. ASSUME NEW k \in Nat, NEW sign \in {"+", "-"}, d = <<"count", k, sign>>, AgreeUpTo(h, g, k),
             sign = "+" => Len(h) = k, sign = "-" => Len(g) = k
      PROVE  Locates(r, p, b, s, cap)
  <2>1. d[1] = "count" /\ d[2] = k /\ d[3] = sign
    BY <1>5
  <2>2. r = <<s, k, sign>>
    BY <2>1 DEF section
  <2>3. r[1] = s /\ r[2] = k /\ Len(r) = 3 /\ r[3] = sign /\ sign # "tail"
    BY <2>2
  <2>4. /\ AgreeFor(p, b, s, r[2])
        /\ r[3] = "+" => Len(p[s]) = r[2]
        /\ r[3] = "-" => Len(b[s]) = r[2]
    BY <1>2, <1>3, <1>5, <2>3
  <2> QED BY <2>3, <2>4 DEF Locates
<1>6. ASSUME NEW k \in Nat, d = <<"at", k>>, k < Len(h), k < Len(g), AgreeUpTo(h, g, k)
      PROVE  Locates(r, p, b, s, cap)
  <2>1. d[1] = "at" /\ d[2] = k
    BY <1>6
  <2>2. CASE kept
    <3>1. PICK at : at = first_diff(h[k + 1], g[k + 1])
      OBVIOUS
    <3>2. r = <<s, k, "byte", at>>
      BY <1>1, <2>1, <2>2, <3>1 DEF section
    <3>3. r[1] = s /\ r[2] = k /\ Len(r) = 4 /\ r[4] = at
      BY <3>2
    <3>4. k + 1 \in 1 .. Len(h) /\ k + 1 \in 1 .. Len(g)
      BY <1>2, <1>6
    <3>5. PICK old, new : old = h[k + 1] /\ new = g[k + 1]
      OBVIOUS
    <3>6. old = p[s][k + 1].text /\ new = b[s][k + 1].text /\ old \in Seq(Nat) /\ new \in Seq(Nat)
      BY <1>2, <3>4, <3>5
    <3>7. BytesAgree(old, new, at)
      BY <3>1, <3>5, <3>6, FirstDiff
    <3>8. AgreeFor(p, b, s, r[2]) /\ BytesAgree(p[s][r[2] + 1].text, b[s][r[2] + 1].text, r[4])
      BY <1>3, <1>6, <3>3, <3>6, <3>7
    <3> QED BY <3>3, <3>8 DEF Locates
  <2>3. CASE ~kept
    <3>1. r = <<s, k, "?">>
      BY <2>1, <2>3 DEF section
    <3>2. r[1] = s /\ r[2] = k /\ Len(r) = 3 /\ r[3] = "?"
      BY <3>1
    <3>3. AgreeFor(p, b, s, r[2])
      BY <1>3, <1>6, <3>2
    <3> QED BY <3>2, <3>3 DEF Locates
  <2> QED BY <2>2, <2>3
<1> QED BY <1>1, <1>4, <1>5, <1>6 DEF Differs

\* So does the line of the messages.
LEMMA MessagesLocate ==
  ASSUME NEW p \in Bodies, NEW b \in Bodies, NEW d,
         Differs(Texts(p.msgs), Texts(b.msgs), MsgsHashCap, d), d # <<"same">>, NEW r,
         r = section_msgs(d)
  PROVE  Locates(r, p, b, "msgs", MsgsHashCap)
<1>1. PICK h, g : h = Texts(p.msgs) /\ g = Texts(b.msgs)
  OBVIOUS
<1>2. /\ Len(h) = Len(p.msgs) /\ Len(g) = Len(b.msgs)
  BY <1>1, SectionsOf, TextsOf DEF Sections
<1>3. \A n : AgreeFor(p, b, "msgs", n) <=> AgreeUpTo(h, g, n)
  BY <1>1 DEF AgreeFor, AgreeUpTo
<1>4. CASE d = <<"tail">> /\ \E m \in MsgsHashCap .. Len(h) : AgreeUpTo(h, g, m)
  <2>1. r = <<"msgs", MsgsHashCap, "tail">>
    BY <1>4 DEF section_msgs
  <2>2. r[1] = "msgs" /\ Len(r) = 3 /\ r[3] = "tail"
    BY <2>1
  <2> QED BY <1>2, <1>3, <1>4, <2>2 DEF Locates
<1>5. ASSUME NEW k, d[1] # "tail", d[2] = k, AgreeUpTo(h, g, k)
      PROVE  Locates(r, p, b, "msgs", MsgsHashCap)
  <2>1. d # <<"tail">>
    BY <1>5
  <2>2. r = <<"msgs", k>>
    BY <1>5, <2>1 DEF section_msgs
  <2>3. r[1] = "msgs" /\ r[2] = k /\ Len(r) = 2
    BY <2>2
  <2> QED BY <1>3, <1>5, <2>3 DEF Locates
<1>6. ASSUME NEW k \in Nat, NEW sign \in {"+", "-"}, d = <<"count", k, sign>>, AgreeUpTo(h, g, k)
      PROVE  Locates(r, p, b, "msgs", MsgsHashCap)
  <2>1. d[1] = "count" /\ d[2] = k
    BY <1>6
  <2> QED BY <1>5, <1>6, <2>1
<1>7. ASSUME NEW k \in Nat, d = <<"at", k>>, AgreeUpTo(h, g, k)
      PROVE  Locates(r, p, b, "msgs", MsgsHashCap)
  <2>1. d[1] = "at" /\ d[2] = k
    BY <1>7
  <2> QED BY <1>5, <1>7, <2>1
<1> QED BY <1>1, <1>4, <1>6, <1>7 DEF Differs

\* What a line tells of two bodies: the sections before the one it names are the
\* same, and of that one it locates the difference.
LEMMA LocatedTells ==
  ASSUME NEW p, NEW b, NEW r, p.ctx = b.ctx,
         \/ Locates(r, p, b, "tools", ToolsHashCap)
         \/ Texts(p.tools) = Texts(b.tools) /\ Locates(r, p, b, "system", SystemHashCap)
         \/ /\ Texts(p.tools) = Texts(b.tools) /\ Texts(p.system) = Texts(b.system)
            /\ Locates(r, p, b, "msgs", MsgsHashCap)
  PROVE  Tells(r, p, b)
<1> DEFINE sections == <<"tools", "system", "msgs">>
           caps == [tools |-> ToolsHashCap, system |-> SystemHashCap, msgs |-> MsgsHashCap]
           same(j) == Texts(p[sections[j]]) = Texts(b[sections[j]])
<1>1. r[1] \in Sections
  BY DEF Locates, Sections
<1>2. r # <<"ctx">> /\ r # <<"none">>
  <2>1. r[1] # "ctx" /\ r[1] # "none"
    BY <1>1 DEF Sections
  <2> QED BY <2>1
<1>3. Tells(r, p, b) <=> \E j \in 1 .. 3 : (\A i \in 1 .. j - 1 : same(i)) /\ Locates(r, p, b, sections[j], caps[sections[j]])
  BY <1>2 DEF Tells, Locates, BytesAgree
<1>4. CASE Locates(r, p, b, "tools", ToolsHashCap)
  <2>1. sections[1] = "tools" /\ caps["tools"] = ToolsHashCap
    OBVIOUS
  <2> HIDE DEF sections, caps, same
  <2> QED BY <1>3, <1>4, <2>1
<1>5. CASE Texts(p.tools) = Texts(b.tools) /\ Locates(r, p, b, "system", SystemHashCap)
  <2>1. sections[2] = "system" /\ caps["system"] = SystemHashCap /\ same(1)
    BY <1>5
  <2> HIDE DEF sections, caps, same
  <2>2. \A i \in 1 .. 2 - 1 : same(i)
    BY <2>1
  <2> QED BY <1>3, <1>5, <2>1, <2>2
<1>6. CASE Texts(p.tools) = Texts(b.tools) /\ Texts(p.system) = Texts(b.system) /\ Locates(r, p, b, "msgs", MsgsHashCap)
  <2>1. sections[3] = "msgs" /\ caps["msgs"] = MsgsHashCap /\ same(1) /\ same(2)
    BY <1>6
  <2> HIDE DEF sections, caps, same
  <2>2. \A i \in 1 .. 3 - 1 : same(i)
    <3> TAKE i \in 1 .. 3 - 1
    <3>1. i = 1 \/ i = 2
      OBVIOUS
    <3> QED BY <2>1, <3>1
  <2> QED BY <1>3, <1>6, <2>1, <2>2
<1> QED BY <1>4, <1>5, <1>6

\* What is true of two bodies when a line says r: where they first differ, and
\* that they do not differ before.
Told(r, p, b) ==
  /\ r # <<"first">> /\ Tells(r, p, b)
  /\ r[1] \in {"system", "msgs", "none"} => p.ctx = b.ctx /\ Texts(p.tools) = Texts(b.tools)
  /\ r[1] \in {"msgs", "none"} => Texts(p.system) = Texts(b.system)

\* The report against the slot kept of p is true of p itself, although the slot
\* holds capped hashes and, over the budget, no bytes.
LEMMA ReportTells ==
  ASSUME NEW p \in Bodies, NEW b \in Bodies
  PROVE  Told(diverged_from(Slot(p), b), p, b)
<1>1. PICK r : r = diverged_from(Slot(p), b)
  OBVIOUS
<1>2. PICK kept : kept = Slot(p).kept
  OBVIOUS
<1>3. PICK earlier1, earlier2 : earlier1 = Slot(p).canonTools /\ earlier2 = Slot(p).canonSystem
  OBVIOUS
<1>4. kept => earlier1 = Texts(p.tools) /\ earlier2 = Texts(p.system)
  BY <1>2, <1>3 DEF Slot
<1>5. \A x \in {p, b} : /\ Slot(x).ctx = x.ctx
                        /\ Slot(x).tools = CappedSeq(Texts(x.tools), ToolsHashCap)
                        /\ Slot(x).system = CappedSeq(Texts(x.system), SystemHashCap)
                        /\ Slot(x).msgs = CappedSeq(Texts(x.msgs), MsgsHashCap)
  BY DEF Slot
<1>6. PICK d1, d2, d3 :
         /\ d1 = seq_diff(Slot(p).tools, Slot(b).tools, ToolsHashCap)
         /\ d2 = seq_diff(Slot(p).system, Slot(b).system, SystemHashCap)
         /\ d3 = seq_diff(Slot(p).msgs, Slot(b).msgs, MsgsHashCap)
  OBVIOUS
<1>7. r = IF p.ctx # b.ctx THEN <<"ctx">>
          ELSE IF d1 # <<"same">> THEN section("tools", ToolsHashCap, d1, kept, earlier1, Texts(b.tools))
          ELSE IF d2 # <<"same">> THEN section("system", SystemHashCap, d2, kept, earlier2, Texts(b.system))
          ELSE IF d3 # <<"same">> THEN section_msgs(d3)
          ELSE <<"none">>
  BY <1>1, <1>2, <1>3, <1>5, <1>6 DEF diverged_from
<1>8. /\ Texts(p.tools) \in Seq(Seq(Nat)) /\ Texts(b.tools) \in Seq(Seq(Nat))
      /\ Texts(p.system) \in Seq(Seq(Nat)) /\ Texts(b.system) \in Seq(Seq(Nat))
      /\ Texts(p.msgs) \in Seq(Seq(Nat)) /\ Texts(b.msgs) \in Seq(Seq(Nat))
  BY SectionsOf, TextsOf DEF Sections
<1>9. /\ ToolsHashCap \in Nat \ {0} /\ SystemHashCap \in Nat \ {0} /\ MsgsHashCap \in Nat \ {0}
  BY CapsAssumption
<1>10. /\ Differs(Texts(p.tools), Texts(b.tools), ToolsHashCap, d1)
       /\ Differs(Texts(p.system), Texts(b.system), SystemHashCap, d2)
       /\ Differs(Texts(p.msgs), Texts(b.msgs), MsgsHashCap, d3)
  BY <1>5, <1>6, <1>8, <1>9, SeqDiff
<1>11. \A h, g, cap : Differs(h, g, cap, <<"same">>) => h = g
  <2> SUFFICES ASSUME NEW h, NEW g, NEW cap, Differs(h, g, cap, <<"same">>) PROVE h = g
    OBVIOUS
  <2>1. <<"same">> # <<"tail">> /\ \A k, sign : <<"same">> # <<"at", k>> /\ <<"same">> # <<"count", k, sign>>
    <3>1. <<"same">>[1] = "same" /\ <<"tail">>[1] = "tail"
      OBVIOUS
    <3>2. \A k, sign : <<"at", k>>[1] = "at" /\ <<"count", k, sign>>[1] = "count"
      OBVIOUS
    <3> QED BY <3>1, <3>2
  <2> QED BY <2>1 DEF Differs
<1>12. CASE p.ctx # b.ctx
  <2>1. r = <<"ctx">> /\ r[1] = "ctx"
    BY <1>7, <1>12
  <2>2. r # <<"first">>
    BY <2>1
  <2>3. Tells(r, p, b)
    BY <1>12, <2>1 DEF Tells
  <2> QED BY <1>1, <2>1, <2>2, <2>3 DEF Told
<1>13. CASE p.ctx = b.ctx /\ d1 # <<"same">>
  <2>1. r = section("tools", ToolsHashCap, d1, kept, earlier1, Texts(b.tools))
    BY <1>7, <1>13
  <2>2. Locates(r, p, b, "tools", ToolsHashCap)
    BY <1>4, <1>9, <1>10, <1>13, <2>1, SectionLocates DEF Sections
  <2>3. r[1] = "tools" /\ Tells(r, p, b)
    BY <1>13, <2>2, LocatedTells DEF Locates
  <2>4. r # <<"first">>
    BY <2>3
  <2> QED BY <1>1, <2>3, <2>4 DEF Told
<1>14. CASE p.ctx = b.ctx /\ d1 = <<"same">> /\ d2 # <<"same">>
  <2>1. r = section("system", SystemHashCap, d2, kept, earlier2, Texts(b.system))
    BY <1>7, <1>14
  <2>2. Texts(p.tools) = Texts(b.tools)
    BY <1>10, <1>11, <1>14
  <2>3. Locates(r, p, b, "system", SystemHashCap)
    BY <1>4, <1>9, <1>10, <1>14, <2>1, SectionLocates DEF Sections
  <2>4. r[1] = "system" /\ Tells(r, p, b)
    BY <1>14, <2>2, <2>3, LocatedTells DEF Locates
  <2>5. r # <<"first">>
    BY <2>4
  <2> QED BY <1>1, <1>14, <2>2, <2>4, <2>5 DEF Told
<1>15. CASE p.ctx = b.ctx /\ d1 = <<"same">> /\ d2 = <<"same">> /\ d3 # <<"same">>
  <2>1. r = section_msgs(d3)
    BY <1>7, <1>15
  <2>2. Texts(p.tools) = Texts(b.tools) /\ Texts(p.system) = Texts(b.system)
    BY <1>10, <1>11, <1>15
  <2>3. Locates(r, p, b, "msgs", MsgsHashCap)
    BY <1>10, <1>15, <2>1, MessagesLocate
  <2>4. r[1] = "msgs" /\ Tells(r, p, b)
    BY <1>15, <2>2, <2>3, LocatedTells DEF Locates
  <2>5. r # <<"first">>
    BY <2>4
  <2> QED BY <1>1, <1>15, <2>2, <2>4, <2>5 DEF Told
<1>16. CASE p.ctx = b.ctx /\ d1 = <<"same">> /\ d2 = <<"same">> /\ d3 = <<"same">>
  <2>1. r = <<"none">>
    BY <1>7, <1>16
  <2>2. Texts(p.tools) = Texts(b.tools) /\ Texts(p.system) = Texts(b.system) /\ Texts(p.msgs) = Texts(b.msgs)
    BY <1>10, <1>11, <1>16
  <2>3. r # <<"first">> /\ r # <<"ctx">>
    <3>1. r[1] = "none"
      BY <2>1
    <3> QED BY <3>1
  <2>4. \A j \in 1 .. 3 : Texts(p[<<"tools", "system", "msgs">>[j]]) = Texts(b[<<"tools", "system", "msgs">>[j]])
    <3> TAKE j \in 1 .. 3
    <3>1. j = 1 \/ j = 2 \/ j = 3
      OBVIOUS
    <3> QED BY <2>2, <3>1
  <2>5. Tells(r, p, b)
    BY <1>16, <2>1, <2>3, <2>4 DEF Tells
  <2> QED BY <1>1, <1>16, <2>2, <2>3, <2>5 DEF Told
<1> QED BY <1>12, <1>13, <1>14, <1>15, <1>16

-----------------------------------------------------------------------------
(* The table of previous requests. *)

SlotOf(b) == <<SlotKey(b), Slot(b)>>
SlotsOf == {SlotOf(b) : b \in Bodies}

\* A sequence without its h-th element.
LEMMA Removed ==
  ASSUME NEW S, NEW s \in Seq(S), NEW h \in 1 .. Len(s), NEW t, t = SubSeq(s, 1, h - 1) \o SubSeq(s, h + 1, Len(s))
  PROVE  /\ t \in Seq(S) /\ Len(t) = Len(s) - 1
         /\ \A j \in 1 .. Len(s) - 1 : t[j] = s[IF j < h THEN j ELSE j + 1]
<1>1. PICK n : n = Len(s)
  OBVIOUS
<1>2. n \in Nat /\ h \in 1 .. n /\ h - 1 \in Nat /\ \A i \in 1 .. n : s[i] \in S
  BY <1>1
<1>3. PICK a, b : a = SubSeq(s, 1, h - 1) /\ b = SubSeq(s, h + 1, n)
  OBVIOUS
<1>4. a \in Seq(S) /\ Len(a) = h - 1 /\ \A i \in 1 .. h - 1 : a[i] = s[i]
  <2>1. \A i \in 1 .. h - 1 : s[i] \in S
    BY <1>2
  <2>2. /\ a \in Seq(S) /\ Len(a) = IF 1 <= h - 1 THEN (h - 1) - 1 + 1 ELSE 0
        /\ \A i \in 1 .. (h - 1) - 1 + 1 : a[i] = s[1 + i - 1]
    BY <1>2, <1>3, <2>1, SubSeqProperties
  <2> QED BY <1>2, <2>2
<1>5. b \in Seq(S) /\ Len(b) = n - h /\ \A i \in 1 .. n - h : b[i] = s[h + i]
  BY <1>1, <1>2, <1>3, Behind
<1>6. PICK p, q : p = h - 1 /\ q = n - h
  OBVIOUS
<1>7. p \in Nat /\ q \in Nat /\ p + q = n - 1 /\ Len(a) = p /\ Len(b) = q
  BY <1>2, <1>4, <1>5, <1>6
<1>8. /\ t \in Seq(S) /\ Len(t) = p + q
      /\ \A j \in 1 .. p + q : t[j] = IF j <= p THEN a[j] ELSE b[j - p]
  <2>1. t = a \o b
    BY <1>1, <1>3
  <2>2. a \in Seq(S) /\ b \in Seq(S) /\ Len(a) = p /\ Len(b) = q
    BY <1>4, <1>5, <1>7
  <2>3. /\ a \o b \in Seq(S) /\ Len(a \o b) = Len(a) + Len(b)
        /\ \A j \in 1 .. Len(a) + Len(b) : (a \o b)[j] = IF j <= Len(a) THEN a[j] ELSE b[j - Len(a)]
    BY <2>2, ConcatProperties
  <2> QED BY <2>1, <2>2, <2>3
<1>9. ASSUME NEW j \in 1 .. p + q PROVE t[j] = s[IF j < h THEN j ELSE j + 1]
  <2>1. t[j] = IF j <= p THEN a[j] ELSE b[j - p]
    BY <1>8
  <2>2. CASE j < h
    <3>1. j \in 1 .. h - 1 /\ j <= p
      BY <1>2, <1>6, <1>7, <2>2
    <3> QED BY <1>4, <2>1, <2>2, <3>1
  <2>3. CASE ~(j < h)
    <3>1. j - p \in 1 .. n - h /\ h + (j - p) = j + 1 /\ ~(j <= p)
      BY <1>2, <1>6, <1>7, <2>3
    <3>2. b[j - p] = s[h + (j - p)]
      BY <1>5, <3>1
    <3> QED BY <2>1, <2>3, <3>1, <3>2
  <2> QED BY <2>2, <2>3
<1> QED BY <1>1, <1>7, <1>8, <1>9

\* t is s with e as its last, after the h-th went (h beyond its end: none went).
IsPushed(S, s, e, h, t) ==
  /\ h \in 1 .. Len(s) + 1
  /\ t \in Seq(S) /\ Len(t) = (IF h = Len(s) + 1 THEN Len(s) + 1 ELSE Len(s)) /\ t[Len(t)] = e
  /\ \A j \in 1 .. Len(t) - 1 : t[j] = s[IF j < h THEN j ELSE j + 1]

\* What Append makes of a sequence that lost its h-th element, or none.
LEMMA Pushed ==
  ASSUME NEW S, NEW s \in Seq(S), NEW e \in S, NEW h \in 1 .. Len(s) + 1, NEW u \in Seq(S),
         Len(u) = (IF h = Len(s) + 1 THEN Len(s) ELSE Len(s) - 1),
         \A j \in 1 .. Len(u) : u[j] = s[IF j < h THEN j ELSE j + 1]
  PROVE  IsPushed(S, s, e, h, Append(u, e))
<1>1. PICK n, m, t : n = Len(s) /\ m = Len(u) /\ t = Append(u, e)
  OBVIOUS
<1>2. n \in Nat /\ m \in Nat
  BY <1>1
<1>3. t \in Seq(S) /\ Len(t) = m + 1 /\ t[m + 1] = e /\ \A j \in 1 .. m : t[j] = u[j]
  BY <1>1, <1>2
<1>4. m + 1 = (IF h = n + 1 THEN n + 1 ELSE n) /\ (m + 1) - 1 = m
  BY <1>1, <1>2
<1>5. \A j \in 1 .. m : t[j] = s[IF j < h THEN j ELSE j + 1]
  BY <1>1, <1>3
<1> QED BY <1>1, <1>3, <1>4, <1>5 DEF IsPushed

\* Keys are distinct.
Distinct == \A i, j \in DOMAIN prev : prev[i][1] = prev[j][1] => i = j

\* A body's slot becomes the last; what goes is the slot of its key, or the first
\* of a full table.
IsPut(b, h, t) ==
  /\ IsPushed(SlotsOf, prev, SlotOf(b), h, t) /\ Len(t) <= PrevSlots
  /\ IF h \in 1 .. Len(prev) /\ prev[h][1] = SlotKey(b) THEN TRUE
     ELSE /\ Slots(SlotKey(b)) = {}
          /\ h <= Len(prev) => h = 1 /\ Len(prev) = PrevSlots

\* LruCache::put, in each of its three cases: a hit, a full table, a free place.
LEMMA Puts ==
  ASSUME prev \in Seq(SlotsOf), Len(prev) <= PrevSlots, NEW b \in Bodies
  PROVE  \E h : IsPut(b, h, Put(b))
<1>1. PICK n, key, others, room :
         /\ n = Len(prev) /\ key = SlotKey(b) /\ others = Others(key)
         /\ room = IF Len(others) >= PrevSlots THEN Tail(others) ELSE others
  OBVIOUS
<1>2. n \in Nat /\ DOMAIN prev = 1 .. n /\ PrevSlots \in Nat /\ PrevSlots > 0 /\ n <= PrevSlots
  BY <1>1, PrevSlotsAssumption
<1>3. Put(b) = Append(room, SlotOf(b)) /\ SlotOf(b) \in SlotsOf
  BY <1>1 DEF Put, SlotOf, SlotsOf
<1>4. CASE Slots(key) # {}
  <2>1. PICK h : h = Min(Slots(key))
    OBVIOUS
  <2>2. h \in 1 .. n /\ prev[h][1] = key
    <3>1. Slots(key) \in SUBSET Nat
      BY <1>2 DEF Slots
    <3>2. h \in Slots(key)
      BY <1>4, <2>1, <3>1, Least
    <3> QED BY <1>2, <3>2 DEF Slots
  <2>3. others = SubSeq(prev, 1, h - 1) \o SubSeq(prev, h + 1, n)
    BY <1>1, <1>4, <2>1 DEF Others
  <2>4. others \in Seq(SlotsOf) /\ Len(others) = n - 1 /\ \A j \in 1 .. n - 1 : others[j] = prev[IF j < h THEN j ELSE j + 1]
    BY <1>1, <2>2, <2>3, Removed
  <2>5. room = others
    BY <1>1, <1>2, <2>4
  <2>6. h \in 1 .. n + 1 /\ h # n + 1
    BY <1>2, <2>2
  <2>7. IsPushed(SlotsOf, prev, SlotOf(b), h, Put(b))
    BY <1>1, <1>2, <1>3, <2>4, <2>5, <2>6, Pushed
  <2>8. Len(Put(b)) <= PrevSlots
    BY <1>1, <1>2, <2>6, <2>7 DEF IsPushed
  <2> QED BY <1>1, <2>2, <2>7, <2>8 DEF IsPut
<1>5. CASE Slots(key) = {} /\ n >= PrevSlots
  <2>1. others = prev /\ n = PrevSlots /\ 1 \in 1 .. n /\ 1 \in 1 .. n + 1 /\ 1 # n + 1
    BY <1>1, <1>2, <1>5 DEF Others
  <2>2. room = Tail(prev)
    BY <1>1, <1>5, <2>1
  <2>3. room \in Seq(SlotsOf) /\ Len(room) = n - 1 /\ \A j \in 1 .. n - 1 : room[j] = prev[j + 1]
    BY <1>1, <1>2, <2>1, <2>2
  <2>4. \A j \in 1 .. n - 1 : room[j] = prev[IF j < 1 THEN j ELSE j + 1]
    BY <1>2, <2>3
  <2>5. IsPushed(SlotsOf, prev, SlotOf(b), 1, Put(b))
    BY <1>1, <1>2, <1>3, <2>1, <2>3, <2>4, Pushed
  <2>6. Len(Put(b)) <= PrevSlots
    BY <1>1, <1>2, <2>1, <2>5 DEF IsPushed
  <2> QED BY <1>1, <1>5, <2>1, <2>5, <2>6 DEF IsPut
<1>6. CASE Slots(key) = {} /\ ~(n >= PrevSlots)
  <2>1. room = prev
    BY <1>1, <1>6 DEF Others
  <2>2. \A j \in 1 .. n : room[j] = prev[IF j < n + 1 THEN j ELSE j + 1]
    BY <1>2, <2>1
  <2>3. n + 1 \in 1 .. n + 1
    BY <1>2
  <2>4. IsPushed(SlotsOf, prev, SlotOf(b), n + 1, Put(b))
    BY <1>1, <1>2, <1>3, <2>1, <2>2, <2>3, Pushed
  <2>5. Len(Put(b)) <= PrevSlots
    BY <1>1, <1>2, <1>6, <2>4 DEF IsPushed
  <2>6. ~(n + 1 <= n)
    BY <1>2
  <2> QED BY <1>1, <1>6, <2>4, <2>5, <2>6 DEF IsPut
<1> QED BY <1>4, <1>5, <1>6

-----------------------------------------------------------------------------
(* Who sent last. *)

\* p is the last sent of its client and model.
Last(p) ==
  /\ sent[p] > 0
  /\ \A q \in Requests : sent[q] > 0 /\ SlotKey(body[q]) = SlotKey(body[p]) => sent[q] =< sent[p]

\* The slots used by the sends after number n.
Since(n) == {SlotKey(body[q]) : q \in {x \in Requests : n < sent[x]}}

\* Every slot is that of its key's last request, they lie in the order of these,
\* and for a slot that is gone PREV_SLOTS others were used.
SlotsKept ==
  \A i \in DOMAIN prev : \E p \in Requests : Last(p) /\ prev[i] = SlotOf(body[p])
SlotsInOrder ==
  \A i, j \in DOMAIN prev : \A p, q \in Requests :
    i < j /\ Last(p) /\ Last(q) /\ prev[i][1] = SlotKey(body[p]) /\ prev[j][1] = SlotKey(body[q]) =>
      sent[p] < sent[q]
SlotsGone ==
  \A p \in Requests :
    Last(p) /\ (\A i \in DOMAIN prev : prev[i][1] # SlotKey(body[p])) =>
      Cardinality(Since(sent[p])) >= PrevSlots

TableHolds ==
  /\ prev \in Seq(SlotsOf) /\ Len(prev) <= PrevSlots
  /\ SlotsKept /\ SlotsInOrder /\ SlotsGone

\* What a send does to the numbers.
Numbers(r) ==
  /\ seq \in Nat /\ sent[r] = 0 /\ sent'[r] = seq + 1 /\ body' = body
  /\ body \in [Requests -> Bodies]
  /\ \A q \in Requests : sent[q] \in Nat /\ sent[q] <= seq
  /\ \A q \in Requests \ {r} : sent'[q] = sent[q]

\* A send makes r the last of its client and model; the others stay what they were.
LEMMA LastAfter ==
  ASSUME NEW r \in Requests, Numbers(r), NEW p \in Requests
  PROVE  Last(p)' <=> p = r \/ (Last(p) /\ SlotKey(body[p]) # SlotKey(body[r]))
<1> USE DEF Numbers
<1>1. CASE p = r
  <2>1. \A q \in Requests : sent'[q] <= sent'[r]
    BY DEF Numbers
  <2> QED BY <1>1, <2>1 DEF Last
<1>2. CASE p # r /\ SlotKey(body[p]) = SlotKey(body[r])
  <2>1. ~(sent'[r] <= sent'[p]) /\ sent'[r] > 0
    BY <1>2
  <2>2. ~Last(p)'
    BY <1>2, <2>1 DEF Last
  <2> QED BY <1>2, <2>2
<1>3. CASE p # r /\ SlotKey(body[p]) # SlotKey(body[r])
  <2>1. sent'[p] = sent[p]
    BY <1>3
  <2>2. Last(p)' <=> Last(p)
    BY <1>3, <2>1 DEF Last
  <2> QED BY <1>3, <2>2
<1> QED BY <1>1, <1>2, <1>3

\* No client and model has two slots: the last request of a key is one.
LEMMA DistinctKeys == ASSUME TableHolds, \A q \in Requests : sent[q] \in Nat PROVE Distinct
<1> SUFFICES ASSUME NEW i \in DOMAIN prev, NEW j \in DOMAIN prev, i < j, prev[i][1] = prev[j][1] PROVE FALSE
  <2>1. DOMAIN prev \subseteq Nat
    BY DEF TableHolds
  <2>2. \A i, j \in Nat : i = j \/ i < j \/ j < i
    OBVIOUS
  <2> QED BY <2>1, <2>2, Zenon DEF Distinct
<1>1. PICK p \in Requests : Last(p) /\ prev[i] = SlotOf(body[p])
  BY DEF TableHolds, SlotsKept
<1>2. prev[i][1] = SlotKey(body[p])
  BY <1>1 DEF SlotOf
<1>3. sent[p] < sent[p]
  BY <1>1, <1>2 DEF TableHolds, SlotsInOrder
<1> QED BY <1>3

\* The places of a table after a put.
LEMMA PutPlaces ==
  ASSUME TableHolds, Distinct, NEW b, NEW h, IsPut(b, h, prev'), NEW n, n = Len(prev')
  PROVE  /\ n \in Nat /\ n > 0 /\ DOMAIN prev' = 1 .. n /\ prev'[n] = SlotOf(b)
         /\ \A j \in 1 .. n - 1 : /\ (IF j < h THEN j ELSE j + 1) \in DOMAIN prev
                                  /\ (IF j < h THEN j ELSE j + 1) # h
                                  /\ prev'[j] = prev[IF j < h THEN j ELSE j + 1]
                                  /\ prev'[j][1] # SlotKey(b)
         /\ \A i \in DOMAIN prev : i # h => \E j \in 1 .. n - 1 : prev'[j] = prev[i]
<1>1. PICK m : m = Len(prev)
  OBVIOUS
<1>2. m \in Nat /\ DOMAIN prev = 1 .. m
  BY <1>1 DEF TableHolds
<1>3. /\ h \in 1 .. m + 1 /\ n = (IF h = m + 1 THEN m + 1 ELSE m)
      /\ prev' \in Seq(SlotsOf) /\ prev'[n] = SlotOf(b)
      /\ \A j \in 1 .. n - 1 : prev'[j] = prev[IF j < h THEN j ELSE j + 1]
  BY <1>1 DEF IsPut, IsPushed
<1>4. n \in Nat /\ n > 0 /\ DOMAIN prev' = 1 .. n
  <2>1. n \in Nat /\ n > 0
    BY <1>2, <1>3
  <2>2. DOMAIN prev' = 1 .. n
    BY <1>3, LenProperties
  <2> QED BY <2>1, <2>2
<1>5. ASSUME NEW j \in 1 .. n - 1
      PROVE  (IF j < h THEN j ELSE j + 1) \in 1 .. m /\ (IF j < h THEN j ELSE j + 1) # h
  BY <1>2, <1>3, <1>4
<1>6. ASSUME NEW i \in 1 .. m, i # h PROVE prev[i][1] # SlotKey(b)
  <2>1. CASE h \in 1 .. m /\ prev[h][1] = SlotKey(b)
    BY <1>2, <1>6, <2>1 DEF Distinct
  <2>2. CASE ~(h \in 1 .. m /\ prev[h][1] = SlotKey(b))
    <3>1. Slots(SlotKey(b)) = {}
      BY <1>1, <2>2 DEF IsPut
    <3> QED BY <1>2, <3>1 DEF Slots
  <2> QED BY <2>1, <2>2
<1>7. ASSUME NEW j \in 1 .. n - 1 PROVE prev'[j][1] # SlotKey(b)
  BY <1>3, <1>5, <1>6
<1>8. ASSUME NEW i \in 1 .. m, i # h PROVE \E j \in 1 .. n - 1 : prev'[j] = prev[i]
  <2>1. CASE i < h
    <3>1. i \in 1 .. n - 1
      BY <1>2, <1>3, <2>1
    <3> QED BY <1>3, <2>1, <3>1
  <2>2. CASE ~(i < h)
    <3>1. i - 1 \in 1 .. n - 1 /\ ~(i - 1 < h) /\ (i - 1) + 1 = i
      BY <1>2, <1>3, <1>8, <2>2
    <3> QED BY <1>3, <3>1
  <2> QED BY <2>1, <2>2
<1> QED BY <1>2, <1>3, <1>4, <1>5, <1>7, <1>8

\* A put keeps what the table holds.
LEMMA PutHolds ==
  ASSUME TableHolds, NEW r \in Requests, Numbers(r), prev' = Put(body[r]), IsFiniteSet(Requests)
  PROVE  TableHolds'
<1>1. PICK b : b = body[r]
  OBVIOUS
<1>2. b \in Bodies /\ \A q \in Requests : body[q] \in Bodies
  BY <1>1 DEF Numbers
<1>3. PICK h : IsPut(b, h, prev')
  BY <1>1, <1>2, Puts DEF TableHolds
<1>4. Distinct
  BY DistinctKeys DEF Numbers
<1>5. PICK n : n = Len(prev')
  OBVIOUS
<1> DEFINE From(j) == IF j < h THEN j ELSE j + 1
<1>6. /\ n \in Nat /\ n > 0 /\ DOMAIN prev' = 1 .. n /\ prev'[n] = SlotOf(b)
      /\ \A j \in 1 .. n - 1 : /\ From(j) \in DOMAIN prev /\ From(j) # h
                               /\ prev'[j] = prev[From(j)] /\ prev'[j][1] # SlotKey(b)
      /\ \A i \in DOMAIN prev : i # h => \E j \in 1 .. n - 1 : prev'[j] = prev[i]
  BY <1>3, <1>4, <1>5, PutPlaces
<1>7. \A p \in Requests : Last(p)' <=> p = r \/ (Last(p) /\ SlotKey(body[p]) # SlotKey(b))
  BY <1>1, LastAfter
<1>8. body' = body /\ \A c : SlotOf(c)[1] = SlotKey(c)
  BY DEF Numbers, SlotOf
<1>9. DOMAIN prev \subseteq Nat /\ \A j \in 1 .. n : j = n \/ j \in 1 .. n - 1
  BY <1>6 DEF TableHolds
<1>10. prev' \in Seq(SlotsOf) /\ Len(prev') <= PrevSlots
  BY <1>3 DEF IsPut, IsPushed
<1>11. SlotsKept'
  <2> SUFFICES ASSUME NEW j \in 1 .. n PROVE \E p \in Requests : Last(p)' /\ prev'[j] = SlotOf(body'[p])
    BY <1>6 DEF SlotsKept
  <2>1. CASE j = n
    BY <1>1, <1>6, <1>7, <1>8, <2>1
  <2>2. CASE j \in 1 .. n - 1
    <3>1. PICK p \in Requests : Last(p) /\ prev'[j] = SlotOf(body[p])
      BY <1>6, <2>2 DEF TableHolds, SlotsKept
    <3>2. SlotKey(body[p]) # SlotKey(b)
      BY <1>6, <1>8, <2>2, <3>1
    <3> QED BY <1>7, <1>8, <3>1, <3>2
  <2> QED BY <1>9, <2>1, <2>2
<1>12. SlotsInOrder'
  <2> SUFFICES ASSUME NEW i \in 1 .. n, NEW j \in 1 .. n, NEW p \in Requests, NEW q \in Requests,
                      i < j, Last(p)', Last(q)', prev'[i][1] = SlotKey(body[p]), prev'[j][1] = SlotKey(body[q])
               PROVE  sent'[p] < sent'[q]
    BY <1>6, <1>8 DEF SlotsInOrder
  <2>1. i \in 1 .. n - 1
    BY <1>6
  <2>2. p # r /\ sent'[p] = sent[p] /\ Last(p)
    BY <1>1, <1>6, <1>7, <2>1 DEF Numbers
  <2>3. CASE j = n
    <3>1. q = r
      BY <1>6, <1>7, <1>8, <2>3
    <3> QED BY <2>2, <3>1 DEF Numbers
  <2>4. CASE j \in 1 .. n - 1
    <3>1. q # r /\ sent'[q] = sent[q] /\ Last(q)
      BY <1>1, <1>6, <1>7, <2>4 DEF Numbers
    <3>2. From(i) \in DOMAIN prev /\ From(j) \in DOMAIN prev /\ prev[From(i)] = prev'[i] /\ prev[From(j)] = prev'[j]
      BY <1>6, <2>1, <2>4
    <3>3. From(i) < From(j)
      <4>1. i \in Nat /\ j \in Nat /\ h \in Nat
        BY <1>3 DEF IsPut, IsPushed, TableHolds
      <4> QED BY <4>1
    <3> HIDE DEF From
    <3>4. sent[p] < sent[q]
      BY <2>2, <3>1, <3>2, <3>3 DEF TableHolds, SlotsInOrder
    <3> QED BY <2>2, <3>1, <3>4
  <2> QED BY <1>9, <2>3, <2>4
<1>13. SlotsGone'
  <2> SUFFICES ASSUME NEW p \in Requests, Last(p)', \A j \in 1 .. n : prev'[j][1] # SlotKey(body[p])
               PROVE  Cardinality(Since(sent[p])') >= PrevSlots
    <3>1. ASSUME NEW p \in Requests, Last(p)', \A j \in DOMAIN prev' : prev'[j][1] # SlotKey(body'[p])
          PROVE  Cardinality(Since(sent[p])') >= PrevSlots
      BY <1>6, <1>8, <3>1
    <3> QED BY <3>1 DEF SlotsGone
  <2>1. p # r /\ Last(p) /\ sent'[p] = sent[p]
    BY <1>1, <1>6, <1>7, <1>8 DEF Numbers
  <2>2. Since(sent[p])' = Since(sent[p]) \cup {SlotKey(b)}
    <3>1. {x \in Requests : sent'[p] < sent'[x]} = {x \in Requests : sent[p] < sent[x]} \cup {r}
      BY <2>1 DEF Numbers
    <3> QED BY <1>1, <1>8, <3>1 DEF Since
  <2>3. /\ IsFiniteSet(Since(sent[p])) /\ IsFiniteSet(Since(sent[p])')
        /\ Cardinality(Since(sent[p])) \in Nat /\ Cardinality(Since(sent[p])') \in Nat
    <3>1. IsFiniteSet({x \in Requests : sent[p] < sent[x]})
      BY FS_Subset
    <3>2. IsFiniteSet(Since(sent[p]))
      <4> DEFINE A == {x \in Requests : sent[p] < sent[x]}
                 g == [x \in A |-> SlotKey(body[x])]
      <4>1. Since(sent[p]) = {SlotKey(body[x]) : x \in A}
        BY DEF Since
      <4>2. g \in Surjection(A, Since(sent[p]))
        BY <4>1 DEF Surjection
      <4> QED BY <3>1, <4>2, FS_Surjection
    <3>3. IsFiniteSet(Since(sent[p]) \cup {SlotKey(b)})
      BY <3>2, FS_AddElement
    <3> QED BY <2>2, <3>2, <3>3, FS_CardinalityType
  <2>4. CASE \A i \in DOMAIN prev : prev[i][1] # SlotKey(body[p])
    <3>1. Cardinality(Since(sent[p])) >= PrevSlots
      BY <2>1, <2>4 DEF TableHolds, SlotsGone
    <3>2. Cardinality(Since(sent[p])) <= Cardinality(Since(sent[p])')
      BY <2>2, <2>3, FS_Subset
    <3> QED BY <2>3, <3>1, <3>2, PrevSlotsAssumption
  <2>5. CASE \E i \in DOMAIN prev : prev[i][1] = SlotKey(body[p])
    <3>1. PICK i \in DOMAIN prev : prev[i][1] = SlotKey(body[p])
      BY <2>5
    <3>2. i = h
      BY <1>6, <3>1
    <3>3. i = 1 /\ n = PrevSlots /\ prev[1][1] = SlotKey(body[p])
      <4>1. prev[h][1] # SlotKey(b)
        BY <1>6, <1>8, <3>1, <3>2
      <4>2. h <= Len(prev)
        BY <3>1, <3>2 DEF TableHolds
      <4>3. h = 1 /\ Len(prev) = PrevSlots
        BY <1>3, <4>1, <4>2 DEF IsPut
      <4>4. n = Len(prev)
        BY <1>3, <1>5, <4>2, <4>3, PrevSlotsAssumption DEF IsPut, IsPushed
      <4> QED BY <3>1, <3>2, <4>3, <4>4
    <3> DEFINE f == [j \in 1 .. n |-> prev'[j][1]]
    <3>4. ASSUME NEW j \in 1 .. n PROVE f[j] \in Since(sent[p])'
      <4>1. CASE j = n
        BY <1>6, <1>8, <2>2, <4>1
      <4>2. CASE j \in 1 .. n - 1
        <5>1. From(j) \in DOMAIN prev /\ From(j) # 1 /\ prev'[j] = prev[From(j)]
          BY <1>6, <3>2, <3>3, <4>2
        <5>2. PICK q \in Requests : Last(q) /\ prev'[j] = SlotOf(body[q])
          BY <5>1 DEF TableHolds, SlotsKept
        <5>3. 1 < From(j) /\ 1 \in DOMAIN prev
          BY <3>1, <3>3, <4>2, <5>1
        <5> HIDE DEF From
        <5>4. sent[p] < sent[q]
          BY <1>8, <2>1, <3>3, <5>1, <5>2, <5>3 DEF TableHolds, SlotsInOrder
        <5>5. f[j] = SlotKey(body[q])
          BY <1>8, <5>2
        <5> QED BY <2>2, <5>4, <5>5 DEF Since
      <4> QED BY <1>9, <4>1, <4>2
    <3>5. ASSUME NEW i1 \in 1 .. n, NEW j1 \in 1 .. n, f[i1] = f[j1] PROVE i1 = j1
      <4>1. PICK p1 \in Requests : Last(p1)' /\ prev'[i1] = SlotOf(body[p1])
        BY <1>6, <1>8, <1>11 DEF SlotsKept
      <4>2. f[i1] = SlotKey(body[p1]) /\ f[j1] = SlotKey(body[p1])
        BY <1>8, <3>5, <4>1
      <4>3. ~(sent'[p1] < sent'[p1])
        BY DEF Numbers
      <4>4. ~(i1 < j1) /\ ~(j1 < i1)
        BY <1>6, <1>8, <1>12, <4>1, <4>2, <4>3 DEF SlotsInOrder
      <4> QED BY <4>4
    <3> HIDE DEF f
    <3>6. f \in Injection(1 .. n, Since(sent[p])')
      BY <3>4, <3>5 DEF Injection, IsInjective, f
    <3>7. Cardinality(1 .. n) = n /\ Cardinality(1 .. n) <= Cardinality(Since(sent[p])')
      BY <1>6, <2>3, <3>6, FS_Injection, FS_Interval
    <3> QED BY <3>3, <3>7
  <2> QED BY <2>4, <2>5
<1> QED BY <1>10, <1>11, <1>12, <1>13 DEF TableHolds

-----------------------------------------------------------------------------
(* Every traced run is a run of the tables. *)

\* The start.
LEMMA TraceStarts == TraceInit => Init
BY DEF TraceInit

\* And every step.
LEMMA TraceSteps == [TraceNext]_traceVars => [Next]_vars
BY Zenon DEF TraceNext, TraceSend, TraceGuard, traceVars, Next, Guard

\* on_send, with the keys and lifetimes a body asks for, and the guard implement
\* the two recency tables: what is proved of these holds of the whole tracker.
THEOREM TraceRefines == TraceSpec => Spec
BY TraceStarts, TraceSteps, PTL DEF TraceSpec, Spec

-----------------------------------------------------------------------------
(* What a line knows. *)

\* The slots used between p and x.
Between(p, x) == {SlotKey(body[q]) : q \in {y \in Requests : sent[p] < sent[y] /\ sent[y] < sent[x]}}

\* A request whose guard lives has a number; its keys are those of its body.
Traced ==
  /\ body \in [Requests -> Bodies]
  /\ want = [r \in Requests |-> [tb \in Tables |-> Wants(body[r], tb)]]
  /\ \A r \in Requests : sent[r] > 0 <=> pc[r] # "new"
  /\ \A r \in Requests, tb \in Tables : hold[r][tb] \in {Absent, want[r][tb]}
  /\ DOMAIN diverged = Requests /\ DOMAIN seen = Requests

TraceInv == Traced /\ TableHolds /\ FirstDifferenceReported

\* Nothing has been sent.
LEMMA TraceInvAtStart == TraceInit => TraceInv
<1> SUFFICES ASSUME TraceInit PROVE TraceInv
  OBVIOUS
<1> USE DEF TraceInit, Init
<1>1. \A r \in Requests : sent[r] = 0
  OBVIOUS
<1>2. Traced
  BY DEF Traced
<1>3. prev \in Seq(SlotsOf) /\ Len(prev) = 0 /\ DOMAIN prev = {}
  OBVIOUS
<1>4. TableHolds
  BY <1>1, <1>3, PrevSlotsAssumption DEF TableHolds, SlotsKept, SlotsInOrder, SlotsGone, Last
<1>5. FirstDifferenceReported
  BY <1>1 DEF FirstDifferenceReported
<1> QED BY <1>2, <1>4, <1>5 DEF TraceInv

\* What a send changes.
LEMMA SendsOne ==
  ASSUME IInv, Traced, NEW r \in Requests, TraceSend(r)
  PROVE  /\ Numbers(r) /\ prev' = Put(body[r]) /\ want' = want
         /\ diverged' = [diverged EXCEPT ![r] = Report(body[r])]
         /\ pc[r] = "new" /\ pc'[r] = "sent" /\ \A q \in Requests \ {r} : pc'[q] = pc[q]
<1>1. /\ seq \in Nat /\ sent \in [Requests -> Nat] /\ \A q \in Requests : sent[q] <= seq
      /\ pc \in [Requests -> {"new", "sent", "opened", "begun", "over"}]
  BY DEF IInv, TypeOK, Numbered
<1>2. /\ sent' = [sent EXCEPT ![r] = seq + 1] /\ pc[r] = "new" /\ pc' = [pc EXCEPT ![r] = "sent"]
      /\ want' = want /\ body' = body /\ prev' = Put(body[r])
      /\ diverged' = [diverged EXCEPT ![r] = Report(body[r])]
  BY DEF TraceSend, Send
<1>3. sent[r] = 0
  BY <1>1, <1>2 DEF Traced
<1>4. Numbers(r)
  BY <1>1, <1>2, <1>3 DEF Numbers, Traced
<1> QED BY <1>1, <1>2, <1>4

\* A send takes nothing from what earlier lines said.
LEMMA Unmoved ==
  ASSUME NEW r \in Requests, Numbers(r), NEW x \in Requests, x # r, sent[x] > 0
  PROVE  /\ Predecessors(x)' = Predecessors(x)
         /\ \A p \in Predecessors(x) : Between(p, x)' = Between(p, x)
<1>1. /\ body' = body /\ sent'[x] = sent[x] /\ ~(sent'[r] < sent'[x]) /\ sent[r] = 0
      /\ \A q \in Requests \ {r} : sent'[q] = sent[q]
      /\ \A q \in Requests : sent[q] \in Nat
  BY DEF Numbers
<1>2. ASSUME NEW p \in Requests PROVE p \in Predecessors(x)' <=> p \in Predecessors(x)
  <2>1. CASE p = r
    BY <1>1, <2>1 DEF Predecessors
  <2>2. CASE p # r
    <3>1. \A q \in Requests :
            (SlotKey(body'[q]) = SlotKey(body'[x]) /\ sent'[q] < sent'[x] => sent'[q] =< sent'[p])
              <=> (SlotKey(body[q]) = SlotKey(body[x]) /\ sent[q] < sent[x] => sent[q] =< sent[p])
      <4> TAKE q \in Requests
      <4>1. CASE q = r
        BY <1>1, <2>2, <4>1
      <4>2. CASE q # r
        BY <1>1, <2>2, <4>2
      <4> QED BY <4>1, <4>2
    <3> QED BY <1>1, <2>2, <3>1 DEF Predecessors
  <2> QED BY <2>1, <2>2
<1>3. Predecessors(x)' = Predecessors(x)
  <2>1. Predecessors(x)' \subseteq Requests /\ Predecessors(x) \subseteq Requests
    BY DEF Predecessors
  <2> QED BY <1>2, <2>1
<1>4. ASSUME NEW p \in Predecessors(x) PROVE Between(p, x)' = Between(p, x)
  <2>1. p \in Requests /\ p # r
    BY <1>1 DEF Predecessors
  <2>2. {y \in Requests : sent'[p] < sent'[y] /\ sent'[y] < sent'[x]} = {y \in Requests : sent[p] < sent[y] /\ sent[y] < sent[x]}
    BY <1>1, <2>1
  <2> QED BY <1>1, <2>2 DEF Between
<1> QED BY <1>3, <1>4

\* What the table told of r's predecessor.
LEMMA ReportOf ==
  ASSUME IInv, TraceInv, NEW r \in Requests, Numbers(r), NEW p \in Requests
  PROVE  /\ p \in Predecessors(r)' <=> Last(p) /\ SlotKey(body[p]) = SlotKey(body[r])
         /\ p \in Predecessors(r)' =>
              \/ Report(body[r]) = <<"first">> /\ \A i \in DOMAIN prev : prev[i][1] # SlotKey(body[p])
              \/ Report(body[r]) = diverged_from(Slot(body[p]), body[r])
<1>1. /\ body' = body /\ sent[r] = 0 /\ sent'[r] = seq + 1 /\ seq \in Nat
      /\ \A q \in Requests \ {r} : sent'[q] = sent[q]
      /\ \A q \in Requests : sent[q] \in Nat /\ sent[q] <= seq
  BY DEF Numbers
<1>2. p \in Predecessors(r)' <=> Last(p) /\ SlotKey(body[p]) = SlotKey(body[r])
  <2>1. CASE p = r
    BY <1>1, <2>1 DEF Predecessors, Last
  <2>2. CASE p # r
    <3>1. \A q \in Requests :
            (SlotKey(body'[q]) = SlotKey(body'[r]) /\ sent'[q] < sent'[r] => sent'[q] =< sent'[p])
              <=> (SlotKey(body[q]) = SlotKey(body[r]) /\ sent[q] > 0 => sent[q] =< sent[p])
      <4> TAKE q \in Requests
      <4>1. CASE q = r
        BY <1>1, <2>2, <4>1
      <4>2. CASE q # r
        BY <1>1, <2>2, <4>2
      <4> QED BY <4>1, <4>2
    <3>2. sent'[p] < sent'[r] /\ (sent'[p] > 0 <=> sent[p] > 0)
      BY <1>1, <2>2
    <3> QED BY <1>1, <3>1, <3>2 DEF Predecessors, Last
  <2> QED BY <2>1, <2>2
<1>3. ASSUME Last(p), SlotKey(body[p]) = SlotKey(body[r])
      PROVE  \/ Report(body[r]) = <<"first">> /\ \A i \in DOMAIN prev : prev[i][1] # SlotKey(body[p])
             \/ Report(body[r]) = diverged_from(Slot(body[p]), body[r])
  <2>1. CASE Slots(SlotKey(body[r])) = {}
    BY <1>3, <2>1 DEF Report, Slots
  <2>2. CASE Slots(SlotKey(body[r])) # {}
    <3>1. PICK i : i = Min(Slots(SlotKey(body[r])))
      OBVIOUS
    <3>2. i \in DOMAIN prev /\ prev[i][1] = SlotKey(body[r])
      <4>1. Slots(SlotKey(body[r])) \in SUBSET Nat
        BY DEF Slots, TraceInv, TableHolds
      <4>2. i \in Slots(SlotKey(body[r]))
        BY <2>2, <3>1, <4>1, Least
      <4> QED BY <4>2 DEF Slots
    <3>3. PICK q \in Requests : Last(q) /\ prev[i] = SlotOf(body[q])
      BY <3>2 DEF TraceInv, TableHolds, SlotsKept
    <3>4. SlotKey(body[q]) = SlotKey(body[r]) /\ prev[i][2] = Slot(body[q])
      BY <3>2, <3>3 DEF SlotOf
    <3>5. sent[p] = sent[q] /\ sent[p] > 0 /\ sent[q] > 0
      BY <1>1, <1>3, <3>3, <3>4 DEF Last
    <3>6. p = q
      BY <3>5 DEF TraceInv, Traced, IInv, Numbered
    <3>7. Report(body[r]) = diverged_from(prev[i][2], body[r])
      BY <2>2, <3>1 DEF Report
    <3> QED BY <3>4, <3>6, <3>7
  <2> QED BY <2>1, <2>2
<1> QED BY <1>2, <1>3

-----------------------------------------------------------------------------
\* What the line of x says is true.
LineTrue(x) ==
  IF diverged[x] = <<"first">>
  THEN \A p \in Predecessors(x) : Cardinality(Between(p, x)) >= PrevSlots
  ELSE \E p \in Predecessors(x) : Tells(diverged[x], body[p], body[x])

\* The invariant says so of every line.
LEMMA LinesTrue == FirstDifferenceReported <=> \A x \in Requests : sent[x] > 0 => LineTrue(x)
BY DEF FirstDifferenceReported, LineTrue, Between

\* A send leaves the fields of its request consistent.
LEMMA SendTraced ==
  ASSUME IInv, Traced, NEW r \in Requests, TraceSend(r), Numbers(r)
  PROVE  Traced'
<1>1. body' = body /\ want' = want /\ body \in [Requests -> Bodies]
  BY DEF TraceSend, Send, Traced
<1>2. /\ pc \in [Requests -> {"new", "sent", "opened", "begun", "over"}]
      /\ hold \in [Requests -> [Tables -> Keys \cup {Absent}]]
  BY DEF IInv, TypeOK
<1>3. \A x \in Requests : sent'[x] > 0 <=> pc'[x] # "new"
  <2> TAKE x \in Requests
  <2>1. pc' = [pc EXCEPT ![r] = "sent"]
    BY DEF TraceSend, Send
  <2>2. CASE x = r
    BY <1>2, <2>1, <2>2 DEF Numbers
  <2>3. CASE x # r
    BY <1>2, <2>1, <2>3 DEF Numbers, Traced
  <2> QED BY <2>2, <2>3
<1>4. \A x \in Requests, tb \in Tables : hold'[x][tb] \in {Absent, want[x][tb]}
  <2> TAKE x \in Requests, tb \in Tables
  <2>1. hold' = [hold EXCEPT ![r] = [t \in Tables |-> IF Accepts(t, want[r][t]) THEN want[r][t] ELSE Absent]]
    BY DEF TraceSend, Send
  <2>2. CASE x = r
    BY <1>2, <2>1, <2>2
  <2>3. CASE x # r
    BY <1>2, <2>1, <2>3 DEF Traced
  <2> QED BY <2>2, <2>3
<1>5. DOMAIN diverged' = Requests /\ DOMAIN seen' = Requests
  BY DEF TraceSend, Traced
<1>6. want = [x \in Requests |-> [tb \in Tables |-> Wants(body[x], tb)]]
  BY DEF Traced
<1> QED BY <1>1, <1>3, <1>4, <1>5, <1>6 DEF Traced

\* The line a send writes is true.
LEMMA SendLineTrue ==
  ASSUME IInv, TraceInv, NEW r \in Requests, Numbers(r), diverged' = [diverged EXCEPT ![r] = Report(body[r])]
  PROVE  LineTrue(r)'
<1>1. diverged'[r] = Report(body[r]) /\ body' = body /\ \A p \in Requests : body[p] \in Bodies
  BY DEF TraceInv, Traced, Numbers
<1>2. Predecessors(r)' \subseteq Requests
  BY DEF Predecessors
<1>3. CASE Report(body[r]) = <<"first">>
  <2> SUFFICES ASSUME NEW p \in Predecessors(r)' PROVE Cardinality(Between(p, r)') >= PrevSlots
    BY <1>1, <1>3 DEF LineTrue
  <2>1. p \in Requests /\ Last(p) /\ SlotKey(body[p]) = SlotKey(body[r])
    BY <1>2, ReportOf
  <2>2. \A i \in DOMAIN prev : prev[i][1] # SlotKey(body[p])
    <3>1. Report(body[r]) # diverged_from(Slot(body[p]), body[r])
      BY <1>1, <1>3, <2>1, ReportTells DEF Told
    <3> QED BY <2>1, <3>1, ReportOf
  <2>3. Cardinality(Since(sent[p])) >= PrevSlots
    BY <2>1, <2>2 DEF TraceInv, TableHolds, SlotsGone
  <2>4. Between(p, r)' = Since(sent[p])
    <3>1. sent[p] > 0 /\ sent[r] = 0 /\ sent'[p] = sent[p] /\ sent'[r] = seq + 1 /\ seq \in Nat
      BY <2>1 DEF Numbers, Last
    <3>2. ASSUME NEW y \in Requests PROVE sent'[p] < sent'[y] /\ sent'[y] < sent'[r] <=> sent[p] < sent[y]
      <4>1. CASE y = r
        <5>1. sent[p] \in Nat
          BY <2>1 DEF Numbers
        <5> QED BY <3>1, <4>1, <5>1
      <4>2. CASE y # r
        BY <3>1, <4>2 DEF Numbers
      <4> QED BY <4>1, <4>2
    <3> QED BY <1>1, <3>2 DEF Between, Since
  <2> QED BY <2>3, <2>4
<1>4. CASE Report(body[r]) # <<"first">>
  <2>1. Slots(SlotKey(body[r])) # {}
    BY <1>4 DEF Report
  <2>2. PICK i \in DOMAIN prev : prev[i][1] = SlotKey(body[r])
    BY <2>1 DEF Slots
  <2>3. PICK p \in Requests : Last(p) /\ prev[i] = SlotOf(body[p])
    BY DEF TraceInv, TableHolds, SlotsKept
  <2>4. p \in Predecessors(r)'
    <3>1. SlotKey(body[p]) = SlotKey(body[r])
      BY <2>2, <2>3 DEF SlotOf
    <3> QED BY <2>3, <3>1, ReportOf
  <2>5. Report(body[r]) = diverged_from(Slot(body[p]), body[r])
    BY <1>4, <2>4, ReportOf
  <2>6. Tells(Report(body[r]), body[p], body[r])
    BY <1>1, <2>5, ReportTells DEF Told
  <2> QED BY <1>1, <1>4, <2>4, <2>6 DEF LineTrue
<1> QED BY <1>3, <1>4

\* A send keeps the invariant.
LEMMA SendKeeps ==
  ASSUME IInv, TraceInv, NEW r \in Requests, TraceSend(r)
  PROVE  TraceInv'
<1>1. /\ Numbers(r) /\ prev' = Put(body[r])
      /\ diverged' = [diverged EXCEPT ![r] = Report(body[r])]
  BY SendsOne DEF TraceInv
<1>2. Traced'
  BY <1>1, SendTraced DEF TraceInv
<1>3. TableHolds'
  BY <1>1, PutHolds, RequestsAssumption DEF TraceInv
<1>4. ASSUME NEW x \in Requests, sent'[x] > 0 PROVE LineTrue(x)'
  <2>1. CASE x = r
    BY <1>1, <2>1, SendLineTrue
  <2>2. CASE x # r
    <3>1. sent[x] > 0 /\ body' = body /\ diverged'[x] = diverged[x]
      BY <1>1, <1>4, <2>2 DEF Numbers
    <3>2. LineTrue(x)
      BY <3>1, LinesTrue DEF TraceInv
    <3>3. /\ Predecessors(x)' = Predecessors(x)
          /\ \A p \in Predecessors(x) : Between(p, x)' = Between(p, x)
      BY <1>1, <2>2, <3>1, Unmoved
    <3> QED BY <3>1, <3>2, <3>3 DEF LineTrue
  <2> QED BY <2>1, <2>2
<1>5. FirstDifferenceReported'
  BY <1>4 DEF FirstDifferenceReported, LineTrue, Between
<1> QED BY <1>2, <1>3, <1>5 DEF TraceInv

\* So does the rest of a guard's life.
LEMMA GuardKeeps ==
  ASSUME IInv, TraceInv, NEW r \in Requests, TraceGuard(r)
  PROVE  /\ TraceInv'
         /\ \A x \in Requests : pc[x] # "new" <=> pc'[x] # "new"
<1>1. /\ UNCHANGED <<body, prev, diverged, seen, sent, want, hold>>
      /\ \E p \in {"opened", "begun", "over"} : pc' = [pc EXCEPT ![r] = p] \/ pc' = pc
      /\ pc[r] # "new"
  BY DEF TraceGuard, Refused, Whole, Opened, FirstChunk, Usage, Drop, Settle
<1>2. pc \in [Requests -> {"new", "sent", "opened", "begun", "over"}]
  BY DEF IInv, TypeOK
<1>3. \A x \in Requests : pc[x] # "new" <=> pc'[x] # "new"
  BY <1>1, <1>2
<1>4. Traced'
  BY <1>1, <1>3 DEF TraceInv, Traced
<1>5. TableHolds'
  BY <1>1 DEF TraceInv, TableHolds, SlotsKept, SlotsInOrder, SlotsGone, Last, Since, Slots
<1>6. FirstDifferenceReported'
  <2>1. \A x : Predecessors(x)' = Predecessors(x)
    BY <1>1 DEF Predecessors
  <2> QED BY <1>1, <2>1 DEF TraceInv, FirstDifferenceReported
<1> QED BY <1>3, <1>4, <1>5, <1>6 DEF TraceInv

\* TraceInv holds in every reachable state, beside IInv.
THEOREM TraceInvariant == TraceSpec => [](IInv /\ TraceInv)
<1>1. IInv /\ TraceInv /\ [TraceNext]_traceVars => TraceInv'
  <2> SUFFICES ASSUME IInv, TraceInv, [TraceNext]_traceVars PROVE TraceInv'
    OBVIOUS
  <2>1. CASE TraceNext
    BY <2>1, SendKeeps, GuardKeeps DEF TraceNext
  <2>2. CASE UNCHANGED traceVars
    <3>1. UNCHANGED <<body, prev, diverged, seen, sent, want, hold, pc>>
      BY <2>2 DEF traceVars, vars
    <3>2. Traced'
      BY <3>1 DEF TraceInv, Traced
    <3>3. TableHolds'
      BY <3>1 DEF TraceInv, TableHolds, SlotsKept, SlotsInOrder, SlotsGone, Last, Since, Slots
    <3>4. FirstDifferenceReported'
      <4>1. \A x : Predecessors(x)' = Predecessors(x)
        BY <3>1 DEF Predecessors
      <4> QED BY <3>1, <4>1 DEF TraceInv, FirstDifferenceReported
    <3> QED BY <3>2, <3>3, <3>4 DEF TraceInv
  <2> QED BY <2>1, <2>2
<1>2. TraceSpec => []IInv
  BY TraceRefines, InductiveInvariant, PTL
<1> QED BY <1>1, <1>2, TraceInvAtStart, PTL DEF TraceSpec

\* Whatever the bodies, the caps and the requests of others in between, the place
\* a line reports is where its request first differs from the one before it by
\* the same client and model; and a line says "first" only when there was none,
\* or PREV_SLOTS others took its slot.
THEOREM FirstDifferenceTold == TraceSpec => []FirstDifferenceReported
<1>1. TraceInv => FirstDifferenceReported
  BY DEF TraceInv
<1> QED BY <1>1, TraceInvariant, PTL

-----------------------------------------------------------------------------
(* The report and the recency tables tell one story. *)

\* Bodies whose tools, system blocks and breakpoints agree have one prefix.
LEMMA SamePrefixFp ==
  ASSUME NEW p \in Bodies, NEW b \in Bodies, Texts(p.tools) = Texts(b.tools), Texts(p.system) = Texts(b.system),
         Marked(p.tools) = Marked(b.tools), Marked(p.system) = Marked(b.system)
  PROVE  prefix_fp(p) = prefix_fp(b)
<1>1. Len(p.tools) = Len(b.tools) /\ Len(p.system) = Len(b.system)
  BY SectionsOf, TextsOf DEF Sections
<1>2. LastMark(p.tools) = LastMark(b.tools) /\ LastMark(p.system) = LastMark(b.system)
  BY DEF LastMark
<1>3. PrefixTools(p) = PrefixTools(b) /\ PrefixSystem(p) = PrefixSystem(b)
  BY <1>1, <1>2 DEF PrefixTools, PrefixSystem
<1> QED BY <1>3 DEF prefix_fp

\* A send that wants the key of a send still out reads the entry it waits on.
LEMMA SiblingShown ==
  ASSUME IInv, TraceInv, NEW r \in Requests, NEW p \in Requests, NEW tb \in Tables, TraceSend(r),
         pc[p] # "new", p # r, outcome[p] = "none", hold[p][tb] # Absent,
         hold[p][tb] = KeyOf(body[r], tb)
  PROVE  Shows(r, p, tb)'
<1>1. PICK k : k = hold[p][tb]
  OBVIOUS
<1>2. k \in Keys /\ k # Absent /\ k = KeyOf(body[r], tb)
  BY <1>1 DEF IInv, TypeOK
<1>3. p \in Unsettled(tb, k)
  BY <1>1 DEF Unsettled
<1>4. k \in Present(tb) /\ table[tb][k].pending > 0
  BY <1>2, <1>3, UnsettledPins DEF IInv
<1>5. sent[p] <= table[tb][k].last
  BY <1>1, <1>4 DEF IInv, History
<1>6. table[tb][k] \in Entries
  <2>1. table[tb][k] \in Entries \cup {Absent} /\ table[tb][k] # Absent
    BY <1>2, <1>4 DEF IInv, TypeOK, Present
  <2> QED BY <2>1
<1>7. Accepts(tb, k)
  BY <1>2, <1>4 DEF Accepts
<1>8. Wants(body[r], tb) \in {Absent, k}
  BY <1>2 DEF Wants
<1>9. PICK line : line = [last |-> table[tb][k].last, readable |-> table[tb][k].readable, pending |-> table[tb][k].pending]
  OBVIOUS
<1>10. Reads(body[r], tb) = line
  BY <1>2, <1>4, <1>7, <1>8, <1>9 DEF Reads, Present
<1>11. line # Absent
  <2>1. line \in [last : Nat, readable : Expiries \cup {Absent}, pending : Nat]
    BY <1>6, <1>9 DEF Entries
  <2> QED BY <2>1, NoneAssumption
<1>12. seen'[r][tb] = line
  <2>1. seen' = [seen EXCEPT ![r] = [t \in Tables |-> Reads(body[r], t)]]
    BY DEF TraceSend
  <2> QED BY <1>10, <2>1 DEF TraceInv, Traced
<1>13. sent'[p] = sent[p]
  BY SendsOne DEF TraceInv, Numbers
<1> QED BY <1>4, <1>5, <1>9, <1>11, <1>12, <1>13 DEF Shows

\* What a report of no difference in the tools says of the sender before.
LEMMA SiblingAgrees ==
  ASSUME IInv, TraceInv, NEW r \in Requests, TraceSend(r), NEW p \in Predecessors(r)'
  PROVE  /\ p \in Requests /\ p # r /\ pc[p] # "new" /\ body[p].model = body[r].model
         /\ body[p] \in Bodies /\ body[r] \in Bodies
         /\ diverged'[r] # <<"first">> => Told(diverged'[r], body[p], body[r])
<1>1. Numbers(r) /\ diverged' = [diverged EXCEPT ![r] = Report(body[r])]
  BY SendsOne DEF TraceInv
<1>2. p \in Requests /\ Last(p) /\ SlotKey(body[p]) = SlotKey(body[r])
  <2>1. p \in Requests
    BY DEF Predecessors
  <2> QED BY <1>1, <2>1, ReportOf
<1>3. p # r /\ pc[p] # "new"
  BY <1>1, <1>2 DEF Numbers, Last, TraceInv, Traced
<1>4. body[p].model = body[r].model
  BY <1>2 DEF SlotKey
<1>5. body[p] \in Bodies /\ body[r] \in Bodies
  BY <1>1, <1>2 DEF Numbers
<1>6. diverged'[r] = Report(body[r])
  BY <1>1 DEF TraceInv, Traced
<1>7. diverged'[r] # <<"first">> => diverged'[r] = diverged_from(Slot(body[p]), body[r])
  BY <1>1, <1>2, <1>6, ReportOf
<1>8. diverged'[r] # <<"first">> => Told(diverged'[r], body[p], body[r])
  BY <1>5, <1>7, ReportTells
<1> QED BY <1>2, <1>3, <1>4, <1>5, <1>8

\* The two promises of SiblingInFlightSeen, for one send.
LEMMA SiblingStep ==
  ASSUME IInv, TraceInv, NEW r \in Requests, TraceSend(r), NEW p \in Predecessors(r)', outcome[p] = "none"
  PROVE  /\ diverged'[r][1] \in {"system", "msgs", "none"} /\ hold[p]["tools"] # Absent =>
              Shows(r, p, "tools")'
         /\ diverged'[r][1] \in {"msgs", "none"} /\ hold[p]["prefix"] # Absent
            /\ Marked(body[p].tools) = Marked(body[r].tools)
            /\ Marked(body[p].system) = Marked(body[r].system) =>
              Shows(r, p, "prefix")'
<1>1. /\ p \in Requests /\ p # r /\ pc[p] # "new" /\ body[p].model = body[r].model
      /\ body[p] \in Bodies /\ body[r] \in Bodies
      /\ diverged'[r] # <<"first">> => Told(diverged'[r], body[p], body[r])
  BY SiblingAgrees
<1>2. "tools" \in Tables /\ "prefix" \in Tables
  BY BothTablesAssumption
<1>3. \A tb \in Tables : hold[p][tb] # Absent => hold[p][tb] = KeyOf(body[p], tb)
  <2> TAKE tb \in Tables
  <2>1. hold[p][tb] # Absent => hold[p][tb] = Wants(body[p], tb)
    BY <1>1 DEF TraceInv, Traced
  <2> QED BY <2>1 DEF Wants
<1>4. ASSUME diverged'[r][1] \in {"system", "msgs", "none"}
      PROVE  /\ body[p].ctx = body[r].ctx /\ Texts(body[p].tools) = Texts(body[r].tools)
             /\ diverged'[r][1] \in {"msgs", "none"} => Texts(body[p].system) = Texts(body[r].system)
  <2>1. diverged'[r] # <<"first">>
    BY <1>4
  <2> QED BY <1>1, <1>4, <2>1 DEF Told
<1>5. ASSUME diverged'[r][1] \in {"system", "msgs", "none"}, hold[p]["tools"] # Absent
      PROVE  Shows(r, p, "tools")'
  <2>1. KeyOf(body[p], "tools") = KeyOf(body[r], "tools")
    BY <1>1, <1>4, <1>5 DEF KeyOf, tools_fp
  <2> QED BY <1>1, <1>2, <1>3, <1>5, <2>1, SiblingShown
<1>6. ASSUME diverged'[r][1] \in {"msgs", "none"}, hold[p]["prefix"] # Absent,
             Marked(body[p].tools) = Marked(body[r].tools), Marked(body[p].system) = Marked(body[r].system)
      PROVE  Shows(r, p, "prefix")'
  <2>1. prefix_fp(body[p]) = prefix_fp(body[r])
    BY <1>1, <1>4, <1>6, SamePrefixFp
  <2>2. KeyOf(body[p], "prefix") = KeyOf(body[r], "prefix")
    BY <1>1, <1>4, <1>6, <2>1 DEF KeyOf
  <2> QED BY <1>1, <1>2, <1>3, <1>6, <2>2, SiblingShown
<1> QED BY <1>5, <1>6

\* A request whose line says it shares the tools, or the whole prefix, with one
\* still in flight reads the entry that one waits on: the report and the recency
\* tables never contradict each other.
THEOREM SiblingSeen == TraceSpec => SiblingInFlightSeen
<1> DEFINE OneStory(r, p) ==
         /\ diverged'[r][1] \in {"system", "msgs", "none"} /\ hold[p]["tools"] # Absent =>
              Shows(r, p, "tools")'
         /\ diverged'[r][1] \in {"msgs", "none"} /\ hold[p]["prefix"] # Absent
            /\ Marked(body[p].tools) = Marked(body[r].tools)
            /\ Marked(body[p].system) = Marked(body[r].system) =>
              Shows(r, p, "prefix")'
           Step == \A r, p \in Requests : SentBeside(r, p) => OneStory(r, p)
<1>1. IInv /\ TraceInv /\ [TraceNext]_traceVars => [Step]_traceVars
  <2> SUFFICES ASSUME IInv, TraceInv, TraceNext, NEW r \in Requests, NEW p \in Requests, SentBeside(r, p)
               PROVE  OneStory(r, p)
    OBVIOUS
  <2>1. PICK x \in Requests : TraceSend(x) \/ TraceGuard(x)
    BY DEF TraceNext
  <2>2. ~TraceGuard(x)
    BY GuardKeeps DEF SentBeside
  <2>3. x = r
    BY <2>1, <2>2, SendsOne DEF SentBeside, TraceInv
  <2> QED BY <2>1, <2>2, <2>3, SiblingStep DEF SentBeside
<1> QED BY <1>1, TraceInvariant, PTL DEF TraceSpec, SiblingInFlightSeen
=============================================================================
