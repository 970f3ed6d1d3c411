------------------------------ MODULE CacheTrace ------------------------------
(***************************************************************************)
(* The whole of `on_send` of src/cache_trace.rs: the analysis of a body    *)
(* (`analyze`), its comparison with the last request of the same client    *)
(* and model (the `prev` table, `seq_diff`, `diverged_from`), and, from    *)
(* CacheTracker, the two recency tables and the guard.  Here the keys a    *)
(* request wants are no longer arbitrary: they are the fingerprints of its *)
(* body, and the lifetimes are those its breakpoints ask for.              *)
(*                                                                         *)
(* A block is its canonical bytes without `cache_control`, a short tuple,  *)
(* and the TTL of its breakpoint in minutes, 0 if it has none.  A message  *)
(* is one block whose mark is the longest of its content's.  A fingerprint *)
(* is what it was computed from: FNV-1a is taken to have no collisions.    *)
(* The settings that make up `ctx` are one value.  All sends fall in one   *)
(* instant, so an expiry is a TTL: what differs between two sends of a key *)
(* is the TTL they ask for.                                                *)
(***************************************************************************)
EXTENDS CacheTracker, Sequences, FiniteSetsExt

CONSTANTS
  Bodies,         \* the request bodies, with the client they come from
  PrevSlots,      \* PREV_SLOTS
  BytesBudget,    \* PREV_BYTES_BUDGET
  Fp,             \* the key of a model, its settings and a sequence of blocks
  ToolsHashCap, SystemHashCap, MsgsHashCap

ASSUME BothTablesAssumption == Tables = {"prefix", "tools"}
ASSUME PrevSlotsAssumption == PrevSlots \in Nat \ {0}
ASSUME CapsAssumption == {BytesBudget, ToolsHashCap, SystemHashCap, MsgsHashCap} \subseteq Nat \ {0}
ASSUME BodiesAssumption ==
  \A b \in Bodies : {b.tools, b.system, b.msgs} \subseteq Seq([text : Seq(Nat), mark : {0, 5, 60}])

ASSUME FpAssumption ==
  \A x, y \in DOMAIN Fp : Fp[x] \in Keys /\ (x # y => Fp[x] # Fp[y])

ASSUME NoneAssumption ==
  Absent \notin [last : Nat, readable : Expiries \cup {Absent}, pending : Nat]

VARIABLES
  body,      \* body[r]: what r sends
  prev,      \* Inner.prev: <<client and model, PrevSlot>>, least recently used first
  diverged,  \* diverged[r]: SendTrace.diverged
  seen       \* seen[r][tb]: the Recency of r's line, Absent for NONE

traceVars == <<vars, body, prev, diverged, seen>>

-----------------------------------------------------------------------------
(* analyze. *)

Texts(blocks) == [i \in DOMAIN blocks |-> blocks[i].text]

Bytes(blocks) == MapThenSumSet(LAMBDA i : Len(blocks[i].text), DOMAIN blocks)

Marked(blocks) == {i \in DOMAIN blocks : blocks[i].mark # 0}

\* The first block of the section is 1; 0 stands for no breakpoint.
LastMark(blocks) == Max(Marked(blocks) \cup {0})

\* The block set up to the last breakpoint inside tools and system; all of both
\* when there is none.
PrefixTools(b) ==
  IF Marked(b.system) = {} /\ Marked(b.tools) # {} THEN LastMark(b.tools) ELSE Len(b.tools)
PrefixSystem(b) ==
  IF Marked(b.system) # {} THEN LastMark(b.system)
  ELSE IF Marked(b.tools) # {} THEN 0 ELSE Len(b.system)

prefix_fp(b) ==
  SubSeq(Texts(b.tools), 1, PrefixTools(b)) \o SubSeq(Texts(b.system), 1, PrefixSystem(b))

tools_fp(b) == Texts(b.tools)

\* The TTL of the last breakpoint inside tools and system; 0 for none.
ttl(b) ==
  IF Marked(b.system) # {} THEN b.system[LastMark(b.system)].mark
  ELSE IF Marked(b.tools) # {} THEN b.tools[LastMark(b.tools)].mark
  ELSE 0

\* The longest TTL anywhere, the automatic breakpoint included.
ttl_max(b) ==
  Max({0, b.auto} \cup UNION {{s[i].mark : i \in DOMAIN s} : s \in {b.tools, b.system, b.msgs}})

KeyOf(b, tb) == Fp[<<b.model, b.ctx, IF tb = "prefix" THEN prefix_fp(b) ELSE tools_fp(b)>>]

\* Without a breakpoint in tools or system nothing is held in the prefix table,
\* without tools nothing in the tools table.
Wants(b, tb) ==
  IF (tb = "prefix" /\ ttl(b) = 0) \/ (tb = "tools" /\ b.tools = <<>>)
  THEN Absent ELSE KeyOf(b, tb)

Lifetime(b, tb) ==
  IF tb = "prefix" THEN (IF ttl(b) = 0 THEN 5 ELSE ttl(b))
  ELSE (IF ttl_max(b) = 0 THEN 5 ELSE ttl_max(b))

-----------------------------------------------------------------------------
(* The previous request. *)

\* Seq::new.  A fold of nothing is the None of the code.
CappedSeq(hashes, cap) ==
  [head |-> SubSeq(hashes, 1, Min({cap, Len(hashes)})),
   tail |-> SubSeq(hashes, cap + 1, Len(hashes)),
   total |-> Len(hashes)]

\* Slip: what lies beyond the cap is not compared.
SeqDiffHeads(p, c, cap) ==
  LET differing == {i \in DOMAIN p.head \cap DOMAIN c.head : p.head[i] # c.head[i]}
      shared == Min({p.total, c.total})
  IN IF differing # {} THEN <<"at", Min(differing) - 1>>
     ELSE IF p.total # c.total /\ shared < cap
     THEN <<"count", shared, IF c.total > p.total THEN "+" ELSE "-">>
     ELSE <<"same">>

seq_diff(p, c, cap) ==
  LET differing == {i \in DOMAIN p.head \cap DOMAIN c.head : p.head[i] # c.head[i]}
      shared == Min({p.total, c.total})
  IN IF differing # {} THEN <<"at", Min(differing) - 1>>
     ELSE IF p.total # c.total
     THEN IF shared >= cap THEN <<"tail">>
          ELSE <<"count", shared, IF c.total > p.total THEN "+" ELSE "-">>
     ELSE IF p.tail # c.tail THEN <<"tail">>
     ELSE <<"same">>

\* Bytes the two blocks share at their start.
first_diff(a, b) ==
  Min({i - 1 : i \in {j \in DOMAIN a \cap DOMAIN b : a[j] # b[j]}} \cup {Min({Len(a), Len(b)})})

\* Tools and system: a byte offset when the earlier canonical bytes were kept.
section(name, cap, d, kept, earlier, blocks) ==
  IF d[1] = "tail" THEN <<name, cap, "tail">>
  ELSE IF d[1] = "count" THEN <<name, d[2], d[3]>>
  ELSE IF kept THEN <<name, d[2], "byte", first_diff(earlier[d[2] + 1], blocks[d[2] + 1])>>
  ELSE <<name, d[2], "?">>

section_msgs(d) ==
  IF d[1] = "tail" THEN <<"msgs", MsgsHashCap, "tail">> ELSE <<"msgs", d[2]>>

\* The canonical bytes are kept only within the budget.
Slot(b) ==
  LET kept == Bytes(b.tools) + Bytes(b.system) =< BytesBudget IN
  [ctx |-> b.ctx,
   tools |-> CappedSeq(Texts(b.tools), ToolsHashCap),
   system |-> CappedSeq(Texts(b.system), SystemHashCap),
   msgs |-> CappedSeq(Texts(b.msgs), MsgsHashCap),
   kept |-> kept,
   canonTools |-> IF kept THEN Texts(b.tools) ELSE <<>>,
   canonSystem |-> IF kept THEN Texts(b.system) ELSE <<>>]

diverged_from(p, b) ==
  LET s == Slot(b)
      tools == seq_diff(p.tools, s.tools, ToolsHashCap)
      system == seq_diff(p.system, s.system, SystemHashCap)
      msgs == seq_diff(p.msgs, s.msgs, MsgsHashCap)
  IN IF p.ctx # b.ctx THEN <<"ctx">>
     ELSE IF tools # <<"same">>
     THEN section("tools", ToolsHashCap, tools, p.kept, p.canonTools, Texts(b.tools))
     ELSE IF system # <<"same">>
     THEN section("system", SystemHashCap, system, p.kept, p.canonSystem, Texts(b.system))
     ELSE IF msgs # <<"same">> THEN section_msgs(msgs)
     ELSE <<"none">>

SlotKey(b) == <<b.client, b.model>>

Slots(key) == {i \in DOMAIN prev : prev[i][1] = key}

Report(b) ==
  IF Slots(SlotKey(b)) = {} THEN <<"first">>
  ELSE diverged_from(prev[Min(Slots(SlotKey(b)))][2], b)

\* The slots of others, a key having one at most.
Others(key) ==
  LET at == Min(Slots(key)) IN
  IF Slots(key) = {} THEN prev ELSE SubSeq(prev, 1, at - 1) \o SubSeq(prev, at + 1, Len(prev))

\* Slip: the first request of a client and model stays the one compared with.
PutOnce(b) ==
  LET others == Others(SlotKey(b))
      room == IF Len(others) >= PrevSlots THEN Tail(others) ELSE others
  IN IF Slots(SlotKey(b)) # {} THEN prev ELSE Append(room, <<SlotKey(b), Slot(b)>>)

\* LruCache::put: the slot becomes the most recent, the least recent one goes.
Put(b) ==
  LET others == Others(SlotKey(b))
      room == IF Len(others) >= PrevSlots THEN Tail(others) ELSE others
  IN Append(room, <<SlotKey(b), Slot(b)>>)

-----------------------------------------------------------------------------
(* on_send, and the rest of the guard's life. *)

\* read_entry, of the entry as it was before this send; NONE when the table
\* refused the send.
Reads(b, tb) ==
  LET e == table[tb][KeyOf(b, tb)]
      refused == Wants(b, tb) # Absent /\ ~Accepts(tb, Wants(b, tb))
  IN IF refused \/ e = Absent THEN Absent
     ELSE [last |-> e.last, readable |-> e.readable, pending |-> e.pending]

TraceInit ==
  /\ body \in [Requests -> Bodies]
  /\ want = [r \in Requests |-> [tb \in Tables |-> Wants(body[r], tb)]]
  /\ Init
  /\ prev = <<>>
  /\ diverged = [r \in Requests |-> <<>>]
  /\ seen = [r \in Requests |-> [tb \in Tables |-> Absent]]

TraceSend(r) ==
  /\ expiry' = [expiry EXCEPT ![r] = [tb \in Tables |-> Lifetime(body[r], tb)]]
  /\ Send(r)
  /\ diverged' = [diverged EXCEPT ![r] = Report(body[r])]
  /\ prev' = Put(body[r])
  /\ seen' = [seen EXCEPT ![r] = [tb \in Tables |-> Reads(body[r], tb)]]
  /\ UNCHANGED body

TraceGuard(r) ==
  /\ Refused(r) \/ Whole(r) \/ Opened(r) \/ FirstChunk(r) \/ Usage(r) \/ Drop(r)
  /\ UNCHANGED <<body, prev, diverged, seen>>

TraceNext == \E r \in Requests : TraceSend(r) \/ TraceGuard(r)

TraceSpec == TraceInit /\ [][TraceNext]_traceVars

-----------------------------------------------------------------------------
(* Properties. *)

\* The last request of r's client and model sent before r, if any.
Predecessors(r) ==
  {p \in Requests :
     /\ sent[p] > 0 /\ sent[p] < sent[r]
     /\ SlotKey(body[p]) = SlotKey(body[r])
     /\ \A q \in Requests :
          SlotKey(body[q]) = SlotKey(body[r]) /\ sent[q] < sent[r] => sent[q] =< sent[p]}

\* Section s of both bodies is the same up to block n, and not in block n + 1.
AgreeFor(p, b, s, n) ==
  LET old == Texts(p[s])
      new == Texts(b[s])
  IN /\ n =< Len(old) /\ n =< Len(new)
     /\ SubSeq(old, 1, n) = SubSeq(new, 1, n)
     /\ SubSeq(old, n + 1, Len(old)) # SubSeq(new, n + 1, Len(new))
     /\ n < Len(old) /\ n < Len(new) => old[n + 1] # new[n + 1]

\* What a report says of two bodies, told from the bodies alone.
Tells(report, p, b) ==
  LET sections == <<"tools", "system", "msgs">>
      same(j) == Texts(p[sections[j]]) = Texts(b[sections[j]])
      cap == [tools |-> ToolsHashCap, system |-> SystemHashCap, msgs |-> MsgsHashCap]
  IN IF report = <<"ctx">> THEN p.ctx # b.ctx
     ELSE /\ p.ctx = b.ctx
          /\ IF report = <<"none">> THEN \A j \in 1 .. 3 : same(j)
             ELSE \E j \in 1 .. 3 :
               /\ report[1] = sections[j]
               /\ \A i \in 1 .. j - 1 : same(i)
               /\ LET s == sections[j]
                      n == report[2]
                  IN IF Len(report) = 3 /\ report[3] = "tail"
                     THEN \E m \in cap[s] .. Len(p[s]) : AgreeFor(p, b, s, m)
                     ELSE /\ AgreeFor(p, b, s, n)
                          /\ Len(report) = 3 /\ report[3] = "+" => Len(p[s]) = n
                          /\ Len(report) = 3 /\ report[3] = "-" => Len(b[s]) = n
                          /\ Len(report) = 4 =>
                               LET old == p[s][n + 1].text
                                   new == b[s][n + 1].text
                                   at == report[4]
                               IN /\ at =< Len(old) /\ at =< Len(new)
                                  /\ SubSeq(old, 1, at) = SubSeq(new, 1, at)
                                  /\ at < Len(old) /\ at < Len(new) => old[at + 1] # new[at + 1]

\* "Where this request first differs from the previous one by the same
\* client+model": with requests of other clients in between, sections longer
\* than their hash cap and bodies over the byte budget, the place a line reports
\* is the first difference of the two bodies, down to the byte; and "first"
\* means nothing was sent before, or PREV_SLOTS other slots were used since.
FirstDifferenceReported ==
  \A r \in Requests :
    sent[r] > 0 =>
      IF diverged[r] = <<"first">>
      THEN \A p \in Predecessors(r) :
             Cardinality({SlotKey(body[q]) : q \in {x \in Requests :
               sent[p] < sent[x] /\ sent[x] < sent[r]}}) >= PrevSlots
      ELSE \E p \in Predecessors(r) : Tells(diverged[r], body[p], body[r])

\* r's line shows the entry in which p's send is pending.
Shows(r, p, tb) ==
  /\ seen[r][tb] # Absent
  /\ seen[r][tb].pending > 0
  /\ seen[r][tb].last >= sent[p]

\* p is r's predecessor, and its response has not begun when r is sent.
SentBeside(r, p) ==
  /\ pc[r] = "new" /\ pc'[r] = "sent"
  /\ p \in Predecessors(r)'
  /\ outcome[p] = "none"

\* The report and the recency tables tell one story: a request whose line says
\* that it first differs after the tools from a request still in flight that
\* holds a tools entry, finds that entry with a send pending; and the same for
\* the prefix when only messages differ and the breakpoints stand where they
\* stood.
SiblingInFlightSeen ==
  [][\A r, p \in Requests :
       SentBeside(r, p) =>
         /\ diverged'[r][1] \in {"system", "msgs", "none"} /\ hold[p]["tools"] # Absent =>
              Shows(r, p, "tools")'
         /\ diverged'[r][1] \in {"msgs", "none"} /\ hold[p]["prefix"] # Absent
            /\ Marked(body[p].tools) = Marked(body[r].tools)
            /\ Marked(body[p].system) = Marked(body[r].system) =>
              Shows(r, p, "prefix")']_traceVars
=============================================================================
