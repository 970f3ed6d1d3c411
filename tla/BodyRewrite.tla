---------------------------- MODULE BodyRewrite ----------------------------
(***************************************************************************)
(* The rewrite of a request body before it leaves for the upstream         *)
(* (src/compress.rs): tool results that the transcript has outdated become *)
(* stubs (`compute_stale_reasons`, `stale_stub`), the others are           *)
(* compressed when the engine finds it worth while (`compress_text`), and  *)
(* both verdicts are memoised beside the engine (`shared_engine`).         *)
(*                                                                         *)
(* A client resends its whole transcript, a turn of calls and results      *)
(* longer every time; a turn it gave up on may still be under way in the   *)
(* gateway when it sends the next.  A result is paired with its call by an *)
(* id, except in Gemini's format, which has none.  The settings may be     *)
(* edited, the engine may fail to open and a write to the archive may fail *)
(* at any time, and whatever goes to the archive may push out what it held *)
(* before, which a memoised stub does not notice.  A restart also stands   *)
(* for the LRU's evictions: what it forgets can only be rebuilt.           *)
(*                                                                         *)
(* A definition introduced by "Slip" is not the code: it is the definition *)
(* after it with a plausible mistake, kept to see the properties fail.     *)
(***************************************************************************)
EXTENDS Integers, Sequences, FiniteSets

CONSTANTS
  Providers,   \* APIs a client may speak; "OpenAI" stands for those with ids
  Paths,       \* files the tools work on
  Views,       \* what a read of a file can ask to see: the file, a slice
  NoPath,      \* the input names no file
  NoHash,      \* the write to the archive failed
  Requests,    \* requests that may be under way at once
  MaxText,     \* texts are told apart by their size in tokens, up to this
  Minimums,    \* settings: min_tokens, or 0 when compression is off
  Turns,       \* what a transcript may grow by: calls, and answers to them
  MaxCalls,    \* bound on the calls of a transcript
  MaxChange    \* bound on the edits of the settings and the restarts

\* A text no pass touches: empty, or carrying a retrieval marker.
Inert == 0
Texts == 0 .. MaxText

ASSUME BoundAssumption == MaxText \in Nat /\ MaxCalls \in Nat /\ MaxChange \in Nat
ASSUME MinimumAssumption == Minimums \subseteq Nat
ASSUME PathAssumption == NoPath \notin Paths \cup Views
ASSUME HashAssumption == NoHash \notin Texts

\* A tool call by what its name and input ask for.  "search" stands for any other
\* tool whose input names a file; "recall" is a shell command, like "run", that
\* runs `mur retrieve`.
Calls ==
  [kind : {"read"}, path : Paths, view : Views]
    \cup [kind : {"edit", "search"}, path : Paths, view : {NoPath}]
    \cup [kind : {"run", "recall", "retrieve"}, path : {NoPath}, view : {NoPath}]

\* What the stub memo is keyed by.
Keys ==
  [why : {"superseded"}, path : Paths, text : Texts]
    \cup [why : {"duplicate"}, path : {NoPath}, text : Texts]

\* Calls and answers: each answer is to a call among them; no call has two, some
\* may have none.
IsBody(t) ==
  /\ t.calls \in Seq(Calls)
  /\ t.answers \in Seq([of : DOMAIN t.calls, text : Texts])
  /\ \A i, j \in DOMAIN t.answers : t.answers[i].of = t.answers[j].of => i = j

ASSUME TurnAssumption == \A t \in Turns : IsBody(t)

VARIABLES
  provider,    \* the API this client speaks
  transcript,  \* its calls and answers, each in the order of the body
  settings,    \* the compression settings on disk
  engines,     \* SHARED's engines since the start, the last being current:
               \* [min, made, verdicts, stubs]; made: after which edit or restart,
               \* which tells them apart
  job,         \* job[r]: [engine, body, seen] of a rewrite under way, engine 0 if none
  archive,     \* texts in the store on disk
  evicted,     \* history: texts the store dropped and was not given again since
  sent,        \* history: what last left, [min, made, body, seen, blocks]
  changes      \* edits and restarts so far

vars == <<provider, transcript, settings, engines, job, archive, evicted, sent, changes>>

Empty == [calls |-> << >>, answers |-> << >>]

Idle == [engine |-> 0, body |-> Empty, seen |-> << >>]

Init ==
  /\ provider \in Providers
  /\ transcript = Empty
  /\ settings \in Minimums
  /\ engines = << >>
  /\ job = [r \in Requests |-> Idle]
  /\ archive = {}
  /\ evicted = {}
  /\ sent = [min |-> 0, made |-> 0, body |-> Empty, seen |-> << >>, blocks |-> << >>]
  /\ changes = 0

-----------------------------------------------------------------------------
(* The tool results with what the calls they answer asked for.              *)

\* The name a body gives the function.
NameOf(call) == IF call.kind = "recall" THEN "run" ELSE call.kind

OwnCall(t, i) == t.calls[t.answers[i].of]

\* The n-th call of its name.
IsNth(t, c, n, name) ==
  /\ NameOf(t.calls[c]) = name
  /\ Cardinality({d \in 1 .. c : NameOf(t.calls[d]) = name}) = n

\* Slip: a response without text leaves its call in the queue.
CallInOrderOfTexts(t, i) ==
  LET name == NameOf(OwnCall(t, i))
      place == Cardinality({j \in 1 .. i : /\ NameOf(OwnCall(t, j)) = name
                                          /\ (j = i \/ t.answers[j].text # Inert)})
  IN  t.calls[CHOOSE c \in DOMAIN t.calls : IsNth(t, c, place, name)]

\* pending_meta: the n-th response of a name takes the n-th call of that name.
CallInOrder(t, i) ==
  LET name == NameOf(OwnCall(t, i))
      place == Cardinality({j \in 1 .. i : NameOf(OwnCall(t, j)) = name})
  IN  t.calls[CHOOSE c \in DOMAIN t.calls : IsNth(t, c, place, name)]

\* tool_meta pairs by id, pending_meta by name and order.
CallFor(t, i) == IF provider = "Gemini" THEN CallInOrder(t, i) ELSE OwnCall(t, i)

Result(t, i, call) ==
  [kind |-> OwnCall(t, i).kind, path |-> call.path, view |-> call.view, text |-> t.answers[i].text]

\* The results as the passes see them, and as the agent meant them.
Seen(t) == [i \in DOMAIN t.answers |-> Result(t, i, CallFor(t, i))]
Meant(t) == [i \in DOMAIN t.answers |-> Result(t, i, OwnCall(t, i))]

-----------------------------------------------------------------------------
(* compute_stale_reasons.  Its second pass looks ahead only, at results that *)
(* pass has not judged yet: what it finds there is the first pass's verdict. *)

Candidate(e) == e.text # Inert

IsRead(e) == e.kind = "read"

\* path_last_touch: any tool but a read, if its input names the file.
Touches(e, path) == ~IsRead(e) /\ e.path = path

SameView(d, e) == IsRead(d) /\ IsRead(e) /\ d.path = e.path /\ d.view = e.view

\* Slip: the path of the later tool is not compared.
SupersededByAny(s, i) ==
  /\ IsRead(s[i]) /\ Candidate(s[i])
  /\ \E k \in i + 1 .. Len(s) :
       Candidate(s[k]) /\ ((~IsRead(s[k]) /\ s[k].path # NoPath) \/ SameView(s[i], s[k]))

\* Result k, if it follows, makes a read i superseded.
Outdates(s, k, i) ==
  Candidate(s[k]) /\ (Touches(s[k], s[i].path) \/ SameView(s[i], s[k]))

Superseded(s, i) ==
  IsRead(s[i]) /\ Candidate(s[i]) /\ \E k \in i + 1 .. Len(s) : Outdates(s, k, i)

\* Slip: the later copy may be a stub itself.
DuplicateOfAny(s, i) ==
  /\ Candidate(s[i]) /\ ~Superseded(s, i)
  /\ \E k \in i + 1 .. Len(s) : s[k].text = s[i].text

Duplicate(s, i) ==
  /\ Candidate(s[i]) /\ ~Superseded(s, i)
  /\ \E k \in i + 1 .. Len(s) : s[k].text = s[i].text /\ ~Superseded(s, k)

Stale(s, i) == Superseded(s, i) \/ Duplicate(s, i)

-----------------------------------------------------------------------------
(* stale_stub and compress_text. *)

\* Slip: the text is not part of the key.
KeyOfReason(s, i) ==
  IF Superseded(s, i) THEN [why |-> "superseded", path |-> s[i].path, text |-> Inert]
                      ELSE [why |-> "duplicate", path |-> NoPath, text |-> Inert]

\* Memo::stale_key.
KeyOf(s, i) ==
  IF Superseded(s, i) THEN [why |-> "superseded", path |-> s[i].path, text |-> s[i].text]
                      ELSE [why |-> "duplicate", path |-> NoPath, text |-> s[i].text]

\* auto_compress: the engine's own judgement, a function of text and settings.
Fires(min, text) == text >= min

\* Results that must reach the model as they are: is_verbatim_tool, which Gemini's
\* pass asks about the name alone.
Verbatim(e) == e.kind \in {"read", "retrieve"} \/ (e.kind = "recall" /\ provider # "Gemini")

\* The texts of s that compress_text judges.
Judged(s) == {s[i].text : i \in {j \in DOMAIN s : Candidate(s[j]) /\ ~Stale(s, j) /\ ~Verbatim(s[j])}}

\* The memoised verdict stands, a missing one is computed and memoised.
VerdictsAfter(e, s) ==
  [t \in DOMAIN e.verdicts \cup Judged(s) |->
     IF t \in DOMAIN e.verdicts THEN e.verdicts[t] ELSE Fires(e.min, t)]

\* The stubs s needs and the memo lacks, at the first result that needs each.
Missing(e, s) ==
  {i \in DOMAIN s : /\ Stale(s, i) /\ KeyOf(s, i) \notin DOMAIN e.stubs
                    /\ \A j \in 1 .. i - 1 : Stale(s, j) => KeyOf(s, j) # KeyOf(s, i)}

\* They are built, those of `failed` without a hash, and memoised either way.
StubsAfter(e, s, failed) ==
  [k \in DOMAIN e.stubs \cup {KeyOf(s, i) : i \in Missing(e, s)} |->
     IF k \in DOMAIN e.stubs THEN e.stubs[k]
     ELSE LET i == CHOOSE i \in Missing(e, s) : KeyOf(s, i) = k
          IN  IF i \in failed THEN NoHash ELSE s[i].text]

\* What the pass gives the archive, and whether it gives it anything: each write
\* scans the store and may drop any of it, and a compression writes there too.
Stored(e, s, failed) == {s[i].text : i \in Missing(e, s) \ failed}
Scans(e, s) == Missing(e, s) # {} \/ \E x \in Judged(s) \ DOMAIN e.verdicts : Fires(e.min, x)

\* The block that takes the place of result i.  A stub is not compressed again: its
\* marker or its size keeps compress_text off it.
BlockOf(e, s, i) ==
  IF Stale(s, i)
  THEN [form |-> KeyOf(s, i).why, hash |-> e.stubs[KeyOf(s, i)]]
  ELSE [form |-> IF Candidate(s[i]) /\ ~Verbatim(s[i]) /\ e.verdicts[s[i].text]
                 THEN "compressed" ELSE "whole",
        hash |-> NoHash]

-----------------------------------------------------------------------------
(* The life of a rewrite. *)

\* The agent makes some calls; with the results they end the next request's body.
Grow ==
  /\ \E t \in Turns :
       LET before == Len(transcript.calls)
           later == [i \in DOMAIN t.answers |-> [t.answers[i] EXCEPT !.of = before + t.answers[i].of]]
       IN  /\ before + Len(t.calls) <= MaxCalls
           /\ transcript' = [calls |-> transcript.calls \o t.calls, answers |-> transcript.answers \o later]
  /\ UNCHANGED <<provider, settings, engines, job, archive, evicted, sent, changes>>

\* Compression is off, or the engine does not open: the body leaves unchanged.
PassThrough(r) ==
  /\ job[r].engine = 0
  /\ sent' = [min |-> 0, made |-> changes, body |-> transcript, seen |-> Seen(transcript),
              blocks |-> [i \in DOMAIN transcript.answers |-> [form |-> "whole", hash |-> NoHash]]]
  /\ UNCHANGED <<provider, transcript, settings, engines, job, archive, evicted, changes>>

Current == engines[Len(engines)]

NewEngine == [min |-> settings, made |-> changes, verdicts |-> << >>, stubs |-> << >>]

\* Slip: an engine for new settings inherits the memo.
EnginesForKeepingMemo ==
  IF engines # << >> /\ Current.min = settings THEN engines
  ELSE IF engines = << >> THEN Append(engines, NewEngine)
  ELSE Append(engines, [Current EXCEPT !.min = settings])

\* Settings with another fingerprint rebuild the engine and its memos together.
EnginesFor ==
  IF engines # << >> /\ Current.min = settings THEN engines ELSE Append(engines, NewEngine)

\* shared_engine.
Begin(r) ==
  /\ job[r].engine = 0
  /\ settings # 0
  /\ engines' = EnginesFor
  /\ job' = [job EXCEPT ![r] = [engine |-> Len(EnginesFor), body |-> transcript, seen |-> Seen(transcript)]]
  /\ UNCHANGED <<provider, transcript, settings, archive, evicted, sent, changes>>

\* The passes, over the engine the request began with.
Rewrite(r) ==
  /\ job[r].engine # 0
  /\ LET e == engines[job[r].engine]
         s == job[r].seen
     IN  \E failed \in SUBSET Missing(e, s) :
           LET after == [e EXCEPT !.verdicts = VerdictsAfter(e, s), !.stubs = StubsAfter(e, s, failed)]
               held == archive \cup Stored(e, s, failed)
           IN  /\ engines' = [engines EXCEPT ![job[r].engine] = after]
               /\ \E gone \in SUBSET held :
                    /\ gone # {} => Scans(e, s)
                    /\ archive' = held \ gone
                    /\ evicted' = (evicted \ Stored(e, s, failed)) \cup gone
               /\ sent' = [min |-> e.min, made |-> e.made, body |-> job[r].body, seen |-> s,
                          blocks |-> [i \in DOMAIN s |-> BlockOf(after, s, i)]]
  /\ job' = [job EXCEPT ![r] = Idle]
  /\ UNCHANGED <<provider, transcript, settings, changes>>

EditSettings ==
  /\ changes < MaxChange
  /\ \E min \in Minimums \ {settings} : settings' = min
  /\ changes' = changes + 1
  /\ UNCHANGED <<provider, transcript, engines, job, archive, evicted, sent>>

Restart ==
  /\ changes < MaxChange
  /\ engines' = << >>
  /\ job' = [r \in Requests |-> Idle]
  /\ changes' = changes + 1
  /\ UNCHANGED <<provider, transcript, settings, archive, evicted, sent>>

Next ==
  \/ Grow \/ EditSettings \/ Restart
  \/ \E r \in Requests : PassThrough(r) \/ Begin(r) \/ Rewrite(r)

Spec == Init /\ [][Next]_vars

-----------------------------------------------------------------------------
(* Properties. *)

\* What becomes of a result that is not stale.
AsJudged(min, e) ==
  IF Candidate(e) /\ ~Verbatim(e) /\ Fires(min, e.text) THEN "compressed" ELSE "whole"

\* One of the later copies is not a stub itself, however they point at each other
\* and whatever superseded some of them: it leaves whole, or as short as the
\* compressor makes it, which it may be even if i is a read the compressor spares.
HasCopyBelow(left, i) ==
  \E k \in i + 1 .. Len(left.blocks) :
    left.seen[k].text = left.seen[i].text /\ left.blocks[k].form = AsJudged(left.min, left.seen[k])

\* The agent did read the file of result i, and asked for the same view again later
\* or used a tool on the file that is no read, which the stub takes for an edit.
CameBackTo(t, i) ==
  LET s == Meant(t)
  IN  /\ IsRead(s[i])
      /\ \E k \in i + 1 .. Len(s) : Touches(s[k], s[i].path) \/ SameView(s[i], s[k])

\* "Exact as long as calls to the same function are answered in the order they
\* were issued": no call is answered before, or instead of, an earlier one.
AnsweredInOrder(t) ==
  \A i \in DOMAIN t.answers : \A c \in 1 .. t.answers[i].of :
    NameOf(t.calls[c]) = NameOf(OwnCall(t, i)) => \E j \in 1 .. i : t.answers[j].of = c

\* What a stub says of the conversation is true of the body that left, though the
\* results below it may be stubs as well: "identical to a later tool result" has one
\* below that is no stub, and "superseded: a later read or edit appears further
\* below" has one that read the same view or another tool's whose input names the
\* file.  Without ids the file is right where calls are answered in order.
StubsAreTrue ==
  \A i \in DOMAIN sent.blocks :
    /\ sent.blocks[i].form = "duplicate" => HasCopyBelow(sent, i)
    /\ sent.blocks[i].form = "superseded" /\ (provider = "Gemini" => AnsweredInOrder(sent.body)) =>
         CameBackTo(sent.body, i)

\* A hash in a stub is that of the very text the stub replaced, and the text had
\* been archived by then, across the memo, failed writes, restarts and requests that
\* build the same stub: if the store does not have it, the store dropped it.
StubsRetrievable ==
  \A i \in DOMAIN sent.blocks : sent.blocks[i].hash # NoHash =>
    /\ sent.blocks[i].hash = sent.body.answers[i].text
    /\ sent.blocks[i].hash \in archive \/ sent.blocks[i].hash \in evicted

\* "The memo is only valid beside the engine it was built with": a block is
\* compressed exactly when the settings its own request began with ask for it.
JudgedByOwnSettings ==
  \A i \in DOMAIN sent.blocks :
    sent.min # 0 /\ sent.blocks[i].form \in {"whole", "compressed"} =>
      (sent.blocks[i].form = "compressed" <=>
         LET e == Meant(sent.body)[i] IN Candidate(e) /\ ~Verbatim(e) /\ Fires(sent.min, e.text))

\* The same block, unless another engine built the stub anew and archived its text
\* when the first could not, or the other way round.
SameBlock(was, now, i) ==
  \/ was.blocks[i] = now.blocks[i]
  \/ /\ was.blocks[i].form = now.blocks[i].form
     /\ was.made # now.made
     /\ NoHash \in {was.blocks[i].hash, now.blocks[i].hash}

\* What result i may have become when the body `now` has the results of `was` and
\* more: superseded, for a new result on its file; a duplicate, for a new copy; or
\* no duplicate any more, because every copy below it is superseded by now.
MayBecome(was, now, i) ==
  LET new == DOMAIN now.blocks \ DOMAIN was.blocks
      IsCopy(k) == now.seen[k].text = now.seen[i].text
      before == was.blocks[i].form
  IN  CASE now.blocks[i].form = "superseded" -> IsRead(now.seen[i]) /\ \E k \in new : Outdates(now.seen, k, i)
        [] now.blocks[i].form = "duplicate" -> before # "superseded" /\ \E k \in new : IsCopy(k)
        [] OTHER -> /\ before = "duplicate"
                    /\ \A k \in i + 1 .. Len(now.blocks) : IsCopy(k) => now.blocks[k].form = "superseded"

\* The cached prefix survives: between two bodies of one conversation that leave
\* under the same settings, a block is the very same, or changes for results that
\* the longer one adds.  It can change twice and back: a duplicate comes back whole
\* when its copies are superseded, though the comment over the code says that "a
\* collapse decision can only flip forward in time".
PrefixStable ==
  [][sent # sent' /\ sent.min = sent'.min =>
       \A i \in DOMAIN sent.blocks \cap DOMAIN sent'.blocks :
         \/ SameBlock(sent, sent', i)
         \/ IF Len(sent.blocks) < Len(sent'.blocks) THEN MayBecome(sent, sent', i)
                                                    ELSE MayBecome(sent', sent, i)]_vars

-----------------------------------------------------------------------------
(* What comments and docs say, and the code does not do. *)

\* "The most recent copy of any given view ... is left alone": the last read of
\* a view of a file nobody has edited since leaves as it is.
CurrentViewSent ==
  LET s == Meant(sent.body)
  IN  \A i \in DOMAIN s :
        /\ IsRead(s[i])
        /\ \A k \in i + 1 .. Len(s) :
             ~SameView(s[i], s[k]) /\ ~(s[k].kind = "edit" /\ s[k].path = s[i].path)
        => sent.blocks[i].form = "whole"

=============================================================================
