-------------------------- MODULE ChatTranslation --------------------------
(***************************************************************************)
(* A Chat Completions request on the Codex route, after it has been sent:  *)
(* the Responses event stream upstream answers with, cut into network      *)
(* chunks anywhere, and what the client makes of it.  A streaming client   *)
(* gets SseTranslator's chunks, any other the aggregate of the same stream *)
(* (src/translate.rs, and the translating arms of `forward` in src/lib.rs);*)
(* either way it sends the assistant message back with its next request,   *)
(* at the end of the conversation so far and with the answers to its calls,*)
(* which `chat_to_responses` turns into instructions and input items.      *)
(*                                                                         *)
(* A text or argument delta is its number; an event frame is two halves, a *)
(* multi-byte character possibly lying across the middle: a delta in which *)
(* it was replaced is the negative of its number.  Reading cannot          *)
(* influence what upstream sends, so upstream ends before it begins.       *)
(* Texts of the conversation are numbered as well, and the newlines that   *)
(* join them left out; parameters and tool declarations are no part of it. *)
(* Frames that are not JSON, and the orphaned argument deltas that could   *)
(* only follow an item without an id, are not sent.                        *)
(*                                                                         *)
(* A definition introduced by "Slip" is not the code: it is the definition *)
(* after it with a plausible mistake, kept to see the properties fail.     *)
(***************************************************************************)
EXTENDS Integers, Sequences, FiniteSets, SequencesExt

CONSTANTS
  Calls,      \* function-call items: their ids, and their call_ids
  NoCall,     \* the call of an event that is not about one
  Histories,  \* the conversations a request may continue: sequences of turns
  Wide,       \* places in the stream of deltas with a multi-byte character
  MaxChunk,   \* bound on the half frames in a network chunk
  MaxEvents,  \* bound on the events of a stream
  MaxAfter    \* bound on those after the first terminal one

ASSUME CallAssumption == NoCall \notin Calls
\* Well-formed turns ("audio" is any part that is passed over); a tool answers a
\* call of an earlier assistant turn.
ASSUME HistoryAssumption ==
  \A h \in Histories :
    /\ h \in Seq([role : {"system", "developer", "user", "assistant", "tool"},
                parts : Seq([type : {"text", "image", "audio"}, body : Seq(Nat)]),
                calls : Seq([id : STRING, arguments : Seq(Nat)]),
                of : {NoCall} \cup STRING])
    /\ \A i \in DOMAIN h : h[i].role = "tool" =>
         \E j \in DOMAIN h : /\ j < i /\ h[j].role = "assistant"
                            /\ \E k \in DOMAIN h[j].calls : h[j].calls[k].id = h[i].of
ASSUME StreamBoundAssumption == MaxEvents \in Nat /\ MaxAfter \in Nat /\ MaxChunk \in Nat /\ Wide \subseteq Nat

VARIABLES
  streaming,  \* the client asked for a stream
  status,     \* upstream's status: "ok", "error"
  wire,       \* the events upstream sent
  upstream,   \* the connection: "open", "eof", "broken"
  cut,        \* it ended inside the last frame
  read,       \* half frames read
  split,      \* deltas with a character decoded from two chunks
  translator, \* SseTranslator
  sse,        \* the frames the streaming client got
  reply       \* what the other client got

sender == <<streaming, status, wire, upstream, cut>>
chatVars == <<sender, read, split, translator, sse, reply>>

-----------------------------------------------------------------------------
(* Upstream. *)

Event(kind, c, body) == [kind |-> kind, call |-> c, body |-> body]

Deltas == {"text", "args"}
\* "truncated" is response.incomplete, "error" an event without a response object.
Terminal == {"completed", "truncated", "failed", "error"}
Sent(kind, c) == \E i \in DOMAIN wire : wire[i].kind = kind /\ wire[i].call = c

\* The bodies of the deltas of one item, in order.
Body(kind, c) ==
  FlattenSeq([i \in DOMAIN wire |->
    IF wire[i].kind = kind /\ wire[i].call = c THEN wire[i].body ELSE <<>>])

\* Items whose deltas have begun and that are not done.
Unfinished ==
  {c \in Calls : Sent("added", c) /\ ~Sent("item", c)}
    \cup {c \in {NoCall} : Sent("text", c) /\ ~Sent("item", c)}

Send(e) ==
  /\ upstream = "open" /\ status = "ok"
  /\ Len(wire) < MaxEvents
  /\ \A i \in DOMAIN wire : wire[i].kind \in Terminal => Len(wire) - i < MaxAfter
  /\ wire' = Append(wire, e)
  /\ UNCHANGED <<streaming, status, upstream, cut, read, split, translator, sse, reply>>

\* Nothing keeps upstream from going on after a terminal event.

\* One message item, whose text arrives in deltas.
SendText ==
  /\ ~Sent("item", NoCall)
  /\ Send(Event("text", NoCall, <<Len(wire) + 1>>))

SendAdded(c) == ~Sent("added", c) /\ Send(Event("added", c, <<>>))

SendArgs(c) ==
  /\ c \in Unfinished
  /\ Send(Event("args", c, <<Len(wire) + 1>>))

\* output_item.done repeats the whole item.
SendItem(c) ==
  /\ c \in Unfinished
  /\ Send(Event("item", c, Body(IF c = NoCall THEN "text" ELSE "args", c)))

SendTerminal ==
  \/ Unfinished = {} /\ Send(Event("completed", NoCall, <<>>))
  \/ Send(Event("truncated", NoCall, <<>>))
  \/ Send(Event("failed", NoCall, <<>>))
  \/ Send(Event("error", NoCall, <<>>))

\* The connection ends, wherever the stream stands.
Close ==
  /\ upstream = "open"
  /\ upstream' \in {"eof", "broken"}
  /\ cut' \in IF wire = <<>> THEN {FALSE} ELSE BOOLEAN
  /\ UNCHANGED <<streaming, status, wire, read, split, translator, sse, reply>>

-----------------------------------------------------------------------------
(* SseTranslator.  next_index is the number of indices handed out. *)

Chunk(type, c, index, body) == [type |-> type, call |-> c, index |-> index, body |-> body]
Plain(type) == Chunk(type, NoCall, 0, <<>>)

\* Slip: `finished` is not set, so the end of the stream finishes once more.
FinishAgain(tr) ==
  [tr |-> tr,
   out |-> IF tr.finished THEN <<>>
           ELSE <<Plain(IF tr.index # <<>> THEN "tool_calls" ELSE "stop")>>]

\* saw_tool_call holds as soon as an index was handed out.
Finish(tr) ==
  [tr |-> [tr EXCEPT !.finished = TRUE],
   out |-> IF tr.finished THEN <<>>
           ELSE <<Plain(IF tr.index # <<>> THEN "tool_calls" ELSE "stop")>>]

\* Slip: argument deltas go to the call announced last.
PlaceOfLast(tr, c) == Len(tr.index)

\* item_index.
Place(tr, c) == CHOOSE i \in DOMAIN tr.index : tr.index[i] = c

Announcing == {"added"}

\* The arms of `push`, after the role chunk.  Only a completed response finishes
\* the stream; a failure is told whether or not it is finished.
Arm(tr, e) ==
  CASE e.kind = "text"  -> [tr |-> tr, out |-> <<Chunk("content", NoCall, 0, e.body)>>]
    [] e.kind \in Announcing -> [tr |-> [tr EXCEPT !.index = Append(@, e.call)],
                                   out |-> <<Chunk("call", e.call, Len(tr.index) + 1, <<>>)>>]
    [] e.kind = "args"  -> [tr |-> tr, out |-> <<Chunk("arguments", NoCall, Place(tr, e.call), e.body)>>]
    [] e.kind = "completed" -> Finish(tr)
    [] e.kind \in {"failed", "error"} -> [tr |-> [tr EXCEPT !.finished = TRUE], out |-> <<Plain("error")>>]
    [] OTHER -> [tr |-> tr, out |-> <<>>]

\* One event: what it adds to the frames that go to the client.
Push(state, e) ==
  LET role == IF state.tr.role_sent THEN <<>> ELSE <<Plain("role")>>
      arm  == Arm([state.tr EXCEPT !.role_sent = TRUE], e)
  IN  [tr |-> arm.tr, out |-> state.out \o role \o arm.out]

\* One event after the other.
Pushed(tr, events) ==
  LET state[k \in 0 .. Len(events)] ==
        IF k = 0 THEN [tr |-> tr, out |-> <<>>] ELSE Push(state[k - 1], events[k])
  IN  state[Len(events)]

-----------------------------------------------------------------------------
(* forward, streaming. *)

Halves == 2 * Len(wire) - (IF cut THEN 1 ELSE 0)

\* split_sse_frames: the frames whose end is in the chunk, the partial one that
\* the last chunk left behind included.
Frames(from, to) == SubSeq(wire, from \div 2 + 1, to \div 2)

\* What the chunk's own decoding made of them: a delta with a character in two
\* chunks has it replaced.
Decoded(from, to) ==
  [i \in 1 .. to \div 2 - from \div 2 |->
     IF from \div 2 + i \in split
     THEN [wire[from \div 2 + i] EXCEPT !.body = [j \in DOMAIN @ |-> 0 - @[j]]]
     ELSE wire[from \div 2 + i]]

\* One network chunk.  Each chunk is decoded on its own: when its end is inside
\* a frame it may be inside a character.
Read ==
  /\ streaming /\ upstream # "open"
  /\ \E to \in read + 1 .. read + MaxChunk :
       LET pushed == Pushed(translator, Decoded(read, to))
       IN  /\ to =< Halves
           /\ read' = to
           /\ translator' = pushed.tr
           /\ sse' = sse \o pushed.out
           /\ \/ UNCHANGED split
              \/ /\ to % 2 = 1 /\ to < Halves
                 /\ to \div 2 + 1 \in Wide /\ wire[to \div 2 + 1].kind \in Deltas
                 /\ split' = split \cup {to \div 2 + 1}
  /\ UNCHANGED <<sender, reply>>

\* The end of the stream, or a transport error.
StreamEnd ==
  /\ streaming /\ upstream # "open"
  /\ read = Halves
  /\ ~\E i \in DOMAIN sse : sse[i].type = "[DONE]"
  /\ LET finish == Finish(translator)
     IN  /\ translator' = finish.tr
         /\ sse' = sse \o finish.out \o <<Plain("[DONE]")>>
  /\ UNCHANGED <<sender, read, split, reply>>

-----------------------------------------------------------------------------
(* forward, not streaming: ResponseAggregator, then responses_to_chat. *)

Whole == Frames(0, Halves)

Message(text, calls, reason) == [text |-> text, calls |-> calls, reason |-> reason]

\* output_item.done, of the message or of a call.
DoneText(e) == e.kind = "item" /\ e.call = NoCall
DoneCall(e) == e.kind = "item" /\ e.call # NoCall

\* The last event that carries the response object says how it ended.
Truncated(events) ==
  \E i \in DOMAIN events :
    /\ events[i].kind = "truncated"
    /\ \A j \in DOMAIN events : j > i => events[j].kind \notin {"completed", "failed"}

Reason(events) ==
  IF Truncated(events) THEN "length"
  ELSE IF \E i \in DOMAIN events : DoneCall(events[i]) THEN "tool_calls" ELSE "stop"

\* The items, and the reason.
Aggregated(events) ==
  Message(FlattenSeq([i \in DOMAIN events |-> IF DoneText(events[i]) THEN events[i].body ELSE <<>>]),
          FlattenSeq([i \in DOMAIN events |->
            IF DoneCall(events[i])
            THEN <<[id |-> events[i].call, arguments |-> events[i].body]>> ELSE <<>>]),
          Reason(events))

Failure(reason) == Message(<<>>, <<>>, reason)

\* A broken body is a 502; an error status is passed on as an OpenAI error.
Reply ==
  /\ ~streaming /\ upstream # "open"
  /\ reply = Failure("none")
  /\ reply' = IF upstream = "broken" THEN Failure("502")
              ELSE IF status = "error" THEN Failure("error") ELSE Aggregated(Whole)
  /\ UNCHANGED <<sender, read, split, translator, sse>>

-----------------------------------------------------------------------------
(* The client, and its next request. *)

\* What an OpenAI client assembles from the frames it got.
Assembled(frames) ==
  LET body(type, index) ==
        FlattenSeq([i \in DOMAIN frames |->
          IF frames[i].type = type /\ frames[i].index = index THEN frames[i].body ELSE <<>>])
      ends == {i \in DOMAIN frames : frames[i].type \in {"stop", "tool_calls", "error"}}
  IN  Message(body("content", 0),
              FlattenSeq([i \in DOMAIN frames |->
                IF frames[i].type = "call"
                THEN <<[id |-> frames[i].call, arguments |-> body("arguments", frames[i].index)]>>
                ELSE <<>>]),
              IF ends = {} THEN "none" ELSE frames[Min(ends)].type)

\* A turn of the conversation: content parts, calls of an assistant, the call a
\* tool answers.  A content that is a string is one text part.
Turn(role, parts, calls, of) == [role |-> role, parts |-> parts, calls |-> calls, of |-> of]

Text(body) == IF body = <<>> THEN <<>> ELSE <<[type |-> "text", body |-> body]>>

\* content_items: what the parts of these types say; others are passed over.
Content(parts, types) ==
  FlattenSeq([i \in DOMAIN parts |-> IF parts[i].type \in types THEN parts[i].body ELSE <<>>])
TextOf(turn) == Content(turn.parts, {"text"})

CallItems(calls) == [i \in DOMAIN calls |-> Event("item", calls[i].id, calls[i].arguments)]

Instructing == {"system", "developer"}

\* Slip: an assistant turn is either text or calls.
InputItemsExclusive(turn) ==
  CASE turn.role \in Instructing -> <<>>
    [] turn.role = "tool" -> <<Event("output", turn.of, TextOf(turn))>>
    [] turn.role = "assistant" ->
         IF TextOf(turn) # <<>> THEN <<Event("message", NoCall, TextOf(turn))>>
         ELSE CallItems(turn.calls)
    [] OTHER -> <<Event("user", NoCall, Content(turn.parts, {"text", "image"}))>>

\* An assistant turn is its text if it has any, then its calls; only a user's turn
\* keeps its images.
InputItems(turn) ==
  CASE turn.role \in Instructing -> <<>>
    [] turn.role = "tool" -> <<Event("output", turn.of, TextOf(turn))>>
    [] turn.role = "assistant" ->
         (IF TextOf(turn) # <<>> THEN <<Event("message", NoCall, TextOf(turn))>> ELSE <<>>)
           \o CallItems(turn.calls)
    [] OTHER -> <<Event("user", NoCall, Content(turn.parts, {"text", "image"}))>>

\* Instructions are collected from wherever they stand.
chat_to_responses(turns) ==
  [instructions |-> FlattenSeq([i \in DOMAIN turns |->
                      IF turns[i].role \in Instructing THEN TextOf(turns[i]) ELSE <<>>]),
   input |-> FlattenSeq([i \in DOMAIN turns |-> InputItems(turns[i])])]

\* What the client sends next: the message it got, and an answer to each call.
Continuation(m) ==
  <<Turn("assistant", Text(m.text), m.calls, NoCall)>>
    \o [i \in DOMAIN m.calls |-> Turn("tool", <<>>, <<>>, m.calls[i].id)]

-----------------------------------------------------------------------------

ChatInit ==
  /\ streaming \in BOOLEAN
  /\ status \in {"ok", "error"}
  /\ wire = <<>> /\ upstream = "open" /\ cut = FALSE
  /\ read = 0 /\ split = {}
  /\ translator = [role_sent |-> FALSE, index |-> <<>>, finished |-> FALSE]
  /\ sse = <<>>
  /\ reply = Failure("none")

Upstream ==
  \/ SendText \/ SendTerminal \/ Close
  \/ \E c \in Calls : SendAdded(c) \/ SendArgs(c)
  \/ \E c \in Calls \cup {NoCall} : SendItem(c)

ChatNext == Upstream \/ Read \/ StreamEnd \/ Reply

ChatSpec == ChatInit /\ [][ChatNext]_chatVars

-----------------------------------------------------------------------------
(* Properties. *)

Over == \E i \in DOMAIN sse : sse[i].type = "[DONE]"
Ends == {i \in DOMAIN sse : sse[i].type \in {"stop", "tool_calls", "error"}}

\* The events a terminal chunk answers.
Final == {"completed", "failed", "error"}
Normal == {"stop", "tool_calls"}

\* Upstream's stream ends with the first of them.
EndsWithFinal == \A i \in DOMAIN Whole : Whole[i].kind \in Final => i = Len(Whole)

\* It went as it should: that one is response.completed.
Completed == EndsWithFinal /\ Whole # <<>> /\ Last(Whole).kind = "completed"

\* However the stream is cut and ends, [DONE] is the last frame, behind a terminal
\* chunk; a client is told of a normal end once, and never after a failure; and when
\* upstream says nothing after its final event there is one terminal chunk, with
\* nothing but [DONE] behind it.
EndsOnce ==
  /\ \A i \in DOMAIN sse : sse[i].type = "[DONE]" => i = Len(sse)
  /\ Over => Ends # {}
  /\ \A i, j \in Ends : i < j => sse[j].type \notin Normal
  /\ EndsWithFinal => \A i \in Ends, j \in DOMAIN sse : j > i => sse[j].type = "[DONE]"

\* What a streaming client reads where a non-streaming one reads `body`.
Garbled(body) == [i \in DOMAIN body |-> IF body[i] \in split THEN 0 - body[i] ELSE body[i]]

\* A completed stream gives a streaming client and any other the same message, up
\* to the order of interleaved calls: the same calls, reason and text, however the
\* network cuts it, but for just those deltas in which a chunk boundary cut a
\* character in two.
StreamingAgrees ==
  Over /\ Completed =>
    LET s == Assembled(sse)
        a == Aggregated(Whole)
    IN  /\ s.text = Garbled(a.text)
        /\ ToSet(s.calls) = {[c EXCEPT !.arguments = Garbled(@)] : c \in ToSet(a.calls)}
        /\ s.reason = a.reason

\* What the turns of these roles say that a translation must not lose, in order.
Said(turns, roles) ==
  FlattenSeq([i \in DOMAIN turns |->
    IF turns[i].role \notin roles THEN <<>>
    ELSE Content(turns[i].parts, IF turns[i].role = "user" THEN {"text", "image"} ELSE {"text"})
           \o (IF turns[i].role # "assistant" THEN <<>>
               ELSE FlattenSeq([k \in DOMAIN turns[i].calls |-> turns[i].calls[k].arguments]))])

\* The next request gives upstream back every item of a completed reply as the
\* client read it, its text and its calls with their ids and arguments, streamed or
\* not, and each answer behind its call; the input before it is as it was, and says
\* in order what everybody has said so far, what the instructions say apart.
HistorySurvives ==
  Completed /\ (Over \/ reply.reason \in Normal) =>
    \A h \in Histories :
      LET m == IF streaming THEN Assembled(sse) ELSE reply
          items == {[Whole[i] EXCEPT !.body = Garbled(@)] : i \in {j \in DOMAIN Whole : Whole[j].kind = "item"}}
          request == chat_to_responses(h \o Continuation(m))
          input == request.input
          before == chat_to_responses(h).input
          back == {input[i] : i \in {j \in DOMAIN input : j > Len(before)}}
      IN  /\ {e \in items : e.call # NoCall} = {e \in back : e.kind = "item"}
          /\ {e.body : e \in {f \in items : f.call = NoCall}}
               = {e.body : e \in {f \in back : f.kind = "message"}}
          /\ \A i \in DOMAIN input : input[i].kind = "output" =>
               \E j \in DOMAIN input : j < i /\ input[j].kind = "item" /\ input[j].call = input[i].call
          /\ SubSeq(input, 1, Len(before)) = before
          /\ FlattenSeq([i \in DOMAIN before |-> before[i].body]) = Said(h, {"user", "assistant", "tool"})
          /\ request.instructions = Said(h, Instructing)

-----------------------------------------------------------------------------
(* What the design of the translation says, and the code does not do. *)

\* "Failure mid-stream: emit an error chunk, then [DONE]".  The streaming arm
\* treats a transport error as the end of the stream.
FailureIsShown ==
  Over /\ upstream = "broken" /\ (\A i \in DOMAIN Whole : Whole[i].kind \notin Terminal)
    => \E i \in Ends : sse[i].type = "error"
=============================================================================
