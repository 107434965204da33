----------------------------- MODULE WireFormats -----------------------------
(***************************************************************************)
(* How a reply travels: the events of the engine, the bodies and streams   *)
(* that crates/runa/src/serve.rs makes of them for the two HTTP APIs, and  *)
(* the events that the clients of crates/runa-cloud read back.             *)
(*                                                                         *)
(* A piece of text is a sequence of atoms; the arguments of a call are     *)
(* "{}", another JSON text, or "cut", which is not JSON.                   *)
(***************************************************************************)
EXTENDS Integers, Sequences, SequencesExt, FiniteSets, TLC

CONSTANT None

\* All the text of a kind, and the calls that came last.
Joined(evs, k) == FlattenSeq([i \in DOMAIN evs |-> IF evs[i].k = k THEN evs[i].s ELSE <<>>])
Calls(evs) ==
    LET at == {i \in DOMAIN evs : evs[i].k = "calls"}
    IN  IF at = {} THEN <<>> ELSE evs[Max(at)].calls

\* The blocks or parts of one type.
OfType(bs, type) == FlattenSeq([i \in DOMAIN bs |-> IF bs[i].type = type THEN <<bs[i]>> ELSE <<>>])

-----------------------------------------------------------------------------
(* What serve.rs sends.                                                    *)

FinishReason(calls) == IF calls = <<>> THEN "stop" ELSE "tool_calls"
AnthropicStop(calls) == IF calls = <<>> THEN "end_turn" ELSE "tool_use"

\* One message object; content is null when there are only calls.
NonStreamBody(evs) ==
    LET text == Joined(evs, "text")
        calls == Calls(evs)
    IN  [content |-> IF calls # <<>> /\ text = <<>> THEN None ELSE text,
         reasoning_content |-> Joined(evs, "reasoning"),
         tool_calls |-> calls, finish |-> FinishReason(calls)]

\* One delta per event that says something, then the finish reason.
StreamChunks(evs) ==
    LET said == SelectSeq(evs, LAMBDA e : \/ e.k \in {"text", "reasoning"} /\ e.s # <<>>
                                          \/ e.k = "calls" /\ e.calls # <<>>)
    IN  Append(said, [k |-> "finish", finish |-> FinishReason(Calls(evs))])

\* tool_use_block: arguments that are not JSON become {}.
ToolUseBlock(c) ==
    [type |-> "tool_use", id |-> c.id, name |-> c.name,
     input |-> IF c.arguments = "cut" THEN "{}" ELSE c.arguments]

AnthropicMessageBody(evs) ==
    LET text == Joined(evs, "text")
        thinking == Joined(evs, "reasoning")
        calls == Calls(evs)
        Block(type, s) == <<[type |-> type, s |-> s]>>
    IN  [content |-> (IF thinking # <<>> THEN Block("thinking", thinking) ELSE <<>>)
                     \o (IF text # <<>> \/ calls = <<>> THEN Block("text", text) ELSE <<>>)
                     \o [i \in DOMAIN calls |-> ToolUseBlock(calls[i])],
         stop |-> AnthropicStop(calls)]

Frame(type, index, body) == [type |-> type, index |-> index, body |-> body]

\* The closure `stop`: an open block is closed and the next one numbered.
StopBlock(w) ==
    IF w.open = None THEN w
    ELSE [w EXCEPT !.out = Append(@, Frame("content_block_stop", w.idx, None)),
                   !.idx = @ + 1, !.open = None]

StartBlock(w, block) ==
    [w EXCEPT !.out = Append(@, Frame("content_block_start", w.idx, block)),
              !.open = block.type]

Delta(w, type, s) ==
    [w EXCEPT !.out = Append(@, Frame("content_block_delta", w.idx, [type |-> type, s |-> s]))]

\* Mutant: a change of kind continues the block that is open.
MutWritePiece(w, kind, s) ==
    LET opened == IF w.open # None THEN w ELSE StartBlock(w, [type |-> kind, s |-> <<>>])
    IN  Delta(opened, kind, s)

\* One turn of the loop, on text or reasoning: a run of one kind is one block.
WritePiece(w, kind, s) ==
    LET opened == IF w.open = kind THEN w
                  ELSE StartBlock(StopBlock(w), [type |-> kind, s |-> <<>>])
    IN  Delta(opened, kind, s)

\* Every call is a block of its own, started with an empty input.
WriteCall(w, c) ==
    StopBlock(Delta(StartBlock(StopBlock(w), [ToolUseBlock(c) EXCEPT !.input = "{}"]),
                    "input_json", <<c.arguments>>))

WriteEvent(w, e) ==
    CASE e.k = "reasoning" /\ e.s # <<>> -> WritePiece(w, "thinking", e.s)
      [] e.k = "text" /\ e.s # <<>> -> WritePiece(w, "text", e.s)
      [] e.k = "calls" -> FoldLeft(WriteCall, StopBlock(w), e.calls)
      [] OTHER -> w

AnthropicStreamChunks(evs) ==
    LET written == StopBlock(FoldLeft(WriteEvent, [out |-> <<>>, idx |-> 0, open |-> None], evs))
    IN  written.out \o <<Frame("message_delta", None, AnthropicStop(Calls(evs))),
                         Frame("message_stop", None, None)>>

-----------------------------------------------------------------------------
(* What the clients read.                                                  *)

CallOf(b, input) == [id |-> b.id, name |-> b.name, arguments |-> input]

\* parse_message: the pieces, then all calls, then the stop.
ParseMessage(body) ==
    LET Said(b) == IF b.type \in {"text", "thinking"} /\ b.s # <<>>
                   THEN <<[k |-> IF b.type = "text" THEN "text" ELSE "reasoning", s |-> b.s]>> ELSE <<>>
        uses == OfType(body.content, "tool_use")
    IN  FlattenSeq([i \in DOMAIN body.content |-> Said(body.content[i])])
        \o (IF uses = <<>> THEN <<>>
            ELSE <<[k |-> "calls", calls |-> [i \in DOMAIN uses |-> CallOf(uses[i], uses[i].input)],
                    content |-> body.content]>>)
        \o <<[k |-> "done", stop |-> body.stop]>>

\* SseTools::start: a tool block starts from the input it comes with.
SseStart(b) ==
    [type |-> b.type, s |-> <<>>, json |-> IF b.type = "tool_use" THEN <<b.input>> ELSE <<>>,
     id |-> IF b.type = "tool_use" THEN b.id ELSE None,
     name |-> IF b.type = "tool_use" THEN b.name ELSE None]

SseDelta(b, d) ==
    IF d.type = "input_json" THEN [b EXCEPT !.json = @ \o d.s] ELSE [b EXCEPT !.s = @ \o d.s]

\* serde_json::from_str on the fragments put together: one JSON text or {}.
FromFragments(json) == IF Len(json) = 1 /\ json[1] # "cut" THEN json[1] ELSE "{}"

\* SseTools::flush: once, if any block is a call; blocks in index order.
SseFlush(acc) ==
    LET used == SelectSeq(acc.blocks, LAMBDA b : b.type = "tool_use")
        kept == SelectSeq(acc.blocks, LAMBDA b : b.type # "text" \/ b.s # <<>>)
        Rebuilt(b) == IF b.type = "tool_use"
                      THEN [type |-> b.type, id |-> b.id, name |-> b.name,
                            input |-> FromFragments(b.json)]
                      ELSE [type |-> b.type, s |-> b.s]
    IN  IF acc.flushed \/ acc.blocks = <<>> THEN acc
        ELSE [acc EXCEPT !.flushed = TRUE,
                !.out = IF used = <<>> THEN @
                        ELSE Append(@, [k |-> "calls",
                                calls |-> [i \in DOMAIN used |->
                                              CallOf(used[i], FromFragments(used[i].json))],
                                content |-> [i \in DOMAIN kept |-> Rebuilt(kept[i])]])]

\* push_sse_event.
PushSseEvent(acc, f) ==
    LET done == \E i \in DOMAIN acc.out : acc.out[i].k = "done"
        Done(a, stop) == [a EXCEPT !.out = Append(@, [k |-> "done", stop |-> stop])]
        known == f.index # None /\ f.index + 1 \in DOMAIN acc.blocks
        heard == IF known THEN [acc EXCEPT !.blocks[f.index + 1] = SseDelta(@, f.body)] ELSE acc
    IN  CASE f.type = "content_block_start" ->
               IF known THEN [acc EXCEPT !.blocks[f.index + 1] = SseStart(f.body)]
               ELSE [acc EXCEPT !.blocks = Append(@, SseStart(f.body))]
          [] f.type = "content_block_delta" /\ f.body.type = "input_json" -> heard
          [] f.type = "content_block_delta" /\ f.body.type # "input_json" ->
               [heard EXCEPT !.out = Append(@,
                   [k |-> IF f.body.type = "text" THEN "text" ELSE "reasoning", s |-> f.body.s])]
          [] f.type = "message_delta" -> Done(SseFlush(acc), f.body)
          [] f.type = "message_stop" /\ ~done -> Done(acc, "end_turn")
          [] OTHER -> acc

\* parse_sse, also of a transcript that was cut.
ParseSse(frames) ==
    SseFlush(FoldLeft(PushSseEvent, [out |-> <<>>, blocks |-> <<>>, flushed |-> FALSE], frames)).out

\* OpenAiClient::complete: reasoning, text, calls.  async-openai hands on what
\* its own types know of the message; the calls and the text are in them.
Complete(body) ==
    LET Piece(k, s) == IF s \in {None, <<>>} THEN <<>> ELSE <<[k |-> k, s |-> s]>>
    IN  Piece("reasoning", body.reasoning_content) \o Piece("text", body.content)
        \o (IF body.tool_calls = <<>> THEN <<>> ELSE <<[k |-> "calls", calls |-> body.tool_calls]>>)

\* OpenAiClient::stream: the text and reasoning deltas; calls are not read.
Stream(chunks) == SelectSeq(chunks, LAMBDA c : c.k \in {"text", "reasoning"})
==============================================================================
