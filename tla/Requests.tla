------------------------------ MODULE Requests -------------------------------
(***************************************************************************)
(* How a conversation travels to the engine.  The reference is the list of *)
(* ChatMessages that the engine's chat template takes; it reaches it       *)
(* directly (main.rs), as OpenAI messages (runa-cloud/openai.rs) or as     *)
(* Anthropic turns (runa-cloud/anthropic.rs), and serve.rs turns the two   *)
(* wire forms back.                                                        *)
(***************************************************************************)
EXTENDS WireFormats

Message(role, content, calls, answers) ==
    [role |-> role, content |-> content, tool_calls |-> calls, tool_call_id |-> answers]

Text(s) == [text |-> s]
Parts(ps) == [parts |-> ps]
IsParts(c) == c # None /\ "parts" \in DOMAIN c

-----------------------------------------------------------------------------
(* The clients.                                                            *)

\* to_openai_message and user_content: null for an assistant without text,
\* parts for a user with media.
ToOpenAiMessage(m, audio) ==
    LET said == IF m.content = <<>> THEN <<>> ELSE <<[type |-> "text", s |-> m.content]>>
    IN  [m EXCEPT !.content =
            IF m.role = "assistant" /\ m.tool_calls # <<>> /\ m.content = <<>> THEN None
            ELSE IF m.role = "user" /\ audio THEN Parts(said \o <<[type |-> "input_audio"]>>)
            ELSE Text(m.content)]

\* build_body: raw blocks if the turn has them.
AnthropicTurn(t) ==
    Message(t.role, IF t.blocks # None THEN Parts(t.blocks) ELSE Text(t.text), <<>>, None)

\* tools_from_openai only renames fields; the forced tool of structured output
\* is the one tool there is.
AnswerTool == "answer"
ClientTools(transport, tools, structured) ==
    IF transport = "anthropic" /\ structured
    THEN [tools |-> {AnswerTool}, choice |-> [type |-> "tool", name |-> AnswerTool], schema |-> FALSE]
    ELSE [tools |-> tools, choice |-> None, schema |-> structured]

-----------------------------------------------------------------------------
(* The server.                                                             *)

Known == {"text", "image_url", "input_audio", "tool_use", "tool_result"}

PartsOf(c) == IF IsParts(c) THEN c.parts ELSE <<>>
AudioParts(msgs) == FlattenSeq([i \in DOMAIN msgs |-> OfType(PartsOf(msgs[i].content), "input_audio")])

\* content_text: an unknown kind of part is refused, and a second audio.
Acceptable(c) == \A i \in DOMAIN PartsOf(c) : PartsOf(c)[i].type \in Known
ContentText(c) ==
    CASE c = None -> <<>>
      [] IsParts(c) -> FlattenSeq([i \in DOMAIN c.parts |->
                           IF c.parts[i].type = "text" THEN c.parts[i].s ELSE <<>>])
      [] OTHER -> c.text

\* Mutant: the results come after the text of their turn.
MutTurn(m) ==
    LET results == OfType(PartsOf(m.content), "tool_result")
    IN  <<Message(m.role, ContentText(m.content), m.tool_calls, m.tool_call_id)>>
        \o [i \in DOMAIN results |-> Message("tool", results[i].s, <<>>, results[i].id)]

\* One turn of messages_from_body: results first, then the message itself,
\* unless a user turn says nothing.
Turn(m) ==
    LET uses == OfType(PartsOf(m.content), "tool_use")
        results == OfType(PartsOf(m.content), "tool_result")
        calls == m.tool_calls \o [i \in DOMAIN uses |-> CallOf(uses[i], uses[i].input)]
        text == ContentText(m.content)
    IN  [i \in DOMAIN results |-> Message("tool", results[i].s, <<>>, results[i].id)]
        \o (IF text # <<>> \/ m.role \in {"assistant", "tool"} \/ calls # <<>>
            THEN <<Message(m.role, text, calls, m.tool_call_id)>> ELSE <<>>)

MessagesFromBody(msgs) == FlattenSeq([i \in DOMAIN msgs |-> Turn(msgs[i])])

\* engine_tools: `none` drops the tools, a name narrows them and requires a call.
EngineTools(tools, choice) ==
    LET named == choice # None /\ choice.type = "tool"
        kept == IF named THEN tools \cap {choice.name} ELSE tools
    IN  IF kept = {} THEN [tools |-> {}, choice |-> None]
        ELSE [tools |-> kept, choice |-> IF choice = None THEN "auto"
                                         ELSE IF named THEN "required" ELSE choice.type]

\* What the engine gets.
GenerateRequest(msgs, audio, schema, offered) ==
    [messages |-> msgs, audio |-> audio, schema |-> schema,
     tools |-> offered.tools, choice |-> offered.choice]

\* What a server makes of a request, or None when it answers 400.
Received(msgs, asked, multimodal) ==
    LET audio == Len(AudioParts(msgs))
    IN  IF \/ \E i \in DOMAIN msgs : ~Acceptable(msgs[i].content)
           \/ MessagesFromBody(msgs) = <<>> \/ audio > 1 \/ (audio > 0 /\ ~multimodal)
        THEN None
        ELSE GenerateRequest(MessagesFromBody(msgs), audio = 1, asked.schema,
                             EngineTools(asked.tools, asked.choice))

-----------------------------------------------------------------------------
\* route.rs: how audio is fed in; "error" when `native` is asked for in vain.
SelectAudioRoute(pref, native) ==
    CASE pref = "asr" -> "transcribe"
      [] pref = "auto" -> IF native THEN "native" ELSE "transcribe"
      [] pref = "native" -> IF native THEN "native" ELSE "error"
==============================================================================
