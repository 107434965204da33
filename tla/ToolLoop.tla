------------------------------ MODULE ToolLoop -------------------------------
(***************************************************************************)
(* `runa run` with tools: crates/runa/src/mcp.rs (tool_loop, McpHub) drives*)
(* rounds of generation and calls, over the local engine (main.rs), or     *)
(* over one of the two HTTP APIs (cloud.rs), here against runa's own       *)
(* server.  `mistral` is the local engine without tools.                   *)
(***************************************************************************)
EXTENDS Requests, MistralFold

CONSTANTS
    ToolSets,       \* sets of tool names the MCP servers may offer
    Shapes,         \* the kinds of pieces of a reply: sequences of "text",
                    \* "reasoning" and "empty"
    CallShapes,     \* the arguments of its calls: sequences
    Responses,      \* response sequences of mistral.rs
    MaxRounds,      \* --max-tool-rounds
    MaxRetries      \* of AnthropicClient

VARIABLES
    job,            \* transport, structured, audio preference and ability, tools
    at,             \* audio, step, tools, done, failed or refused
    hist,           \* the history, as the transport keeps it
    direct,         \* the history a direct call would keep: the reference
    seen,           \* what the engine got last
    evs,            \* what it answered
    todo, results,  \* calls of the round that are still to run, and outputs
    round, attempt,
    text,           \* Reply.text
    sent            \* ids of the calls whose output has reached the engine

vars == <<job, at, hist, direct, seen, evs, todo, results, round, attempt, text, sent>>

\* The data: pieces of text, the calls of tools and their arguments, the blocks
\* of an Anthropic message, and the responses of mistral.rs.
Words == STRING \cup {"prompt", "transcript", "newline", "output", "error"}
Atoms == (Nat \X Nat) \cup Seq(Words)
Texts == Seq(Atoms)
Ids == Nat \X Nat
Arguments == {"{}", "object", "cut"}
ToolNames == (UNION ToolSets) \cup {AnswerTool}
ToolCalls == [id : Ids, name : ToolNames, arguments : Arguments]
Blocks == [type : {"text", "thinking"}, s : Texts]
          \cup [type : {"tool_use"}, id : Ids, name : ToolNames, input : Arguments]
          \cup [type : {"tool_result"}, id : Ids, s : Texts]
Messages ==
    [role : {"user", "assistant", "tool"}, content : Texts, tool_calls : Seq(ToolCalls),
     tool_call_id : Ids \cup {None}]
EngineRequests ==
    [messages : Seq(Messages), audio : BOOLEAN, schema : BOOLEAN,
     tools : SUBSET ToolNames, choice : {None, "auto", "required"}]
MistralResponses ==
    [kind : {"chunk"}, text : Texts, reasoning : Texts, calls : Texts, finish : BOOLEAN]
    \cup [kind : {"done"}, text : Texts, reasoning : Texts] \cup [kind : {"error"}]

ASSUME LoopAssumption ==
    /\ MaxRounds \in Nat /\ MaxRetries \in Nat
    /\ Shapes \subseteq Seq({"text", "reasoning", "empty"})
    /\ CallShapes \subseteq Seq(Arguments)
    /\ Responses \subseteq Seq(MistralResponses)

\* None is none of the values that a content, the blocks of a turn or a request
\* may have.
ASSUME NoneAssumption ==
    /\ None \notin Texts /\ None \notin Seq(Blocks)
    /\ None \notin [text : Texts]
    /\ None \notin [parts : Seq(Blocks \cup [type : {"input_audio"}])]
    /\ None \notin EngineRequests

Transports == {"local", "mistral", "openai", "anthropic"}

User(s) == Message("user", s, <<>>, None)

Init ==
    /\ job \in [transport : Transports, structured : BOOLEAN, pref : {"auto", "native", "asr"},
                audio : BOOLEAN, capable : BOOLEAN, tools : ToolSets]
    /\ job.transport = "mistral" => job.tools = {} /\ ~job.audio /\ ~job.structured
    /\ job.transport = "anthropic" => ~job.capable
    /\ ~job.audio => job.pref = "auto" /\ ~job.capable
    /\ at = "audio" /\ hist = <<>> /\ direct = <<>> /\ seen = None /\ evs = <<>>
    /\ todo = <<>> /\ results = <<>> /\ round = 0 /\ attempt = 0 /\ text = <<>> /\ sent = {}

-----------------------------------------------------------------------------
\* prepare_cloud_audio, and the same decision in cmd_run: the transcript is
\* folded into the prompt, or the audio goes along.
PrepareAudio ==
    LET plan == IF job.audio THEN SelectAudioRoute(job.pref, job.capable) ELSE "none"
        prompt == IF plan = "transcribe" THEN <<<<"prompt">>, <<"transcript">>>> ELSE <<<<"prompt">>>>
        refused == job.transport = "anthropic" /\ job.structured /\ job.tools # {}
    IN  /\ at = "audio"
        /\ \/ /\ plan # "error" /\ ~refused
              /\ direct' = <<User(prompt)>>
              /\ hist' = IF job.transport = "anthropic"
                         THEN <<[role |-> "user", text |-> prompt, blocks |-> None]>>
                         ELSE <<User(prompt)>>
              /\ at' = "step"
           \/ (plan \in {"error", "transcribe"} \/ refused) /\ at' = "failed" /\ UNCHANGED <<hist, direct>>
        /\ UNCHANGED <<job, seen, evs, todo, results, round, attempt, text, sent>>

WithAudio == job.audio /\ SelectAudioRoute(job.pref, job.capable) = "native"

\* What the engine gets, by transport.
Delivered(h) ==
    LET asked == ClientTools(job.transport, job.tools, job.structured)
    IN  CASE job.transport = "openai" ->
               Received([i \in DOMAIN h |-> ToOpenAiMessage(h[i], WithAudio)], asked, TRUE)
          [] job.transport = "anthropic" ->
               Received([i \in DOMAIN h |-> AnthropicTurn(h[i])], asked, FALSE)
          [] OTHER -> GenerateRequest(h, WithAudio, asked.schema, EngineTools(asked.tools, None))

\* The outputs of the last round as messages: one per call, or one turn.
ToolMessages(rs) == [i \in DOMAIN rs |-> Message("tool", rs[i].out, <<>>, rs[i].id)]

\* Mutant: the results do not say what they answer.
MutPushResults(h) ==
    IF job.transport = "anthropic"
    THEN IF results = <<>> THEN h
         ELSE Append(h, [role |-> "user", text |-> <<>>,
                blocks |-> [i \in DOMAIN results |->
                    [type |-> "tool_result", id |-> None, s |-> results[i].out]]])
    ELSE h \o ToolMessages([i \in DOMAIN results |-> [results[i] EXCEPT !.id = None]])

PushResults(h) ==
    IF job.transport = "anthropic"
    THEN IF results = <<>> THEN h
         ELSE Append(h, [role |-> "user", text |-> <<>>,
                blocks |-> [i \in DOMAIN results |->
                    [type |-> "tool_result", id |-> results[i].id, s |-> results[i].out]]])
    ELSE h \o ToolMessages(results)

\* What the transport's client makes of the engine's events.
Heard(es) ==
    CASE job.transport = "openai" -> Complete(NonStreamBody(es))
      [] job.transport = "anthropic" -> ParseMessage(AnthropicMessageBody(es))
      [] OTHER -> es

\* drain_local, drain_openai, drain_anthropic: the turn to remember.
PushCalls(h, heard) ==
    IF Calls(heard) = <<>> THEN h
    ELSE IF job.transport = "anthropic"
    THEN LET use == CHOOSE i \in DOMAIN heard : heard[i].k = "calls"
         IN  Append(h, [role |-> "assistant", text |-> <<>>, blocks |-> heard[use].content])
    ELSE Append(h, Message("assistant", Joined(heard, "text"), Calls(heard), None))

AddText(t, s) == IF t # <<>> /\ s # <<>> THEN t \o <<<<"newline">>>> \o s ELSE t \o s

\* A reply of the engine: pieces of text and reasoning, then the calls.
Pieces(n, shape) ==
    [i \in DOMAIN shape |-> [k |-> IF shape[i] = "reasoning" THEN "reasoning" ELSE "text",
                             s |-> IF shape[i] = "empty" THEN <<>> ELSE <<<<n, i>>>>]]
Asked(n, tool, args) == [i \in DOMAIN args |-> [id |-> <<n, i>>, name |-> tool, arguments |-> args[i]]]
Answer(n, tool, shape, args) ==
    [failed |-> FALSE,
     ready |-> Pieces(n, shape)
               \o (IF args = <<>> THEN <<>> ELSE <<[k |-> "calls", calls |-> Asked(n, tool, args)]>>)
               \o <<[k |-> "usage"], [k |-> "done"]>>]

\* The replies possible in this round.
Replies ==
    IF job.transport = "mistral" THEN {Fold(rs, TRUE) : rs \in Responses}
    ELSE {Answer(round, CHOOSE n \in seen'.tools : TRUE, shape, args) :
              shape \in Shapes, args \in IF seen'.tools = {} THEN {<<>>} ELSE CallShapes}

\* One step of tool_loop: the results are appended, the request is made and
\* the reply is drained.  A structured answer of Anthropic is the input of the
\* forced tool.
Step ==
    LET h == PushResults(hist)
    IN  /\ at = "step" /\ seen' = Delivered(h)
        /\ attempt' = 0
        /\ IF seen' = None
           THEN at' = "refused" /\ hist' = h /\ UNCHANGED <<direct, evs, todo, results, text, sent>>
           ELSE \E r \in Replies :
                LET heard == Heard(r.ready)
                    forced == job.transport = "anthropic" /\ job.structured
                    calls == IF forced THEN <<>> ELSE Calls(heard)
                IN  /\ evs' = r.ready
                    /\ sent' = sent \cup {results[i].id : i \in DOMAIN results}
                    /\ results' = <<>>
                    /\ at' = IF r.failed THEN "failed" ELSE IF calls = <<>> THEN "done" ELSE "tools"
                    /\ todo' = calls
                    /\ hist' = IF forced THEN h ELSE PushCalls(h, heard)
                    /\ direct' = LET d == direct \o ToolMessages(results)
                                 IN  IF Calls(r.ready) = <<>> \/ forced THEN d
                                     ELSE Append(d, Message("assistant", Joined(r.ready, "text"),
                                                            Calls(r.ready), None))
                    /\ text' = AddText(AddText(text, Joined(heard, "text")),
                                       IF forced /\ Calls(heard) # <<>>
                                       THEN <<<<Calls(heard)[1].arguments>>>> ELSE <<>>)
        /\ UNCHANGED <<job, round>>

\* Mutant: the count of attempts starts over.
MutOverloaded ==
    /\ at = "step" /\ job.transport = "anthropic"
    /\ attempt' = IF attempt < MaxRetries THEN attempt + 1 ELSE 0
    /\ UNCHANGED <<job, at, hist, direct, seen, evs, todo, results, round, text, sent>>

\* AnthropicClient::generate: overloaded, wait and try again; and any error of
\* a transport or of the engine.
Overloaded ==
    /\ at = "step" /\ job.transport = "anthropic"
    /\ IF attempt < MaxRetries THEN attempt' = attempt + 1 /\ UNCHANGED at
       ELSE at' = "failed" /\ UNCHANGED attempt
    /\ UNCHANGED <<job, hist, direct, seen, evs, todo, results, round, text, sent>>

TransportFails ==
    /\ at = "step" /\ at' = "failed"
    /\ UNCHANGED <<job, hist, direct, seen, evs, todo, results, round, attempt, text, sent>>

\* McpHub::call: bad arguments, an unknown tool, a timeout or an error of the
\* server come back as text.  After the last call the round is over, and after
\* too many rounds the loop gives up.
CallTool ==
    LET c == Head(todo)
    IN  /\ at = "tools"
        /\ \E out \in {"output", "error"} :
              /\ c.arguments = "cut" => out = "error"
              /\ results' = Append(results, [id |-> c.id, out |-> <<<<out>>>>])
        /\ todo' = Tail(todo)
        /\ IF Len(todo) > 1 THEN UNCHANGED <<at, round>>
           ELSE round' = round + 1 /\ at' = IF round < MaxRounds THEN "step" ELSE "failed"
        /\ UNCHANGED <<job, hist, direct, seen, evs, attempt, text, sent>>

Next == PrepareAudio \/ Step \/ Overloaded \/ TransportFails \/ CallTool

Spec == Init /\ [][Next]_vars /\ WF_vars(Next)

-----------------------------------------------------------------------------
\* Arguments as they come out of a tool_use block.
NormalCall(c) == [c EXCEPT !.arguments = IF @ = "cut" THEN "{}" ELSE @]
NormalCalls(calls) == [i \in DOMAIN calls |-> NormalCall(calls[i])]
NormalMessages(ms) == [i \in DOMAIN ms |-> [ms[i] EXCEPT !.tool_calls = NormalCalls(@)]]
Normal(ms) == IF job.transport = "anthropic" THEN NormalMessages(ms) ELSE ms

\* Some turn that goes back to the Anthropic API holds the thinking of a reply.
ThinkingSentBack ==
    /\ job.transport = "anthropic"
    /\ \E i \in DOMAIN hist : hist[i].blocks # None /\ OfType(hist[i].blocks, "thinking") # <<>>

\* Whatever the transport, the engine gets in every round that the server takes
\* the conversation it would get directly: the same messages in the same order,
\* calls with their results, the audio and the tools.  The server refuses a
\* round for one thing only: the thinking block of an earlier reply, which
\* anthropic.rs sends back whole and content_text of serve.rs does not know.
SameConversation ==
    /\ at # "audio" /\ seen # None =>
        LET n == Len(seen.messages)
        IN  /\ Len(direct) \in {n, n + 1}
            /\ seen.messages = Normal(SubSeq(direct, 1, n))
            /\ seen.audio = WithAudio
            /\ job.structured \/ seen.tools = job.tools
    /\ at = "refused" => ThinkingSentBack

\* In what the engine gets, every call is followed by its result, in order,
\* and every output of a tool gets there unless the loop gives up.
EveryCallAnswered ==
    /\ seen # None => \A i \in DOMAIN seen.messages :
          \A j \in DOMAIN seen.messages[i].tool_calls :
              /\ i + j <= Len(seen.messages)
              /\ seen.messages[i + j].tool_call_id = seen.messages[i].tool_calls[j].id
    /\ at = "done" /\ ~job.structured =>
          sent = UNION {{direct[i].tool_calls[j].id : j \in DOMAIN direct[i].tool_calls} : i \in DOMAIN direct}

\* serve.rs streams what it sends whole: a client reads the same text and
\* reasoning over either API, and over Anthropic's the same calls by id and name,
\* with their arguments or none (`{}`: SseTools appends the fragments to the `{}`
\* a block starts with), in well-formed blocks.  The client of OpenAI's API reads
\* no calls from a stream.  From mistral.rs no text is said twice, and a reply ends
\* with its usage and stop.
StreamAgrees ==
    LET whole == ParseMessage(AnthropicMessageBody(evs))
        frames == AnthropicStreamChunks(evs)
        streamed == ParseSse(frames)
        Names(c) == [i \in DOMAIN c |-> <<c[i].id, c[i].name>>]
        blocks == SelectSeq(frames, LAMBDA f : f.index # None)
    IN  /\ \A k \in {"text", "reasoning"} :
              /\ Joined(streamed, k) = Joined(whole, k)
              /\ Joined(Stream(StreamChunks(evs)), k) = Joined(Complete(NonStreamBody(evs)), k)
        /\ Names(Calls(streamed)) = Names(Calls(whole))
        /\ \A i \in DOMAIN Calls(streamed) :
              Calls(streamed)[i].arguments \in {Calls(whole)[i].arguments, "{}"}
        /\ Last(streamed) = Last(whole) /\ Last(whole).k = "done"
        /\ \A i \in DOMAIN blocks :
              LET f == blocks[i]
              IN  CASE f.type = "content_block_start" ->
                         IF i = 1 THEN f.index = 0
                         ELSE blocks[i - 1].type = "content_block_stop" /\ f.index = blocks[i - 1].index + 1
                    [] OTHER -> i > 1 /\ f.index = blocks[i - 1].index /\ blocks[i - 1].type # "content_block_stop"
        /\ \A i, j \in DOMAIN blocks :
              /\ blocks[i].type = "content_block_start" /\ blocks[j].type = "content_block_delta"
              /\ blocks[i].index = blocks[j].index
              => \/ blocks[i].body.type = blocks[j].body.type
                 \/ blocks[i].body.type = "tool_use" /\ blocks[j].body.type = "input_json"
        /\ blocks # <<>> => Last(blocks).type = "content_block_stop"
        /\ job.transport = "mistral" /\ at = "done" =>
              /\ [i \in 1..2 |-> evs[Len(evs) - 2 + i].k] = <<"usage", "done">>
              /\ \A i, j \in DOMAIN evs : evs[i].k = "text" /\ evs[i] = evs[j] => i = j

\* The loop ends: by an answer, an error or the round limit.
LoopEnds == <>(at \in {"done", "failed", "refused"})
==============================================================================
