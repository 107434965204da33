---------------------------- MODULE ChatSession ------------------------------
(***************************************************************************)
(* `runa chat` (crates/runa/src/main.rs): the line REPL and the full-screen*)
(* front end (tui.rs) over one Session and one engine.  The engine is a    *)
(* local gguf load, a managed mistral.rs model, or the daemon.             *)
(*                                                                         *)
(* A text is a sequence of pieces.  Turns, replies and commands are bounded*)
(* by MaxInputs.                                                           *)
(***************************************************************************)
EXTENDS Think, EngineLoad

CONSTANTS
    Paths,          \* names that /model may resolve to
    KindOf,         \* what is at each path
    ChatCtx,        \* --ctx
    ToolRounds,     \* --max-tool-rounds
    Tokens, Chars,  \* of one piece: what the tokenizer and the estimate see
    Replies,        \* pieces of text and number of calls of a reply
    Lines,          \* slash commands, with the words after them
    MaxInputs       \* bound on the lines entered

ASSUME ChatAssumption == \A r \in Replies : r.text \in Nat /\ r.calls \in Nat

VARIABLES
    chat,           \* start, prompt, turn or ended
    session,        \* Session, with the front end
    engine,         \* where it is, and the loaded model
    turn,           \* the request of the running turn
    inputs,         \* lines entered so far
    log             \* history variable: what each turn showed, and which model spoke

chatVars == <<chat, session, engine, turn, inputs, log>>

NoTurn == [messages |-> <<>>, results |-> <<>>, round |-> 0, answer |-> <<>>, shown |-> <<>>]
Msg(role, content, calls, id) == [role |-> role, content |-> content, calls |-> calls, id |-> id]

ChatInit ==
    /\ chat = "start" /\ session = None /\ engine = None /\ turn = NoTurn
    /\ inputs = 0 /\ log = <<>>

-----------------------------------------------------------------------------
(* Starting up.                                                            *)

ChatConfig(s) == [ctx |-> ChatCtx, threads |-> s.threads, kv |-> None, loras |-> s.loras]
SessionPlacement(s) == [FromMode(s.mode) EXCEPT !.rpc = s.rpc]

Mistral(s) == [path |-> s.path, placement |-> None, config |-> None, context |-> None, split |-> None, cache |-> FALSE]

\* reload_local: the engine of a session, for each way loading and attaching
\* can go.
LoadLocal(s) ==
    UNION {IF m = Failed THEN {m} ELSE AttachOutcomes(m, FALSE, FALSE) :
           m \in LoadOutcomes(s.path, KindOf[s.path], SessionPlacement(s), ChatConfig(s))}

\* reload, through LocalEngine::load.
LoadManaged(s) ==
    CASE Backend(s.backend, KindOf[s.path]) = "gguf" -> LoadLocal(s)
      [] Backend(s.backend, KindOf[s.path]) = "mistral" -> {Mistral(s), Failed}
      [] OTHER -> {Failed}

EndChat == chat' = "ended" /\ UNCHANGED <<session, engine>>

\* A load either serves the session or ends the program.
Serve(s, where, models) ==
    \E m \in models :
        \/ m = Failed /\ EndChat
        \/ m # Failed /\ chat' = "prompt" /\ session' = s /\ engine' = [where |-> where, model |-> m]

\* cmd_chat, up to the prompt: which engine serves, and what is refused.
StartChat(f, daemonUp) ==
    LET kind == Backend(f.backend, KindOf[f.path])
        mcp == f.mcp \/ f.mcpConfig
        s == [ui |-> f.ui, path |-> f.path, backend |-> f.backend, mode |-> f.mode, threads |-> f.threads,
              history |-> <<>>, think |-> f.think, hub |-> mcp, loras |-> f.loras, rpc |-> f.rpc,
              armed |-> FALSE]
        onlyGguf == f.loras # <<>> \/ f.threads # None \/ f.maxLoad \/ f.rpc \/ mcp
        daemon == daemonUp /\ ~f.noDaemon /\ ~f.rpc /\ ~f.mcp
    IN  /\ chat = "start"
        /\ CASE kind = "error" \/ (kind = "mistral" /\ onlyGguf) -> EndChat
             [] kind = "mistral" /\ ~onlyGguf -> Serve(s, "managed", {Mistral(s), Failed})
             [] kind = "gguf" /\ daemon -> Serve(s, "daemon", {None} \cup (IF mcp THEN {Failed} ELSE {}))
             [] OTHER -> Serve(s, "local", LoadLocal(s))
        /\ UNCHANGED <<turn, inputs, log>>

-----------------------------------------------------------------------------
(* A turn.                                                                 *)

\* history_tokens: the tokenizer of a local gguf load, or chars / 4.
HistoryTokens(e, h) ==
    LET exact == e.where # "daemon" /\ KindOf[e.model.path] = "gguf"
        One(m) == 4 + IF exact THEN Tokens * Len(m.content) ELSE (Chars * Len(m.content)) \div 4
    IN  FoldLeft(LAMBDA n, m : n + One(m), 0, h)

HistoryBudget == (ChatCtx * 3) \div 4

\* Mutant: one message is dropped, not one turn.
MutCuts(h) == 1..Len(h)

\* Where the loop of trim_history_with may come to start the history: where it
\* starts, at a later user message, and before the last message.
Cuts(h) == {1, Len(h)} \cup {i \in 2..Len(h) : h[i].role = "user"}

\* trim_history_with: the cuts are tried from the first on, until what is left
\* fits or is one message.
Trim(e, h) ==
    LET Fits(c) == c = Len(h) \/ HistoryTokens(e, SubSeq(h, c, Len(h))) <= HistoryBudget
    IN  SubSeq(h, Min({c \in Cuts(h) : Fits(c)}), Len(h))

\* The prompt is free for a line: the bound is on the lines.
Enters == chat = "prompt" /\ inputs < MaxInputs /\ inputs' = inputs + 1

\* turn_messages, at the start of chat_turn and tui_turn.
Submit ==
    LET h == Trim(engine, Append(session.history, Msg("user", <<<<inputs + 1, 0>>>>, <<>>, None)))
    IN  /\ Enters
        /\ chat' = "turn"
        /\ session' = [session EXCEPT !.history = h, !.armed = FALSE]
        /\ turn' = [NoTurn EXCEPT !.messages = h]
        /\ UNCHANGED <<engine, log>>

\* Mutant: the tool rounds of the turn are forgotten.
MutCommitHistory(sent, answer) ==
    IF answer = <<>> THEN sent ELSE Append(session.history, Msg("assistant", answer, <<>>, None))

\* commit_history: the messages that were sent, and the answer unless blank.
CommitHistory(sent, answer) ==
    IF answer = <<>> THEN sent ELSE Append(sent, Msg("assistant", answer, <<>>, None))

\* The turn ended, with or without an answer, after it had shown what it had.
EndTurn(history, shown, answered) ==
    /\ chat' = "prompt" /\ turn' = NoTurn
    /\ session' = [session EXCEPT !.history = history]
    /\ log' = Append(log, [input |-> inputs, shown |-> shown, answered |-> answered, model |-> session.path])
    /\ UNCHANGED <<engine, inputs>>

PushCalls(messages, text, calls) ==
    IF calls = <<>> THEN messages ELSE Append(messages, Msg("assistant", text, calls, None))

PushResults(messages, results) ==
    messages \o [i \in DOMAIN results |-> Msg("tool", <<>>, <<>>, results[i])]

Spoken(n) == [i \in 1..n |-> <<inputs, turn.round + 1, i>>]

\* One round of tool_loop against a local engine: a generation, then the calls
\* it returned.  `said` is the text that goes with the calls.
Round(reply, answer, said) ==
    LET sent == PushResults(turn.messages, turn.results)
        calls == Spoken(reply.calls)
        shown == turn.shown \o Spoken(reply.text)
    IN  /\ chat = "turn" /\ engine.where # "daemon"
        /\ session.hub \/ reply.calls = 0
        /\ \/ reply.calls = 0 /\ EndTurn(CommitHistory(sent, answer), shown, TRUE)
           \/ reply.calls # 0 /\ turn.round = ToolRounds /\ EndTurn(session.history, shown, FALSE)
           \/ /\ reply.calls # 0 /\ turn.round < ToolRounds
              /\ turn' = [messages |-> PushCalls(sent, said, calls), results |-> calls,
                          round |-> turn.round + 1, answer |-> answer, shown |-> shown]
              /\ UNCHANGED <<chat, session, engine, inputs, log>>

\* The step of chat_turn: each round's text is in its message, the answer is the
\* last one.  The step of tui_turn: the answer grows over the rounds.
ReplRound(reply) == session.ui = "repl" /\ Round(reply, Spoken(reply.text), Spoken(reply.text))
TuiRound(reply) == session.ui = "tui" /\ Round(reply, turn.answer \o Spoken(reply.text), <<>>)

\* A generation that fails, after it has shown some text: nothing is committed,
\* the user message of turn_messages stays.
RoundFails(reply) ==
    /\ chat = "turn" /\ engine.where # "daemon"
    /\ EndTurn(session.history, turn.shown \o Spoken(reply.text), FALSE)

\* The daemon serves the whole turn.
DaemonTurn(reply) ==
    LET text == [i \in 1..reply.text |-> <<inputs, 1, i>>]
    IN  /\ chat = "turn" /\ engine.where = "daemon"
        /\ EndTurn(CommitHistory(turn.messages, text), text, TRUE)

\* Its answer is one error event, and nothing before it, or there is none: the
\* TUI commits the messages it sent with a blank answer, the REPL does not.
DaemonFails ==
    /\ chat = "turn" /\ engine.where = "daemon"
    /\ \/ session.ui = "tui" /\ EndTurn(CommitHistory(turn.messages, <<>>), <<>>, FALSE)
       \/ EndTurn(session.history, <<>>, FALSE)

-----------------------------------------------------------------------------
(* Commands: chat_command and execute_tui_slash.                           *)

\* A bad argument ends the REPL and is a notice in the TUI.
BadArgument ==
    \/ session.ui = "repl" /\ EndChat
    \/ session.ui = "tui" /\ UNCHANGED <<chat, session, engine>>

Reload(s) ==
    CASE engine.where = "local" -> Serve(s, "local", LoadLocal(s))
      [] engine.where = "managed" -> Serve(s, "managed", LoadManaged(s))
      [] OTHER -> session' = s /\ UNCHANGED <<chat, engine>>

ModeCommand(arg) ==
    LET mistral == engine.where = "managed" /\ KindOf[engine.model.path] = "snapshot"
        valid == arg \in {"cpu", "gpu", "hybrid"}
    IN  IF mistral /\ (session.ui = "repl" \/ valid) THEN UNCHANGED <<chat, session, engine>>
        ELSE IF ~valid THEN BadArgument
        ELSE Reload([session EXCEPT !.mode = arg])

ModelCommand(arg) ==
    IF arg \notin Paths THEN BadArgument
    ELSE Reload([session EXCEPT !.path = arg, !.history = <<>>])

ThinkCommand(words) ==
    LET next == Overlay(session.think, FromSlashArgs(words))
    IN  IF next = Error THEN BadArgument
        ELSE session' = [session EXCEPT !.think = next] /\ UNCHANGED <<chat, engine>>

\* A context that cannot be made ends the session.
ResetCommand ==
    LET loaded == engine.where # "daemon" /\ KindOf[engine.model.path] = "gguf"
    IN  \/ loaded /\ EndChat
        \/ /\ session' = [session EXCEPT !.history = <<>>]
           /\ engine' = IF loaded THEN [engine EXCEPT !.model = ResetContext(@)] ELSE engine
           /\ UNCHANGED chat

Slash(line) ==
    /\ Enters
    /\ CASE line.cmd = "mode" -> ModeCommand(line.arg[1])
         [] line.cmd = "model" -> ModelCommand(line.arg[1])
         [] line.cmd = "think" -> ThinkCommand(line.arg)
         [] line.cmd = "reset" -> ResetCommand
         [] line.cmd = "quit" -> EndChat
         [] OTHER -> UNCHANGED <<chat, session, engine>>
    /\ UNCHANGED <<turn, log>>

\* on_key: the first Ctrl+C arms the second, and any other key disarms it.
\* What the other keys edit is the line that is entered.
Key(k) ==
    /\ chat = "prompt" /\ session.ui = "tui"
    /\ CASE k = "ctrl_d" \/ (k = "ctrl_c" /\ session.armed) -> EndChat
         [] OTHER -> session' = [session EXCEPT !.armed = (k = "ctrl_c")] /\ UNCHANGED <<chat, engine>>
    /\ UNCHANGED <<turn, inputs, log>>

ChatNext ==
    \/ \E r \in Replies : (chat = "turn" /\ (ReplRound(r) \/ TuiRound(r))) \/ RoundFails(r) \/ DaemonTurn(r)
    \/ Submit \/ DaemonFails
    \/ \E line \in Lines : Slash(line)
    \/ \E k \in {"ctrl_c", "ctrl_d", "other"} : Key(k)

-----------------------------------------------------------------------------
(* Properties of a session.                                                *)

\* Every call is followed by its results, in order, and there are no others; a
\* conversation opens with the user.
WholeTurns(h) ==
    /\ h # <<>> => h[1].role = "user"
    /\ \A i \in DOMAIN h : \A j \in DOMAIN h[i].calls :
           i + j <= Len(h) /\ h[i + j].role = "tool" /\ h[i + j].id = h[i].calls[j]
    /\ \A i \in DOMAIN h : h[i].role = "tool" =>
           \E k \in 1..i - 1 : i - k \in DOMAIN h[k].calls

\* P10.9: however turns end (answered, failed, out of tool rounds), whatever is
\* trimmed and whichever engine counts, what a session remembers and what the
\* engine is sent are whole turns, and a turn starts with a request that fits
\* three quarters of the context, or with its user message alone.
HistoryWhole ==
    chat \in {"prompt", "turn"} =>
    /\ WholeTurns(session.history)
    /\ chat = "turn" => WholeTurns(PushResults(turn.messages, turn.results))
    /\ chat = "turn" /\ turn.round = 0 =>
           HistoryTokens(engine, turn.messages) <= HistoryBudget \/ Len(turn.messages) = 1

\* The messages of the user, what follows one before the next, and what the
\* assistant says in it.
Prompts(h) == {i \in DOMAIN h : h[i].role = "user"}
ReplyTo(h, i) ==
    LET later == {j \in Prompts(h) : j > i}
    IN  SubSeq(h, i + 1, IF later = {} THEN Len(h) ELSE Min(later) - 1)
Voice(h) == FlattenSeq([k \in DOMAIN h |-> IF h[k].role = "assistant" THEN h[k].content ELSE <<>>])

\* What a turn leaves of the text that it showed.
Told(t) == IF t.answered THEN t.shown ELSE <<>>

\* The prompts of h are those of the last turns on record, in order, with what
\* these turns told and the model that answered.
Remembers(h, turns, path) ==
    \A i \in Prompts(h) :
        LET t == Len(turns) + 1 - Cardinality({u \in Prompts(h) : u >= i}) IN
        /\ t \in DOMAIN turns
        /\ h[i].content[1][1] = turns[t].input
        /\ Voice(ReplyTo(h, i)) = Told(turns[t])
        /\ turns[t].model = path

\* chat_turn and tui_turn: the history is the end of the conversation.  Its user
\* messages are those of the last turns with none left out, failed ones included.
\* Under each stand the texts that the turn showed, in the REPL and in the TUI,
\* when it was answered; of a turn that failed or ran out of tool rounds, after
\* whatever it had shown by then, nothing but the user message is left.  And all
\* of them come from the model of the session.
SaidIsRemembered == chat = "prompt" => Remembers(session.history, log, session.path)

\* The engine that answers is the one the session describes: after any /mode,
\* /model and /reset it has the model, the placement, the context and the
\* adapters of the session, so a reload that fails leaves no session behind.
EngineAsAsked ==
    chat \in {"prompt", "turn"} /\ engine.where # "daemon" =>
        /\ engine.model.path = session.path
        /\ KindOf[session.path] = "gguf" =>
              /\ engine.model.placement = SessionPlacement(session)
              /\ engine.model.context = Context(ChatConfig(session))
==============================================================================
