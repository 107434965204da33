-------------------------------- MODULE MCCli --------------------------------
(* Four models and a cloud reference, flags one and two at a time, every    *)
(* machine with the plain configuration and every configuration with one    *)
(* machine.  `runa tasks` is given too, by three agents: two threads of one *)
(* process and a process of its own.                                        *)
EXTENDS Cli, TaskRegistry

MCAgents == {"a1", "a2", "a3"}
MCProcessOf == "a1" :> "p" @@ "a2" :> "p" @@ "a3" :> "q"

MCInit == CliInit /\ TasksInit
NoTasksYet == Inside = {} /\ held = {} /\ kills = 0 /\ ~overlapped
MCNext == \/ NoTasksYet /\ Next /\ UNCHANGED tasksVars
          \/ Idle /\ ~overlapped /\ TasksNext /\ UNCHANGED cliVars
MCSpec == MCInit /\ [][MCNext]_<<cliVars, tasksVars>>

MCNumeral == "0" :> 0 @@ "8" :> 8 @@ "16" :> 16

Tensor(id, name, block, bytes) == [id |-> id, name |-> name, block |-> block, bytes |-> bytes]
GgufHeader(ts, experts, window, mla) ==
    [tensors |-> ts, layers |-> 2, embd |-> 2, heads |-> 1, headsKv |-> 1, vocab |-> 4, window |-> window,
     mla |-> mla, experts |-> experts, expertsUsed |-> IF experts > 0 THEN 1 ELSE 0]
Dense == {Tensor(1, "attn", 0, 6), Tensor(2, "ffn", 1, 6), Tensor(3, "embd", 9, 4), Tensor(4, "norm", 0, 1)}
Moe == {Tensor(1, "attn", 0, 6), Tensor(2, "exps", 0, 9), Tensor(3, "exps", 1, 8), Tensor(4, "output", 9, 4)}
MCHeader == "dense" :> GgufHeader(Dense, 0, 1, 0) @@ "moe" :> GgufHeader(Moe, 2, 0, 0) @@ "mla" :> GgufHeader(Dense, 0, 0, 1)

MCRunKind == "dense" :> "gguf" @@ "moe" :> "gguf" @@ "mla" :> "gguf" @@ "dir" :> "snapshot" @@ "gone" :> "nothing"

MCFlags == {"threads", "max_load", "think", "audio_route", "on_unfit", "n_cpu_moe", "prompt_cache", "kv", "kv_k", "kv_v",
            "device", "tensor_split", "main_gpu", "rpc", "audio", "mmproj", "image", "video", "ngram", "draft", "lora",
            "schema", "grammar", "mcp", "no_daemon", "no_prompt_cache"}
FlagValue ==
    [f \in MCFlags |->
        CASE f = "threads" -> 2 [] f = "max_load" -> 0 [] f = "think" -> [NoOverrides EXCEPT !.effort = "low"]
          [] f = "audio_route" -> "native" [] f = "on_unfit" -> "cpu" [] f = "n_cpu_moe" -> 1 [] f = "kv" -> "q8_0"
          [] f = "kv_k" -> "q4_0" [] f = "kv_v" -> "q4_0" [] f = "device" -> <<1>> [] f = "tensor_split" -> <<1, 1>>
          [] f = "lora" -> <<[exists |-> TRUE]>> [] OTHER -> TRUE]
With(fs) == [f \in MCFlags |-> IF f \in fs THEN FlagValue[f] ELSE None]
Args(model, backend, mode, fs) ==
    [model |-> model, backend |-> backend, mode |-> mode, ctx |-> 2, alias |-> model = "moe"] @@ With(fs)

NoEnv == [threads |-> None, max_load |-> None, on_unfit |-> None, audio |-> None, memory |-> None,
          think |-> NoOverrides]
\* Measured efficiencies, in percent; 0 is none.
MCEff == "gpu" :> ("q4" :> 80 @@ "q8" :> 0) @@ "cpu" :> ("q4" :> 100 @@ "q8" :> 150)
World(vram, ram) ==
    [home |-> TRUE, user |-> NoFile, local |-> NoFile, env |-> NoEnv, daemon |-> FALSE, vram |-> vram, ram |-> ram,
     file |-> 3, draft |-> TRUE, sibling |-> FALSE, provider |-> "openai_audio", key |-> TRUE, rss |-> 10,
     ceiling |-> 200, ctx |-> 2, snap |-> [total |-> 150, avail |-> 70, cpus |-> 2], hw |-> [gpu |-> IF vram > 0 THEN 40 ELSE 0, cpu |-> 5, eff |-> MCEff]]
MCWorlds == {World(v, r) : v \in {0, 110, 124, 127, 131, 160}, r \in {7, 20, 150}}
Plain == World(127, 20)

\* One key in both files, or a bad file, or the environment.
File(k, v) == [NoFile EXCEPT !.exists = TRUE, !.keys[k] = v]
Table(mode, budget, effort, show) ==
    [mode |-> mode, budget |-> budget, grace |-> None, effort |-> effort, show |-> show]
Values(k) ==
    {None, Error} \cup
    CASE k = "threads" -> {0, 4} [] k = "max_load" -> {50, 101} [] k = "on_unfit" -> {"cpu", "cloud", "error"}
      [] k = "audio" -> {"asr", "native"} [] k = "memory" -> {40, 400}
      [] k = "think" -> {Table("on", None, None, TRUE), Table("budget", 8, None, None), Table("budget", None, None, None),
                         Table(None, None, "high", FALSE), Table(None, 8, "low", None), Table("off", None, None, None)}
      [] k = "mcp" -> {"a" :> 1} [] OTHER -> {<<[exists |-> TRUE]>>, <<[exists |-> FALSE]>>}
Tight == World(110, 20)
InFiles(k) == {[(IF k = "on_unfit" THEN Tight ELSE Plain) EXCEPT !.user = File(k, u), !.local = File(k, l)] : u, l \in Values(k)}
EnvThinks == {[NoOverrides EXCEPT !.budget = 16], [NoOverrides EXCEPT !.think = FALSE, !.show = TRUE], Error}
InEnv == {[w EXCEPT !.env.think = t] : w \in InFiles("think"), t \in EnvThinks}
         \cup {[w EXCEPT !.env.on_unfit = v] : w \in InFiles("on_unfit"), v \in {"cpu", Error}}
         \cup {[w EXCEPT !.env.memory = v] : w \in InFiles("memory"), v \in {400, Error}}
BadFiles == {[Plain EXCEPT !.user.exists = TRUE, !.user.secret = b, !.user.toml = ~b, !.home = h] : b, h \in BOOLEAN}
Configured == UNION {InFiles(k) : k \in Keys} \cup InEnv \cup BadFiles

Few == {Args(m, "auto", mode, fs) : m \in {"moe", "cloud"}, mode \in {"auto", "gpu"},
                                    fs \in {{}, {"think"}, {"audio"}, {"on_unfit", "lora"}}}
Many == {Args(m, b, mode, fs) : m \in {"dense", "moe", "mla", "dir", "gone", "cloud"}, b \in {"auto", "gguf"},
                                mode \in {"auto", "cpu", "hybrid"}, fs \in {{}} \cup {{f} : f \in MCFlags}}
Pairs == {Args("moe", "auto", "auto", {f, g}) : f, g \in MCFlags}
Machines == {World(v, 20) : v \in {0, 124}} \cup
            {[Plain EXCEPT !.daemon = TRUE], [Plain EXCEPT !.sibling = TRUE], [Plain EXCEPT !.provider = "anthropic"],
             [Plain EXCEPT !.draft = FALSE], [Plain EXCEPT !.key = FALSE]}
            \cup {[Plain EXCEPT !.snap = [total |-> t, avail |-> a, cpus |-> 3]] : t \in {0, 60, 130}, a \in {0, 7}}
MCInvocations ==
    {[a |-> a, w |-> w] : a \in Few, w \in Configured \cup MCWorlds} \cup {[a |-> a, w |-> w] : a \in Many, w \in Machines}
    \cup {[a |-> a, w |-> w] : a \in Pairs, w \in {Plain, [Plain EXCEPT !.sibling = TRUE]}}

Entry(name, tier, headers) ==
    [name |-> name, tier |-> tier, headers |-> headers, size |-> 20, active |-> 10, kv |-> 8, compute |-> 30,
     uses |-> {"chat"}, mmproj |-> 3, quant |-> "q4"]
Split == <<GgufHeader(Dense, 0, 0, 0), GgufHeader({Tensor(5, "ffn", 2, 200)}, 0, 0, 0)>>
WholeCatalog == <<Entry("a", 1, <<MCHeader["dense"]>>), Entry("b", 2, <<MCHeader["moe"]>>),
                  [Entry("c", 1, <<MCHeader["mla"]>>) EXCEPT !.size = 1, !.active = 1, !.uses = {"chat", "vision"}, !.quant = "q8"]>>
MCCatalogs == {WholeCatalog}
ShardCatalogs == {<<Entry("split", 1, Split)>>}

MCKindOf == "p" :> "gguf" @@ "q" :> "gguf" @@ "s" :> "snapshot" @@ "x" :> "file"
Lora == <<[exists |-> TRUE]>>
Flag(ui, path, loras, mcp) ==
    [ui |-> ui, path |-> path, backend |-> "auto", mode |-> "cpu", threads |-> None, maxLoad |-> FALSE, loras |-> loras, rpc |-> FALSE,
     mcp |-> mcp, mcpConfig |-> FALSE, noDaemon |-> FALSE, think |-> DefaultThink]
MCChatFlags ==
    {Flag(ui, "p", Lora, TRUE) : ui \in {"repl", "tui"}} \cup {Flag(ui, p, <<>>, FALSE) : ui \in {"repl", "tui"}, p \in {"p", "s"}}
    \cup {[Flag("repl", p, <<>>, FALSE) EXCEPT ![k] = TRUE] : p \in {"p", "s"}, k \in {"rpc", "mcpConfig", "noDaemon", "maxLoad"}}
    \cup {Flag("repl", "x", <<>>, FALSE)}
MCReplies == {[text |-> t, calls |-> c] : t \in 0..1, c \in 0..2}
Cmd(c, arg) == [cmd |-> c, arg |-> arg]
MCLines == {Cmd("mode", <<"gpu">>), Cmd("mode", <<"warp">>), Cmd("model", <<"q">>), Cmd("model", <<"s">>), Cmd("model", <<"no">>), Cmd("reset", <<>>),
            Cmd("think", <<"budget", "8">>), Cmd("think", <<"budget", "0">>), Cmd("think", <<"effort", "low", "off">>),
            Cmd("quit", <<>>), Cmd("help", <<>>)}
==============================================================================
