----------------------------- MODULE RunCommand ------------------------------
(***************************************************************************)
(* `runa run` (cmd_run of crates/runa/src/main.rs): settings, the daemon,  *)
(* a cloud model, the mistral backend or a local gguf load with an         *)
(* automatic placement, and the same for the commands of `runa fit`.       *)
(*                                                                         *)
(* A flag is None or its value.  The machine, the files and the environment*)
(* are a record w; the state of the command is the record cmd.             *)
(***************************************************************************)
EXTENDS Config, Fit, EngineLoad

CONSTANTS
    Flags,          \* the names of the optional flags
    RunKind,        \* what is at each model path
    Header          \* the header of each gguf path

\* The headers that the estimates can read: they divide by heads and embd.
Headers ==
    [tensors : SUBSET [id : Nat, name : STRING, block : Nat, bytes : Nat], layers : Nat, embd : Nat \ {0},
     heads : Nat \ {0}, headsKv : Nat, vocab : Nat, window : Nat, mla : Nat, experts : Nat, expertsUsed : Nat]

ASSUME RunAssumption ==
    /\ None \notin {"cloud", "native", "no_fit"}
    /\ \A m \in DOMAIN RunKind : RunKind[m] = "gguf" => Header[m] \in Headers /\ IsFiniteSet(Header[m].tensors)

\* A command line and a machine.
CommandOK(a) ==
    /\ a.ctx \in Nat /\ (a.model = "cloud" \/ a.model \in DOMAIN RunKind)
    /\ a["threads"] \in Int \cup {None} /\ a["think"] \in Overrides \cup {None} /\ a["lora"] \in Loras \cup {None}
MachineOK(w) ==
    /\ w.snap \in [total : Nat, avail : Nat, cpus : Nat] /\ w.file \in Nat /\ w.vram \in Nat /\ w.ram \in Nat
    /\ w.env.threads \in Int \cup {None, Error} /\ w.env.think \in Overrides \cup {Error}
    /\ FileOK(w.user) /\ FileOK(w.local)

VARIABLE cmd

\* The record of a command: where it is, its arguments, what it has resolved,
\* and where its audio went.
Command(a, w) ==
    [pc |-> "start", a |-> a, w |-> w, think |-> None, threads |-> None, audio |-> None, loras |-> <<>>,
     heard |-> <<>>, verdict |-> None, plan |-> None, placement |-> None, route |-> None, context |-> None, via |-> None, warned |-> {}]

Goto(pc) == cmd' = [cmd EXCEPT !.pc = pc]
Fails == Goto("failed")

\* A step at which the command is, with its arguments.
At(pc) == cmd.pc = pc
Given(f) == cmd.a[f] # None

-----------------------------------------------------------------------------
\* cmd_run up to the first engine: settings that cannot be resolved end it, as
\* does a prompt, a schema or a grammar that cannot be read.
Settings ==
    LET threads == ResolveThreads(cmd.w, cmd.a["threads"])
        load == ResolveMaxLoad(cmd.w, cmd.a["max_load"])
        think == ThinkOf(cmd.w, IF Given("think") THEN cmd.a["think"] ELSE NoOverrides)
        audio == ResolveAudioRoute(cmd.w, cmd.a["audio_route"])
    IN  /\ At("start")
        /\ \/ Fails
           \/ /\ Error \notin {threads, load, think, audio}
              /\ cmd' = [cmd EXCEPT !.pc = "daemon", !.think = think, !.threads = threads, !.audio = audio,
                                    !.warned = LoadWarnings(cmd.w.snap, 0, threads, load)]

\* daemon_compatible_run.
DaemonCannot == {"audio", "image", "video", "mcp", "ngram", "draft", "prompt_cache", "device", "tensor_split",
                 "main_gpu", "rpc", "n_cpu_moe", "threads", "max_load", "kv", "kv_k", "kv_v"}

\* try_daemon_run: an answer or an error of the daemon is the outcome; no
\* daemon, a broken connection or an unknown model is not.
TryDaemon ==
    LET asked == /\ cmd.a.model # "cloud" /\ ~Given("no_daemon")
                 /\ \A f \in DaemonCannot : ~Given(f)
                 /\ RunKind[cmd.a.model] # "nothing"
    IN  /\ At("daemon")
        /\ \/ asked /\ cmd.w.daemon /\ cmd' = [cmd EXCEPT !.pc = "done", !.via = "daemon"]
           \/ asked /\ cmd.w.daemon /\ Fails
           \/ Goto("mcp")

\* mcp::start, for the servers of the files and of the flags.
StartMcp ==
    LET servers == LoadMcpServers(cmd.w)
    IN  /\ At("mcp")
        /\ IF servers = Error THEN Fails
           ELSE \/ (servers # <<>> \/ Given("mcp")) /\ Fails
                \/ Goto("route")

\* select_audio_route, for a local model with or without a projector and for
\* the providers.
SelectAudioRoute(pref, backend) ==
    IF pref = "asr" THEN "transcribe"
    ELSE CASE backend = "projector" -> "native" [] backend = "openai_audio" -> "input_audio"
           [] OTHER -> IF pref = "auto" THEN "transcribe" ELSE Error

\* run_cloud, with prepare_cloud_audio: one transcription or one attachment.
CloudRun ==
    LET plan == SelectAudioRoute(cmd.audio, cmd.w.provider)
    IN  \/ Fails
        \/ /\ ~Given("grammar") /\ cmd.w.key
           /\ ~Given("audio") \/ plan # Error
           /\ cmd' = [cmd EXCEPT !.pc = "done", !.via = "cloud",
                                 !.heard = IF Given("audio") THEN Append(@, plan) ELSE @]

\* reject_mistral_flags.
MistralCannot == {"on_unfit", "n_cpu_moe", "prompt_cache", "kv", "kv_k", "kv_v", "threads", "max_load", "device",
                  "tensor_split", "main_gpu", "rpc", "audio", "mmproj", "image", "video", "ngram", "draft", "lora", "schema",
                  "grammar", "mcp"}

\* cmd_run_mistral: a load and a generation, each of which may fail.
RunMistral ==
    \/ Fails
    \/ /\ \A f \in MistralCannot : ~Given(f)
       /\ LoadMcpServers(cmd.w) = <<>>
       /\ cmd' = [cmd EXCEPT !.pc = "done", !.via = "mistral"]

\* A cloud reference, a mistral directory, or on to a gguf.
Route ==
    LET kind == IF cmd.a.model = "cloud" THEN "cloud" ELSE Backend(cmd.a.backend, RunKind[cmd.a.model])
    IN  /\ At("route")
        /\ CASE kind = "cloud" -> IF cmd.a.backend # "auto" \/ Given("image") \/ Given("video") THEN Fails ELSE CloudRun
             [] kind = "error" -> Fails
             [] kind = "mistral" -> RunMistral
             [] OTHER -> Goto("place")

-----------------------------------------------------------------------------
(* Placement.                                                              *)

\* resolve_kv and planner_kv_type: the larger of the two.
KvRank == "f16" :> 2 @@ "q8_0" :> 1 @@ "q4_0" :> 0
PlannerKv(k, v) ==
    LET kk == Or(k, "f16") vv == Or(v, "f16") IN IF KvRank[kk] >= KvRank[vv] THEN kk ELSE vv

RunKv == PlannerKv(Or(cmd.a["kv_k"], cmd.a["kv"]), Or(cmd.a["kv_v"], cmd.a["kv"]))

\* machine_config with the sizes that auto_placement adds to it.
MachineConfig(w, ctx, kv, mmproj, draft, lora) ==
    [vram |-> w.vram, ram |-> w.ram, ctx |-> ctx, kv |-> kv, mmproj |-> mmproj + draft, lora |-> lora, frames |-> 0]

\* placement_from_report.
PlacementFromReport(verdict, plan, d) ==
    CASE verdict = "gpu" -> Placed(All, 0)
      [] verdict = "hybrid" -> IF plan.gpuLayers >= d.layers /\ d.layers > 0 THEN Placed(All, All)
                               ELSE Placed(plan.gpuLayers, 0)
      [] OTHER -> Placed(0, 0)

FileBytes(f) == IF Given(f) THEN cmd.w.file ELSE 0
LoraBytes(loras) == Len(loras) * cmd.w.file

\* auto_placement: the verdict, and on_unfit when there is none.  A header that
\* cannot be read or parsed and a bad RUNA_NPU end it, before on_unfit is asked.
AutoPlacement(loras, unfit) ==
    LET d == Descriptor(Header[cmd.a.model])
        projector == IF Given("mmproj") \/ cmd.w.sibling THEN cmd.w.file ELSE 0
        c == MachineConfig(cmd.w, cmd.a.ctx, RunKv, projector, FileBytes("draft"), LoraBytes(loras))
    IN  \/ Fails
        \/ \E order \in PackingOrders(d.tensors) :
            LET p == PlanPlacement(order, d, c)
                verdict == Verdict(d, c, p)
                seen == [cmd EXCEPT !.pc = "shape", !.loras = loras, !.verdict = verdict, !.plan = p]
            IN  CASE verdict # "no_fit" ->
                        cmd' = [seen EXCEPT !.placement = PlacementFromReport(verdict, p, d)]
                  [] verdict = "no_fit" /\ unfit = "cpu" -> cmd' = [seen EXCEPT !.placement = Placed(0, 0)]
                  [] verdict = "no_fit" /\ unfit = "cloud" -> cmd' = [seen EXCEPT !.pc = "cloud"]
                  [] OTHER -> cmd' = [seen EXCEPT !.pc = "failed"]

\* Mutant: on_unfit defaults to the cloud, and the files are not asked.
MutPlace == At("place") /\ cmd.a.mode = "auto" /\ AutoPlacement(<<>>, Or(cmd.a["on_unfit"], "cloud"))

Place ==
    LET loras == ResolveLoras(cmd.w, cmd.a.alias, IF Given("lora") THEN cmd.a["lora"] ELSE <<>>)
        unfit == ResolveOnUnfit(cmd.w, cmd.a["on_unfit"])
    IN  /\ At("place")
        /\ IF (Given("draft") /\ ~cmd.w.draft) \/ Error \in {loras, unfit} THEN Fails
           ELSE IF cmd.a.mode = "auto" THEN AutoPlacement(loras, unfit)
           ELSE cmd' = [cmd EXCEPT !.pc = "shape", !.loras = loras, !.placement = FromMode(cmd.a.mode)]

OnUnfitCloud == At("cloud") /\ CloudRun

\* Mutant: the audio is transcribed and also sent as samples.
MutShape ==
    At("shape") /\ cmd' = [cmd EXCEPT !.pc = "preflight", !.route = "native", !.heard = Append(@, "transcribe")]

\* The flags that shape the load, and the route of the audio: a transcription
\* comes before the load.
Shape ==
    LET projector == Given("mmproj") \/ cmd.w.sibling
        plan == SelectAudioRoute(cmd.audio, IF projector THEN "projector" ELSE "none")
        p0 == IF Given("n_cpu_moe") THEN WithNCpuMoe(cmd.placement, cmd.a["n_cpu_moe"]) ELSE cmd.placement
        p == [p0 EXCEPT !.devices = IF Given("device") THEN cmd.a["device"] ELSE <<>>,
                        !.split = IF Given("tensor_split") THEN cmd.a["tensor_split"] ELSE <<>>,
                        !.rpc = Given("rpc")]
        next == [cmd EXCEPT !.pc = "preflight", !.placement = p]
    IN  /\ At("shape")
        /\ \/ ~Given("audio") /\ cmd' = next
           \/ /\ Given("audio")
              /\ \/ plan = Error /\ Fails
                 \/ plan = "transcribe" /\ (Fails \/ cmd' = [next EXCEPT !.heard = Append(@, plan)])
                 \/ plan = "native" /\ cmd' = [next EXCEPT !.route = plan]

\* preflight_grow: KV, compute buffer and extra files against the ceiling, for
\* a process that holds w.rss.
RunDemand ==
    LET d == Descriptor(Header[cmd.a.model])
    IN  EstimateKv(d, cmd.a.ctx, RunKv) + EstimateCompute(d, Ubatch) + FileBytes("draft") + LoraBytes(cmd.loras)

Preflight ==
    LET policy == ResolveMemoryPolicy(cmd.w)
        ceiling == Min({cmd.w.ceiling, cmd.w.rss + policy})
    IN  /\ At("preflight")
        /\ IF policy = Error THEN Fails
           ELSE cmd' = [cmd EXCEPT !.pc = IF RunDemand > 0 /\ cmd.w.rss + RunDemand > ceiling THEN "failed" ELSE "load",
                                   !.warned = @ \cup DemandWarning(cmd.w.snap, RunDemand,
                                                                  ResolveMaxLoad(cmd.w, cmd.a["max_load"]))]

\* The load, the prompt cache, and the audio that the projector may not take.
Load ==
    LET c == [ctx |-> cmd.a.ctx, threads |-> cmd.threads, loras |-> cmd.loras,
              kv |-> <<Or(cmd.a["kv_k"], cmd.a["kv"]), Or(cmd.a["kv_v"], cmd.a["kv"])>>]
        native == cmd.route = "native"
    IN  /\ At("load")
        /\ \E m \in LoadOutcomes(cmd.a.model, RunKind[cmd.a.model], cmd.placement, c) :
              IF m = Failed THEN Fails
              ELSE \E l \in AttachOutcomes(m, Given("no_prompt_cache"), Given("prompt_cache")) :
                     IF l = Failed THEN Fails
                     ELSE LET next == [cmd EXCEPT !.pc = "generate", !.placement = l.placement, !.context = l.context]
                          IN  \/ ~native /\ cmd' = next
                              \/ native /\ cmd' = [next EXCEPT !.heard = Append(@, "native")]
                              \/ native /\ cmd.audio = "auto" /\ cmd' = [next EXCEPT !.heard = Append(@, "transcribe")]
                              \/ native /\ Fails

Generate ==
    /\ At("generate")
    /\ Fails \/ cmd' = [cmd EXCEPT !.pc = "done", !.via = "local"]

RunStep ==
    \/ Settings \/ TryDaemon \/ StartMcp \/ Route \/ Place \/ OnUnfitCloud \/ Shape \/ Preflight \/ Load
    \/ Generate

-----------------------------------------------------------------------------
(* Properties of a run.                                                    *)

\* D12, on_unfit: a prompt leaves the machine only if the model is a cloud
\* reference, or if the placement was automatic, nothing fits and on_unfit says
\* cloud; a model that does not fit is loaded automatically only if on_unfit says
\* cpu, and then on the CPU.
OnUnfitObeyed ==
    LET unfit == ResolveOnUnfit(cmd.w, cmd.a["on_unfit"])
        auto == cmd.a.mode = "auto" /\ cmd.verdict = "no_fit"
    IN  cmd # None =>
        /\ cmd.via = "cloud" => cmd.a.model = "cloud" \/ (auto /\ unfit = "cloud")
        /\ auto /\ cmd.pc \in {"shape", "preflight", "load", "generate"} =>
               unfit = "cpu" /\ cmd.placement.layers = 0

\* The audio of a run that ends well reached the model once: as a transcript in
\* the prompt, as samples, or as an attachment.
AudioHeardOnce ==
    cmd # None /\ cmd.pc = "done" /\ Given("audio") => Len(cmd.heard) = 1

\* The tables of the files, the environment and the flags: the strongest layer
\* that says how to think decides it alone, the strongest that says whether to
\* show it decides that, and no layer contradicts itself.
ThinkAsAsked ==
    LET layers == ThinkLayers(cmd.w, IF Given("think") THEN cmd.a["think"] ELSE NoOverrides)
        Clear(o) == o # Error /\ ~(o.think = FALSE /\ (o.budget # None \/ o.effort # None))
                    /\ ~(o.budget # None /\ o.effort # None)
        says == {i \in DOMAIN layers : \E k \in {"think", "budget", "effort"} : layers[i][k] # None}
        shows == {i \in DOMAIN layers : layers[i].show # None}
        Strongest(s) == layers[Max(s)]
    IN  cmd # None /\ cmd.pc \notin {"start", "failed"} =>
        /\ \A i \in DOMAIN layers : Clear(layers[i])
        /\ cmd.think.show = (shows # {} /\ Strongest(shows).show)
        /\ IF says = {} THEN cmd.think.mode = "off"
           ELSE CASE Strongest(says).budget # None -> cmd.think.mode = "budget" /\ cmd.think.tokens = Strongest(says).budget
                  [] Strongest(says).effort # None -> cmd.think.mode = "effort" /\ cmd.think.effort = Strongest(says).effort
                  [] OTHER -> cmd.think.mode = IF Strongest(says).think THEN "on" ELSE "off"

\* system_load_warnings: "naming the value to set so the run fits the cap".  The
\* percent that a warning names silences it, unless it is 100, and no smaller
\* limit does.
LimitSuffices ==
    LET About(kind, limit) ==
            \E x \in LoadWarnings(cmd.w.snap, IF kind = "demand" THEN RunDemand ELSE 0, cmd.threads, limit) : x.kind = kind
    IN  cmd # None =>
        \A x \in cmd.warned :
            /\ x.percent = 100 \/ ~About(x.kind, x.percent)
            /\ \A limit \in 1..x.percent - 1 : About(x.kind, limit)

\* What the planner promises about a placement, whatever order equal tensors
\* come in: what it puts on the GPU leaves the margin free, no tensor it left
\* to the CPU would still have fitted, a plan that fits keeps both sides within
\* their memory, and with one more unit of VRAM it does not put less there.
PlanSound ==
    LET d == Descriptor(Header[cmd.a.model])
        p == cmd.plan
        room == cmd.w.vram - Margin - (p.gpuTotal - p.gpuBytes)
        Richer == {PlanPlacement(o, d, [ctx |-> cmd.a.ctx, kv |-> RunKv, vram |-> cmd.w.vram + 1, ram |-> cmd.w.ram,
                                      mmproj |-> p.gpuTotal - p.gpuBytes - EstimateCompute(d, Ubatch)
                                                 - EstimateKv(d, cmd.a.ctx, RunKv),
                                      lora |-> 0, frames |-> 0]) : o \in PackingOrders(d.tensors)}
    IN  cmd # None /\ cmd.plan # None =>
        /\ p.gpu \cup p.cpu = d.tensors /\ p.gpu \cap p.cpu = {}
        /\ p.gpuBytes > 0 => p.gpuTotal + Margin <= cmd.w.vram
        /\ \A t \in p.cpu : t.bytes > 0 /\ room >= 0 => p.gpuBytes + t.bytes > room
        /\ p.fits => SumBytes(p.cpu) <= cmd.w.ram
        /\ \E q \in Richer : q.gpuBytes >= p.gpuBytes /\ (p.fits => q.fits)
==============================================================================
