----------------------------- MODULE CliProofs -------------------------------
(***************************************************************************)
(* The commands for every command line, machine and configuration.  A run  *)
(* obeys on_unfit, gives the model its audio once, thinks as the strongest *)
(* setting says and keeps its plan within the memory; a chat is served by  *)
(* the engine that its session describes and remembers what was said, in   *)
(* whole turns; a recommendation is ranked by what the probes found.       *)
(***************************************************************************)
EXTENDS Cli, WellFoundedInduction, SequenceTheorems, FiniteSetTheorems, TLAPS

-----------------------------------------------------------------------------
(* runa run.                                                               *)

CmdFields == {"pc", "a", "w", "think", "threads", "audio", "loras", "heard", "verdict", "plan", "placement",
              "route", "context", "via", "warned"}

\* The steps before the model has a placement, and those after.
Unplaced == {"start", "daemon", "mcp", "route", "place"}
Placing == {"preflight", "load", "generate"}

Unfit(c) == ResolveOnUnfit(c.w, c.a["on_unfit"])
AutoUnfit(c) == c.a.mode = "auto" /\ c.verdict = "no_fit"

\* Where a prompt may go, at each step: nothing has left the machine before the
\* end, the detour to the cloud was asked for, and an automatic placement that
\* does not fit is a placement on the CPU.
RouteInv(c) ==
    /\ c.pc # "done" => c.via # "cloud"
    /\ c.pc = "cloud" => AutoUnfit(c) /\ Unfit(c) = "cloud"
    /\ c.via = "cloud" => c.a.model = "cloud" \/ (AutoUnfit(c) /\ Unfit(c) = "cloud")
    /\ c.pc = "shape" /\ AutoUnfit(c) => Unfit(c) = "cpu" /\ c.placement = Placed(0, 0)
    /\ c.pc \in Placing /\ AutoUnfit(c) => Unfit(c) = "cpu" /\ c.placement.layers = 0

\* What became of the audio, at each step: nothing before its route is chosen;
\* then it is in the prompt, or waits for the projector.
AudioInv(c) ==
    /\ c.pc \in Unplaced \cup {"cloud", "shape"} => c.heard = <<>> /\ c.route # "native"
    /\ c.pc \in {"preflight", "load"} /\ c.a["audio"] # None =>
           (c.route = "native" /\ c.heard = <<>>) \/ (c.route # "native" /\ Len(c.heard) = 1)
    /\ c.pc \in {"generate", "done"} /\ c.a["audio"] # None => Len(c.heard) = 1

RunInv == cmd # None => DOMAIN cmd = CmdFields /\ RouteInv(cmd) /\ AudioInv(cmd)

\* A command starts with nothing said and nothing heard.
LEMMA CommandStarts ==
    ASSUME NEW a, NEW w, NEW pc \in {"start", "failed"}, NEW c, c = [Command(a, w) EXCEPT !.pc = pc]
    PROVE  DOMAIN c = CmdFields /\ RouteInv(c) /\ AudioInv(c)
<1>1. /\ DOMAIN c = CmdFields
      /\ c.pc = pc /\ c.via = None /\ c.heard = <<>> /\ c.route = None
    BY DEF Command, CmdFields
<1> QED
    BY <1>1, RunAssumption DEF RouteInv, AudioInv, Placing, Unplaced

\* Only the step is changed: a command that fails, or goes on to the next one of
\* the steps before the placement.
LEMMA MoveOn ==
    ASSUME NEW c, DOMAIN c = CmdFields, RouteInv(c), AudioInv(c),
           NEW pc \in {"failed"} \cup Unplaced, NEW d, d = [c EXCEPT !.pc = pc],
           c.pc # "done", pc = "failed" \/ c.pc \in Unplaced
    PROVE  DOMAIN d = CmdFields /\ RouteInv(d) /\ AudioInv(d)
<1>1. /\ DOMAIN d = CmdFields /\ d.pc = pc /\ d.via = c.via /\ d.heard = c.heard /\ d.route = c.route
      /\ d.a = c.a /\ d.w = c.w /\ d.verdict = c.verdict
    BY DEF CmdFields
<1> QED
    BY <1>1 DEF RouteInv, AudioInv, Placing, Unplaced, AutoUnfit, Unfit

\* A cloud run: from a cloud reference, or by on_unfit.
LEMMA CloudRunStep ==
    ASSUME cmd # None, RunInv, CloudRun,
           \/ cmd.pc = "route" /\ cmd.a.model = "cloud"
           \/ cmd.pc = "cloud"
    PROVE  RunInv'
<1> DEFINE plan == SelectAudioRoute(cmd.audio, cmd.w.provider)
<1>0. DOMAIN cmd = CmdFields /\ RouteInv(cmd) /\ AudioInv(cmd) /\ cmd.heard = <<>> /\ cmd.pc # "done"
    BY DEF RunInv, AudioInv, Unplaced
<1>1. CASE Fails
    BY <1>0, <1>1, MoveOn DEF RunInv, Fails, Goto
<1>2. CASE cmd' = [cmd EXCEPT !.pc = "done", !.via = "cloud",
                              !.heard = IF Given("audio") THEN Append(@, plan) ELSE @]
    <2>1. /\ DOMAIN cmd' = CmdFields /\ cmd'.pc = "done" /\ cmd'.via = "cloud"
          /\ cmd'.a = cmd.a /\ cmd'.w = cmd.w /\ cmd'.verdict = cmd.verdict /\ cmd'.route = cmd.route
          /\ cmd'.heard = IF Given("audio") THEN Append(cmd.heard, plan) ELSE cmd.heard
        BY <1>0, <1>2 DEF CmdFields
    <2>2. cmd.a["audio"] # None => Len(cmd'.heard) = 1
        BY <1>0, <2>1 DEF Given
    <2> QED
        BY <1>0, <2>1, <2>2 DEF RunInv, RouteInv, AudioInv, AutoUnfit, Unfit, Placing, Unplaced
<1> QED
    BY <1>1, <1>2 DEF CloudRun

\* A placement that the verdict chose, or on_unfit.
LEMMA AutoPlacementStep ==
    ASSUME NEW loras, NEW unfit, cmd # None, RunInv, cmd.pc = "place", cmd.a.mode = "auto",
           unfit = Unfit(cmd), AutoPlacement(loras, unfit), ~Fails
    PROVE  RunInv'
<1>0. /\ DOMAIN cmd = CmdFields /\ RouteInv(cmd) /\ AudioInv(cmd) /\ cmd.via # "cloud"
      /\ cmd.heard = <<>> /\ cmd.route # "native"
    BY DEF RunInv, RouteInv, AudioInv, Unplaced
<1> DEFINE d == Descriptor(Header[cmd.a.model])
           projector == IF Given("mmproj") \/ cmd.w.sibling THEN cmd.w.file ELSE 0
           c == MachineConfig(cmd.w, cmd.a.ctx, RunKv, projector, FileBytes("draft"), LoraBytes(loras))
           p(order) == PlanPlacement(order, d, c)
           Outcome(verdict, plan) ==
               LET seen == [cmd EXCEPT !.pc = "shape", !.loras = loras, !.verdict = verdict, !.plan = plan]
               IN  CASE verdict # "no_fit" ->
                           cmd' = [seen EXCEPT !.placement = PlacementFromReport(verdict, plan, d)]
                     [] verdict = "no_fit" /\ unfit = "cpu" -> cmd' = [seen EXCEPT !.placement = Placed(0, 0)]
                     [] verdict = "no_fit" /\ unfit = "cloud" -> cmd' = [seen EXCEPT !.pc = "cloud"]
                     [] OTHER -> cmd' = [seen EXCEPT !.pc = "failed"]
<1>1. PICK order \in PackingOrders(d.tensors) : Outcome(Verdict(d, c, p(order)), p(order))
    BY Zenon DEF AutoPlacement
<1> HIDE DEF d, c, p
<1>3. PICK verdict, plan : Outcome(verdict, plan)
    BY <1>1, Zenon
<1>2. /\ DOMAIN cmd' = CmdFields /\ cmd'.a = cmd.a /\ cmd'.w = cmd.w /\ cmd'.via = cmd.via
      /\ cmd'.heard = cmd.heard /\ cmd'.route = cmd.route /\ cmd'.verdict = verdict
      /\ \/ verdict # "no_fit" /\ cmd'.pc = "shape"
         \/ verdict = "no_fit" /\ unfit = "cpu" /\ cmd'.pc = "shape" /\ cmd'.placement = Placed(0, 0)
         \/ verdict = "no_fit" /\ unfit = "cloud" /\ cmd'.pc = "cloud"
         \/ cmd'.pc = "failed"
    BY <1>0, <1>3 DEF CmdFields
<1> QED
    BY <1>0, <1>2 DEF RunInv, RouteInv, AudioInv, AutoUnfit, Unfit, Placing, Unplaced

\* Every step of a run keeps the invariant.
LEMMA RunStepKeeps ==
    ASSUME cmd # None, RunInv, RunStep
    PROVE  RunInv'
<1>0. DOMAIN cmd = CmdFields /\ RouteInv(cmd) /\ AudioInv(cmd)
    BY DEF RunInv
<1>f. ASSUME Fails, cmd.pc # "done" PROVE RunInv'
    BY <1>0, <1>f, MoveOn DEF RunInv, Fails, Goto
<1>g. ASSUME NEW pc \in Unplaced, Goto(pc), cmd.pc \in Unplaced PROVE RunInv'
    BY <1>0, <1>g, MoveOn DEF RunInv, Goto, Unplaced
<1>1. CASE Settings
    <2>1. cmd.pc = "start"
        BY <1>1 DEF Settings, At
    <2>2. CASE Fails
        BY <2>1, <2>2, <1>f
    <2>3. CASE ~Fails
        <3>2. /\ DOMAIN cmd' = CmdFields /\ cmd'.pc = "daemon" /\ cmd'.a = cmd.a /\ cmd'.w = cmd.w
              /\ cmd'.via = cmd.via /\ cmd'.heard = cmd.heard /\ cmd'.route = cmd.route
            BY <1>0, <1>1, <2>3 DEF Settings, CmdFields
        <3> QED
            BY <1>0, <2>1, <3>2 DEF RunInv, RouteInv, AudioInv, Placing, Unplaced
    <2> QED
        BY <2>2, <2>3
<1>2. CASE TryDaemon
    <2>1. cmd.pc = "daemon"
        BY <1>2 DEF TryDaemon, At
    <2>2. CASE Fails \/ Goto("mcp")
        BY <2>1, <2>2, <1>f, <1>g DEF Unplaced
    <2>3. CASE ~Given("audio") /\ cmd' = [cmd EXCEPT !.pc = "done", !.via = "daemon"]
        <3>1. /\ DOMAIN cmd' = CmdFields /\ cmd'.pc = "done" /\ cmd'.a = cmd.a /\ cmd'.w = cmd.w
              /\ cmd'.via = "daemon"
            BY <1>0, <2>3 DEF CmdFields
        <3> QED
            BY <1>0, <2>1, <2>3, <3>1 DEF RunInv, RouteInv, AudioInv, Placing, Unplaced, Given
    <2> QED
        BY <1>2, <2>2, <2>3 DEF TryDaemon, DaemonCannot
<1>3. CASE StartMcp
    <2>1. cmd.pc = "mcp" /\ (Fails \/ Goto("route"))
        BY <1>3 DEF StartMcp, At
    <2> QED
        BY <2>1, <1>f, <1>g DEF Unplaced
<1>4. CASE Route
    <2>1. cmd.pc = "route"
        BY <1>4 DEF Route, At
    <2>2. CASE Fails \/ Goto("place")
        BY <2>1, <2>2, <1>f, <1>g DEF Unplaced
    <2>3. CASE cmd.a.model = "cloud" /\ CloudRun
        BY <2>1, <2>3, CloudRunStep
    <2>4. CASE RunMistral
        <3>1. CASE ~Given("audio") /\ cmd' = [cmd EXCEPT !.pc = "done", !.via = "mistral"]
            <4>1. /\ DOMAIN cmd' = CmdFields /\ cmd'.pc = "done" /\ cmd'.a = cmd.a /\ cmd'.w = cmd.w
                  /\ cmd'.via = "mistral"
                BY <1>0, <3>1 DEF CmdFields
            <4> QED
                BY <1>0, <2>1, <3>1, <4>1 DEF RunInv, RouteInv, AudioInv, Placing, Unplaced, Given
        <3> QED
            BY <2>1, <2>2, <2>4, <3>1 DEF RunMistral, MistralCannot
    <2>5. Fails \/ Goto("place") \/ (cmd.a.model = "cloud" /\ CloudRun) \/ RunMistral
        <3>1. Backend(cmd.a.backend, RunKind[cmd.a.model]) \in {"gguf", "mistral", "error"}
            BY DEF Backend
        <3> QED
            BY <1>4, <3>1 DEF Route
    <2> QED
        BY <2>2, <2>3, <2>4, <2>5
<1>5. CASE Place
    <2>1. cmd.pc = "place"
        BY <1>5 DEF Place, At
    <2>2. CASE Fails
        BY <2>1, <2>2, <1>f
    <2>3. CASE cmd.a.mode = "auto" /\ ~Fails
        <3>1. PICK loras : AutoPlacement(loras, ResolveOnUnfit(cmd.w, cmd.a["on_unfit"]))
            BY <1>5, <2>3, Zenon DEF Place
        <3> QED
            BY <2>1, <2>3, <3>1, AutoPlacementStep DEF Unfit
    <2>4. CASE cmd.a.mode # "auto" /\ ~Fails
        <3>1. PICK loras : cmd' = [cmd EXCEPT !.pc = "shape", !.loras = loras, !.placement = FromMode(cmd.a.mode)]
            BY <1>5, <2>4, Zenon DEF Place
        <3>2. /\ DOMAIN cmd' = CmdFields /\ cmd'.pc = "shape" /\ cmd'.a = cmd.a /\ cmd'.w = cmd.w
              /\ cmd'.via = cmd.via /\ cmd'.heard = cmd.heard /\ cmd'.route = cmd.route
            BY <1>0, <3>1 DEF CmdFields
        <3> QED
            BY <1>0, <2>1, <2>4, <3>2 DEF RunInv, RouteInv, AudioInv, AutoUnfit, Placing, Unplaced
    <2> QED
        BY <2>2, <2>3, <2>4
<1>6. CASE OnUnfitCloud
    BY <1>6, CloudRunStep DEF OnUnfitCloud, At
<1>7. CASE Shape
    <2>1. cmd.pc = "shape" /\ cmd.heard = <<>> /\ cmd.route # "native"
        BY <1>0, <1>7 DEF Shape, At, AudioInv
    <2> DEFINE plan == SelectAudioRoute(cmd.audio, IF Given("mmproj") \/ cmd.w.sibling THEN "projector" ELSE "none")
               p0 == IF Given("n_cpu_moe") THEN WithNCpuMoe(cmd.placement, cmd.a["n_cpu_moe"]) ELSE cmd.placement
               p == [p0 EXCEPT !.devices = IF Given("device") THEN cmd.a["device"] ELSE <<>>,
                               !.split = IF Given("tensor_split") THEN cmd.a["tensor_split"] ELSE <<>>,
                               !.rpc = Given("rpc")]
               next == [cmd EXCEPT !.pc = "preflight", !.placement = p]
    <2>3. AutoUnfit(cmd) => p.layers = 0
        BY <1>0, <2>1 DEF RouteInv, Placed, WithNCpuMoe
    <2>4. \/ Fails
          \/ ~Given("audio") /\ cmd' = next
          \/ plan = "transcribe" /\ cmd' = [next EXCEPT !.heard = Append(@, plan)]
          \/ plan = "native" /\ cmd' = [next EXCEPT !.route = plan]
        BY <1>7, Zenon DEF Shape
    <2>5. CASE Fails
        BY <2>1, <2>5, <1>f
    <2>6. CASE ~Fails
        <3> HIDE DEF plan, p
        <3>1. /\ DOMAIN cmd' = CmdFields /\ cmd'.pc = "preflight" /\ cmd'.a = cmd.a /\ cmd'.w = cmd.w
              /\ cmd'.via = cmd.via /\ cmd'.verdict = cmd.verdict /\ cmd'.placement = p
              /\ \/ ~Given("audio")
                 \/ cmd'.heard = Append(cmd.heard, plan) /\ cmd'.route = cmd.route
                 \/ cmd'.heard = cmd.heard /\ cmd'.route = "native"
            BY <1>0, <2>4, <2>6 DEF CmdFields
        <3>2. RouteInv(cmd')
            BY <1>0, <2>1, <2>3, <3>1 DEF RouteInv, AutoUnfit, Unfit, Placing
        <3>3. AudioInv(cmd')
            <4>1. Len(Append(cmd.heard, plan)) = 1
                BY <2>1
            <4> QED
                BY <2>1, <3>1, <4>1 DEF AudioInv, Unplaced, Given
        <3> QED
            BY <3>1, <3>2, <3>3 DEF RunInv
    <2> QED
        BY <2>5, <2>6
<1>8. CASE Preflight
    <2>1. cmd.pc = "preflight"
        BY <1>8 DEF Preflight, At
    <2>2. CASE Fails
        BY <2>1, <2>2, <1>f
    <2>3. CASE ~Fails
        <3>1. /\ DOMAIN cmd' = CmdFields /\ cmd'.pc \in {"failed", "load"} /\ cmd'.a = cmd.a /\ cmd'.w = cmd.w
              /\ cmd'.via = cmd.via /\ cmd'.verdict = cmd.verdict /\ cmd'.placement = cmd.placement
              /\ cmd'.heard = cmd.heard /\ cmd'.route = cmd.route
            BY <1>0, <1>8, <2>3 DEF Preflight, CmdFields
        <3> QED
            BY <1>0, <2>1, <3>1 DEF RunInv, RouteInv, AudioInv, AutoUnfit, Unfit, Placing, Unplaced
    <2> QED
        BY <2>2, <2>3
<1>9. CASE Load
    <2>1. cmd.pc = "load"
        BY <1>9 DEF Load, At
    <2>2. CASE Fails
        BY <2>1, <2>2, <1>f
    <2>3. CASE ~Fails
        <3> DEFINE c == [ctx |-> cmd.a.ctx, threads |-> cmd.threads, loras |-> cmd.loras,
                         kv |-> <<Or(cmd.a["kv_k"], cmd.a["kv"]), Or(cmd.a["kv_v"], cmd.a["kv"])>>]
                   native == cmd.route = "native"
                   Next2(l) == [cmd EXCEPT !.pc = "generate", !.placement = l.placement, !.context = l.context]
        <3>1. PICK m \in LoadOutcomes(cmd.a.model, RunKind[cmd.a.model], cmd.placement, c) :
                /\ m # Failed
                /\ \E l \in AttachOutcomes(m, Given("no_prompt_cache"), Given("prompt_cache")) :
                     /\ l # Failed
                     /\ \/ ~native /\ cmd' = Next2(l)
                        \/ native /\ cmd' = [Next2(l) EXCEPT !.heard = Append(@, "native")]
                        \/ native /\ cmd' = [Next2(l) EXCEPT !.heard = Append(@, "transcribe")]
            BY <1>9, <2>3, Zenon DEF Load
        <3>2. PICK l \in AttachOutcomes(m, Given("no_prompt_cache"), Given("prompt_cache")) :
                     /\ l # Failed
                     /\ \/ ~native /\ cmd' = Next2(l)
                        \/ native /\ cmd' = [Next2(l) EXCEPT !.heard = Append(@, "native")]
                        \/ native /\ cmd' = [Next2(l) EXCEPT !.heard = Append(@, "transcribe")]
            BY <3>1
        <3>3. m = Loaded(cmd.a.model, cmd.placement, c)
            BY <3>1 DEF LoadOutcomes
        <3>4. l.placement = cmd.placement
            <4>1. l = m \/ l = [m EXCEPT !.cache = TRUE]
                BY <3>2 DEF AttachOutcomes
            <4> QED
                BY <3>3, <4>1 DEF Loaded
        <3>5. /\ DOMAIN cmd' = CmdFields /\ cmd'.pc = "generate" /\ cmd'.a = cmd.a /\ cmd'.w = cmd.w
              /\ cmd'.via = cmd.via /\ cmd'.verdict = cmd.verdict /\ cmd'.placement = cmd.placement
              /\ \/ cmd.route # "native" /\ cmd'.heard = cmd.heard
                 \/ cmd.route = "native" /\ cmd'.heard = Append(cmd.heard, "native")
                 \/ cmd.route = "native" /\ cmd'.heard = Append(cmd.heard, "transcribe")
            BY <1>0, <3>2, <3>4 DEF CmdFields
        <3>6. RouteInv(cmd')
            BY <1>0, <2>1, <3>5 DEF RouteInv, AutoUnfit, Unfit, Placing
        <3>7. AudioInv(cmd')
            <4>1. cmd.heard = <<>> => /\ Len(Append(cmd.heard, "native")) = 1
                                      /\ Len(Append(cmd.heard, "transcribe")) = 1
                OBVIOUS
            <4> QED
                BY <1>0, <2>1, <3>5, <4>1 DEF AudioInv, Unplaced
        <3> QED
            BY <3>5, <3>6, <3>7 DEF RunInv
    <2> QED
        BY <2>2, <2>3
<1>10. CASE Generate
    <2>1. cmd.pc = "generate" /\ (Fails \/ cmd' = [cmd EXCEPT !.pc = "done", !.via = "local"])
        BY <1>10 DEF Generate, At
    <2>2. CASE Fails
        BY <2>1, <2>2, <1>f
    <2>3. CASE ~Fails
        <3>1. /\ DOMAIN cmd' = CmdFields /\ cmd'.pc = "done" /\ cmd'.a = cmd.a /\ cmd'.w = cmd.w
              /\ cmd'.via = "local" /\ cmd'.heard = cmd.heard
            BY <1>0, <2>1, <2>3 DEF CmdFields
        <3> QED
            BY <1>0, <2>1, <3>1 DEF RunInv, RouteInv, AudioInv, Placing, Unplaced
    <2> QED
        BY <2>2, <2>3
<1> QED
    BY <1>1, <1>2, <1>3, <1>4, <1>5, <1>6, <1>7, <1>8, <1>9, <1>10 DEF RunStep

\* The invariant holds of every run.
LEMMA RunAlways == Spec => []RunInv
<1>1. CliInit => RunInv
    BY DEF CliInit, RunInv
<1>2. RunInv /\ [Next]_cliVars => RunInv'
    <2> SUFFICES ASSUME RunInv, [Next]_cliVars PROVE RunInv'
        OBVIOUS
    <2>1. CASE UNCHANGED cmd
        BY <2>1 DEF RunInv
    <2>2. CASE StartRun
        <3>1. PICK i \in Invocations :
                LET inline == \E n \in DOMAIN ConfigFiles(i.w) : ConfigFiles(i.w)[n].exists /\ ConfigFiles(i.w)[n].secret
                IN  cmd' = [Command(i.a, i.w) EXCEPT !.pc = IF inline THEN "failed" ELSE @]
            BY <2>2 DEF StartRun
        <3>2. PICK pc \in {"start", "failed"} : cmd' = [Command(i.a, i.w) EXCEPT !.pc = pc]
            BY <3>1 DEF Command
        <3> QED
            BY <3>2, CommandStarts DEF RunInv
    <2>3. CASE cmd # None /\ RunStep
        BY <2>3, RunStepKeeps
    <2> QED
        BY <2>1, <2>2, <2>3 DEF Next, Recommend, StartSession, cliVars
<1> QED
    BY <1>1, <1>2, PTL DEF Spec

\* D12, on_unfit, for every command line, machine and configuration: a prompt
\* leaves the machine only for a cloud reference or by on_unfit = cloud, and an
\* automatic placement of what does not fit is on the CPU and was asked for.
THEOREM OnUnfitAlways == Spec => []OnUnfitObeyed
<1>1. RunInv => OnUnfitObeyed
    <2>1. cmd # None /\ AutoUnfit(cmd) /\ cmd.pc = "shape" => cmd.placement.layers = 0 \/ ~RouteInv(cmd)
        BY DEF RouteInv, Placed
    <2> QED
        BY <2>1 DEF RunInv, RouteInv, OnUnfitObeyed, AutoUnfit, Unfit, Placing
<1> QED
    BY <1>1, RunAlways, PTL

\* The audio of a run that ends well reached the model once, whichever engine
\* ran it and whichever way it took there.
THEOREM AudioOnce == Spec => []AudioHeardOnce
<1>1. RunInv => AudioHeardOnce
    BY DEF RunInv, AudioInv, AudioHeardOnce, Given
<1> QED
    BY <1>1, RunAlways, PTL

-----------------------------------------------------------------------------
(* runa chat: the engine.                                                  *)

SessionFields == {"ui", "path", "backend", "mode", "threads", "history", "think", "hub", "loras", "rpc", "armed"}
ModelFields == {"path", "placement", "config", "context", "split", "cache"}

\* A model that serves the session s.  The configuration is the one that a new
\* context is made from.
Serves(m, s) ==
    /\ DOMAIN m = ModelFields
    /\ m.path = s.path
    /\ KindOf[s.path] = "gguf" =>
          /\ m.placement = SessionPlacement(s)
          /\ m.config = ChatConfig(s)
          /\ m.context = Context(ChatConfig(s))

EngineInv ==
    chat \in {"prompt", "turn"} =>
        /\ DOMAIN session = SessionFields
        /\ DOMAIN engine = {"where", "model"} /\ engine.where \in {"local", "managed", "daemon"}
        /\ engine.where # "daemon" => Serves(engine.model, session)

\* What loading can give: nothing, or a model for the session.
LEMMA LocalServes ==
    ASSUME NEW s, NEW m \in LoadLocal(s), m # Failed
    PROVE  Serves(m, s)
<1>1. PICK l \in LoadOutcomes(s.path, KindOf[s.path], SessionPlacement(s), ChatConfig(s)) :
        m \in IF l = Failed THEN {l} ELSE AttachOutcomes(l, FALSE, FALSE)
    BY DEF LoadLocal
<1>2. l = Loaded(s.path, SessionPlacement(s), ChatConfig(s))
    BY <1>1 DEF LoadOutcomes
<1>3. m = l \/ m = [l EXCEPT !.cache = TRUE]
    BY <1>1 DEF AttachOutcomes
<1> QED
    BY <1>2, <1>3 DEF Serves, Loaded, ModelFields

\* The same of a model of mistral.rs.
LEMMA MistralServes ==
    ASSUME NEW s, Backend(s.backend, KindOf[s.path]) = "mistral"
    PROVE  Serves(Mistral(s), s)
<1>1. KindOf[s.path] # "gguf"
    BY DEF Backend
<1> QED
    BY <1>1 DEF Serves, Mistral, ModelFields

\* The same of a managed load.
LEMMA ManagedServes ==
    ASSUME NEW s, NEW m \in LoadManaged(s), m # Failed
    PROVE  Serves(m, s)
<1>1. CASE Backend(s.backend, KindOf[s.path]) = "gguf"
    BY <1>1, LocalServes DEF LoadManaged
<1>2. CASE Backend(s.backend, KindOf[s.path]) = "mistral"
    BY <1>2, MistralServes DEF LoadManaged
<1>3. CASE Backend(s.backend, KindOf[s.path]) \notin {"gguf", "mistral"}
    BY <1>3 DEF LoadManaged
<1> QED
    BY <1>1, <1>2, <1>3

\* A load that succeeds serves the session it was made for, and one that fails
\* leaves none.
LEMMA ServeStep ==
    ASSUME NEW s, DOMAIN s = SessionFields, NEW where \in {"local", "managed", "daemon"}, NEW models, Serve(s, where, models),
           where = "daemon" \/ \A m \in models \ {Failed} : Serves(m, s)
    PROVE  EngineInv'
<1>1. PICK m \in models :
        \/ EndChat
        \/ m # Failed /\ chat' = "prompt" /\ session' = s /\ engine' = [where |-> where, model |-> m]
    BY DEF Serve
<1>2. CASE EndChat
    BY <1>2 DEF EndChat, EngineInv
<1>3. CASE m # Failed /\ chat' = "prompt" /\ session' = s /\ engine' = [where |-> where, model |-> m]
    <2>1. engine'.where = where /\ engine'.model = m /\ DOMAIN engine' = {"where", "model"}
        BY <1>3
    <2> QED
        BY <1>3, <2>1 DEF EngineInv
<1> QED
    BY <1>1, <1>2, <1>3

\* The same of the load that a session starts with.
LEMMA StartServes ==
    ASSUME NEW f, NEW up, StartChat(f, up)
    PROVE  EngineInv'
<1> DEFINE kind == Backend(f.backend, KindOf[f.path])
           mcp == f.mcp \/ f.mcpConfig
           s == [ui |-> f.ui, path |-> f.path, backend |-> f.backend, mode |-> f.mode, threads |-> f.threads,
                 history |-> <<>>, think |-> f.think, hub |-> mcp, loras |-> f.loras, rpc |-> f.rpc,
                 armed |-> FALSE]
           daemons == {None} \cup (IF mcp THEN {Failed} ELSE {})
<1>1. DOMAIN s = SessionFields /\ s.path = f.path /\ s.backend = f.backend
    BY DEF SessionFields
<1>2. \/ EndChat
      \/ kind = "mistral" /\ Serve(s, "managed", {Mistral(s), Failed})
      \/ Serve(s, "daemon", daemons)
      \/ Serve(s, "local", LoadLocal(s))
    BY Zenon DEF StartChat
<1> HIDE DEF s, daemons
<1>3. CASE EndChat
    BY <1>3 DEF EndChat, EngineInv
<1>4. CASE kind = "mistral" /\ Serve(s, "managed", {Mistral(s), Failed})
    <2>1. Serves(Mistral(s), s)
        BY <1>1, <1>4, MistralServes
    <2> QED
        BY <1>1, <1>4, <2>1, ServeStep
<1>5. CASE Serve(s, "daemon", daemons)
    BY <1>1, <1>5, ServeStep
<1>6. CASE Serve(s, "local", LoadLocal(s))
    BY <1>1, <1>6, ServeStep, LocalServes
<1> QED
    BY <1>2, <1>3, <1>4, <1>5, <1>6

\* A step of a session that leaves the engine and what it was made from.
LEMMA SameEngine ==
    ASSUME EngineInv, chat \in {"prompt", "turn"}, engine' = engine, DOMAIN session' = SessionFields,
           session'.path = session.path, session'.mode = session.mode, session'.rpc = session.rpc,
           session'.threads = session.threads, session'.loras = session.loras
    PROVE  EngineInv'
<1>1. SessionPlacement(session') = SessionPlacement(session) /\ ChatConfig(session') = ChatConfig(session)
    BY DEF SessionPlacement, ChatConfig
<1> QED
    BY <1>1 DEF EngineInv, Serves

\* The same of a reload.
LEMMA ReloadServes ==
    ASSUME EngineInv, chat = "prompt", NEW s, DOMAIN s = SessionFields, Reload(s)
    PROVE  EngineInv'
<1>1. CASE Serve(s, "local", LoadLocal(s))
    BY <1>1, ServeStep, LocalServes
<1>2. CASE Serve(s, "managed", LoadManaged(s))
    BY <1>2, ServeStep, ManagedServes
<1>3. CASE engine.where \notin {"local", "managed"} /\ session' = s /\ UNCHANGED <<chat, engine>>
    BY <1>3 DEF EngineInv
<1> QED
    BY <1>1, <1>2, <1>3 DEF Reload

\* The commands.
LEMMA SlashServes ==
    ASSUME EngineInv, NEW line, Slash(line)
    PROVE  EngineInv'
<1>0. /\ chat = "prompt" /\ DOMAIN session = SessionFields /\ DOMAIN engine = {"where", "model"}
      /\ engine.where # "daemon" => Serves(engine.model, session)
    BY DEF Slash, Enters, EngineInv
<1>e. ASSUME EndChat PROVE EngineInv'
    BY <1>e DEF EndChat, EngineInv
<1>u. ASSUME UNCHANGED <<chat, session, engine>> PROVE EngineInv'
    BY <1>0, <1>u, SameEngine
<1>b. ASSUME BadArgument PROVE EngineInv'
    BY <1>b, <1>e, <1>u DEF BadArgument
<1>1. ASSUME NEW arg, ModeCommand(arg) PROVE EngineInv'
    <2> DEFINE s == [session EXCEPT !.mode = arg]
    <2>1. DOMAIN s = SessionFields
        BY <1>0
    <2>2. UNCHANGED <<chat, session, engine>> \/ BadArgument \/ Reload(s)
        BY <1>1 DEF ModeCommand
    <2> HIDE DEF s
    <2> QED
        BY <1>0, <1>u, <1>b, <2>1, <2>2, ReloadServes
<1>2. ASSUME NEW arg, ModelCommand(arg) PROVE EngineInv'
    <2> DEFINE s == [session EXCEPT !.path = arg, !.history = <<>>]
    <2>1. DOMAIN s = SessionFields
        BY <1>0
    <2>2. BadArgument \/ Reload(s)
        BY <1>2 DEF ModelCommand
    <2> HIDE DEF s
    <2> QED
        BY <1>0, <1>b, <2>1, <2>2, ReloadServes
<1>3. ASSUME NEW words, ThinkCommand(words) PROVE EngineInv'
    <2> DEFINE next == Overlay(session.think, FromSlashArgs(words))
    <2>1. BadArgument \/ (session' = [session EXCEPT !.think = next] /\ UNCHANGED <<chat, engine>>)
        BY <1>3 DEF ThinkCommand
    <2> HIDE DEF next
    <2>2. ASSUME session' = [session EXCEPT !.think = next], UNCHANGED <<chat, engine>> PROVE EngineInv'
        <3>1. /\ DOMAIN session' = SessionFields /\ session'.path = session.path /\ session'.mode = session.mode
              /\ session'.rpc = session.rpc /\ session'.threads = session.threads /\ session'.loras = session.loras
            BY <1>0, <2>2 DEF SessionFields
        <3> QED
            BY <1>0, <2>2, <3>1, SameEngine
    <2> QED
        BY <1>b, <2>1, <2>2
<1>4. ASSUME ResetCommand PROVE EngineInv'
    <2> DEFINE loaded == engine.where # "daemon" /\ KindOf[engine.model.path] = "gguf"
    <2>1. \/ EndChat
          \/ /\ session' = [session EXCEPT !.history = <<>>]
             /\ engine' = IF loaded THEN [engine EXCEPT !.model = ResetContext(@)] ELSE engine
             /\ UNCHANGED chat
        BY <1>4 DEF ResetCommand
    <2>2. ASSUME session' = [session EXCEPT !.history = <<>>] 
          PROVE /\ DOMAIN session' = SessionFields /\ session'.path = session.path /\ session'.mode = session.mode
                /\ session'.rpc = session.rpc /\ session'.threads = session.threads /\ session'.loras = session.loras
        BY <1>0, <2>2 DEF SessionFields
    <2>3. CASE EndChat
        BY <1>e, <2>3
    <2>4. CASE ~EndChat /\ ~loaded
        BY <1>0, <2>1, <2>2, <2>4, SameEngine
    <2>5. CASE ~EndChat /\ loaded
        <3>1. engine' = [engine EXCEPT !.model = ResetContext(@)] /\ session' = [session EXCEPT !.history = <<>>]
              /\ chat' = chat
            BY <2>1, <2>5
        <3>2. DOMAIN engine' = {"where", "model"} /\ engine'.where = engine.where
              /\ engine'.model = ResetContext(engine.model)
            BY <1>0, <3>1
        <3>3. SessionPlacement(session') = SessionPlacement(session) /\ ChatConfig(session') = ChatConfig(session)
            BY <2>2, <3>1 DEF SessionPlacement, ChatConfig
        <3>4. Serves(engine.model, session) /\ KindOf[session.path] = "gguf"
            BY <1>0, <2>5 DEF Serves
        <3>5. /\ DOMAIN ResetContext(engine.model) = ModelFields
              /\ ResetContext(engine.model).path = engine.model.path
              /\ ResetContext(engine.model).placement = engine.model.placement
              /\ ResetContext(engine.model).config = engine.model.config
              /\ ResetContext(engine.model).context = Context(engine.model.config)
            BY <3>4 DEF ResetContext, Serves, ModelFields
        <3>6. Serves(engine'.model, session')
            BY <2>2, <3>1, <3>2, <3>3, <3>4, <3>5 DEF Serves
        <3> QED
            BY <1>0, <2>2, <3>1, <3>2, <3>6 DEF EngineInv
    <2> QED
        BY <2>3, <2>4, <2>5
<1> QED
    BY <1>1, <1>2, <1>3, <1>4, <1>e, <1>u DEF Slash

\* Every step of a session keeps the engine in line with it.
LEMMA EngineStep ==
    ASSUME EngineInv, ChatNext
    PROVE  EngineInv'
<1>e. ASSUME chat = "turn", NEW h, NEW shown, NEW ok, EndTurn(h, shown, ok) PROVE EngineInv'
    <2>1. DOMAIN session = SessionFields
        BY <1>e DEF EngineInv
    <2>2. /\ DOMAIN session' = SessionFields /\ session'.path = session.path /\ session'.mode = session.mode
          /\ session'.rpc = session.rpc /\ session'.threads = session.threads /\ session'.loras = session.loras
        BY <1>e, <2>1 DEF EndTurn, SessionFields
    <2> QED
        BY <1>e, <2>2, SameEngine DEF EndTurn
<1>u. ASSUME UNCHANGED <<chat, session, engine>> PROVE EngineInv'
    BY <1>u DEF EngineInv, Serves
<1>1. ASSUME NEW r \in Replies, chat = "turn", NEW answer, NEW said, Round(r, answer, said) PROVE EngineInv'
    BY <1>1, <1>e, <1>u DEF Round
<1>2. ASSUME NEW r \in Replies, DaemonTurn(r) PROVE EngineInv'
    BY <1>2, <1>e DEF DaemonTurn
<1>3. CASE Submit
    <2> DEFINE h == Trim(engine, Append(session.history, Msg("user", <<<<inputs + 1, 0>>>>, <<>>, None)))
    <2>1. chat = "prompt" /\ DOMAIN session = SessionFields /\ engine' = engine
          /\ session' = [session EXCEPT !.history = h, !.armed = FALSE]
        BY <1>3 DEF Submit, Enters, EngineInv
    <2> HIDE DEF h
    <2>2. /\ DOMAIN session' = SessionFields /\ session'.path = session.path /\ session'.mode = session.mode
          /\ session'.rpc = session.rpc /\ session'.threads = session.threads /\ session'.loras = session.loras
        BY <2>1 DEF SessionFields
    <2> QED
        BY <2>1, <2>2, SameEngine
<1>4. CASE (\E r \in Replies : RoundFails(r)) \/ DaemonFails
    BY <1>4, <1>e DEF RoundFails, DaemonFails
<1>5. ASSUME NEW line \in Lines, Slash(line) PROVE EngineInv'
    BY <1>5, SlashServes
<1>6. ASSUME NEW k \in {"ctrl_c", "ctrl_d", "other"}, Key(k) PROVE EngineInv'
    <2>1. chat = "prompt" /\ DOMAIN session = SessionFields
        BY <1>6 DEF Key, EngineInv
    <2>2. EndChat \/ (session' = [session EXCEPT !.armed = (k = "ctrl_c")] /\ UNCHANGED <<chat, engine>>)
        BY <1>6 DEF Key
    <2>3. CASE EndChat
        BY <2>3 DEF EndChat, EngineInv
    <2>4. CASE ~EndChat
        <3>1. /\ DOMAIN session' = SessionFields /\ session'.path = session.path /\ session'.mode = session.mode
              /\ session'.rpc = session.rpc /\ session'.threads = session.threads /\ session'.loras = session.loras
            BY <2>1, <2>2, <2>4 DEF SessionFields
        <3> QED
            BY <2>1, <2>2, <2>4, <3>1, SameEngine
    <2> QED
        BY <2>3, <2>4
<1> QED
    BY <1>1, <1>2, <1>3, <1>4, <1>5, <1>6 DEF ChatNext, ReplRound, TuiRound

\* EngineInv holds throughout.
LEMMA EngineAlways == Spec => []EngineInv
<1>1. CliInit => EngineInv
    BY DEF CliInit, ChatInit, EngineInv
<1>2. EngineInv /\ [Next]_cliVars => EngineInv'
    <2> SUFFICES ASSUME EngineInv, [Next]_cliVars PROVE EngineInv'
        OBVIOUS
    <2>1. CASE UNCHANGED chatVars
        BY <2>1 DEF chatVars, EngineInv, Serves
    <2>2. CASE StartSession
        BY <2>2, StartServes DEF StartSession
    <2>3. CASE ChatNext
        BY <2>3, EngineStep
    <2> QED
        BY <2>1, <2>2, <2>3 DEF Next, StartRun, Recommend, cliVars
<1> QED
    BY <1>1, <1>2, PTL DEF Spec

\* The engine that answers is the one the session describes, after any sequence
\* of commands, reloads and failures, on any machine and for any set of models.
THEOREM EngineFollowsSession == Spec => []EngineAsAsked
<1>1. EngineInv => EngineAsAsked
    BY DEF EngineInv, EngineAsAsked, Serves
<1> QED
    BY <1>1, EngineAlways, PTL

-----------------------------------------------------------------------------
(* runa chat: the history.                                                 *)

Piece == Seq(Int)
Message == [role : {"user", "assistant", "tool"}, content : Seq(Piece), calls : Seq(Piece), id : Piece \cup {None}]
History == Seq(Message)

\* The parts of a message, and of a history.
LEMMA MessageParts ==
    /\ \A m \in Message : m.role \in {"user", "assistant", "tool"} /\ m.calls \in Seq(Piece)
    /\ \A m \in Message : DOMAIN m.calls = 1..Len(m.calls) /\ Len(m.calls) \in Nat
    /\ \A h \in History : DOMAIN h = 1..Len(h) /\ Len(h) \in Nat /\ \A i \in 1..Len(h) : h[i] \in Message
<1>1. \A m \in Message : m.role \in {"user", "assistant", "tool"} /\ m.calls \in Seq(Piece)
    BY DEF Message
<1>2. \A s \in Seq(Piece) : DOMAIN s = 1..Len(s) /\ Len(s) \in Nat
    OBVIOUS
<1>3. \A h \in History : DOMAIN h = 1..Len(h) /\ Len(h) \in Nat /\ \A i \in 1..Len(h) : h[i] \in Message
    BY DEF History
<1> QED
    BY <1>1, <1>2, <1>3

\* A message that neither calls nor answers a call ends a history.
LEMMA WholeAppend ==
    ASSUME NEW h \in History, WholeTurns(h), NEW m \in Message, m.calls = <<>>, m.role # "tool",
           h # <<>> \/ m.role = "user"
    PROVE  Append(h, m) \in History /\ WholeTurns(Append(h, m))
<1> DEFINE g == Append(h, m)
<1>1. /\ g \in History /\ Len(g) = Len(h) + 1 /\ g[Len(h) + 1] = m /\ Len(h) \in Nat
      /\ \A i \in 1..Len(h) : g[i] = h[i]
      /\ DOMAIN g = 1..Len(h) + 1 /\ DOMAIN h = 1..Len(h)
    BY DEF History
<1>2. g[1].role = "user"
    <2>1. CASE h = <<>>
        BY <1>1, <2>1
    <2>2. CASE h # <<>>
        <3>1. 1 \in 1..Len(h)
            BY <2>2 DEF History
        <3> QED
            BY <1>1, <2>2, <3>1 DEF WholeTurns
    <2> QED
        BY <2>1, <2>2
<1> HIDE DEF g
<1>3. ASSUME NEW i \in DOMAIN g, NEW j \in DOMAIN g[i].calls
      PROVE  i + j <= Len(g) /\ g[i + j].role = "tool" /\ g[i + j].id = g[i].calls[j]
    <2>1. i # Len(h) + 1
        BY <1>1, <1>3
    <2>2. i \in 1..Len(h) /\ g[i] = h[i]
        BY <1>1, <2>1
    <2>3. i + j <= Len(h) /\ h[i + j].role = "tool" /\ h[i + j].id = h[i].calls[j]
        BY <1>1, <1>3, <2>2 DEF WholeTurns
    <2>4. j \in Nat \ {0}
        BY <1>3, <2>2, MessageParts
    <2> QED
        BY <1>1, <2>2, <2>3, <2>4
<1>4. ASSUME NEW i \in DOMAIN g, g[i].role = "tool"
      PROVE  \E k \in 1..i - 1 : i - k \in DOMAIN g[k].calls
    <2>1. i \in 1..Len(h) /\ h[i].role = "tool"
        BY <1>1, <1>4
    <2>2. PICK k \in 1..i - 1 : i - k \in DOMAIN h[k].calls
        BY <1>1, <2>1 DEF WholeTurns
    <2> QED
        BY <1>1, <2>1, <2>2
<1> QED
    BY <1>1, <1>2, <1>3, <1>4 DEF WholeTurns, g

\* A history that is cut at a user message is whole: the results of a call are
\* right behind it, so no user message stands between the two.
LEMMA WholeSuffix ==
    ASSUME NEW h \in History, WholeTurns(h), NEW c \in 1..Len(h), h[c].role = "user"
    PROVE  LET g == SubSeq(h, c, Len(h)) IN g \in History /\ g # <<>> /\ WholeTurns(g)
<1> DEFINE g == SubSeq(h, c, Len(h))
<1>1. /\ g \in History /\ Len(g) = Len(h) - c + 1 /\ Len(h) \in Nat
      /\ DOMAIN g = 1..Len(h) - c + 1 /\ DOMAIN h = 1..Len(h)
      /\ \A i \in 1..Len(h) - c + 1 : g[i] = h[c - 1 + i]
    BY SubSeqProperties DEF History
<1> HIDE DEF g
<1>2. g # <<>> /\ g[1].role = "user"
    <2>1. 1 \in 1..Len(h) - c + 1 /\ c - 1 + 1 = c
        BY <1>1
    <2>2. g[1] = h[c] /\ 1 \in DOMAIN g
        BY <1>1, <2>1
    <2>3. \A s : s = <<>> => DOMAIN s = 1..0
        OBVIOUS
    <2> QED
        BY <2>2, <2>3
<1>3. ASSUME NEW i \in DOMAIN g, NEW j \in DOMAIN g[i].calls
      PROVE  i + j <= Len(g) /\ g[i + j].role = "tool" /\ g[i + j].id = g[i].calls[j]
    <2>1. c - 1 + i \in 1..Len(h) /\ g[i] = h[c - 1 + i]
        BY <1>1
    <2>2. j \in Nat \ {0}
        BY <1>3, <2>1, MessageParts
    <2>3. /\ c - 1 + i + j <= Len(h) /\ h[c - 1 + i + j].role = "tool"
          /\ h[c - 1 + i + j].id = h[c - 1 + i].calls[j]
        BY <1>1, <1>3, <2>1 DEF WholeTurns
    <2>4. i + j \in 1..Len(h) - c + 1 /\ g[i + j] = h[c - 1 + (i + j)]
        BY <1>1, <2>2, <2>3
    <2>5. i + j <= Len(g) /\ c - 1 + (i + j) = c - 1 + i + j
        BY <1>1, <2>2, <2>4
    <2>6. g[i + j] = h[c - 1 + i + j]
        BY <2>4, <2>5, Zenon
    <2> QED
        BY <2>1, <2>3, <2>5, <2>6, Zenon
<1>4. ASSUME NEW i \in DOMAIN g, g[i].role = "tool"
      PROVE  \E k \in 1..i - 1 : i - k \in DOMAIN g[k].calls
    <2>1. c - 1 + i \in 1..Len(h) /\ h[c - 1 + i].role = "tool"
        BY <1>1, <1>4
    <2>2. PICK k \in 1..(c - 1 + i) - 1 : (c - 1 + i) - k \in DOMAIN h[k].calls
        BY <1>1, <2>1 DEF WholeTurns
    <2>3. k >= c
        <3> SUFFICES ASSUME k < c PROVE FALSE
            BY <2>2
        <3>1. k \in 1..Len(h) /\ DOMAIN h[k].calls = 1..Len(h[k].calls) /\ Len(h[k].calls) \in Nat
            BY <2>1, <2>2, MessageParts
        <3>2. c - k \in DOMAIN h[k].calls
            BY <1>1, <2>2, <3>1
        <3>3. h[k + (c - k)].role = "tool"
            BY <1>1, <3>1, <3>2 DEF WholeTurns
        <3> QED
            BY <3>1, <3>3
    <2>4. k - c + 1 \in 1..i - 1 /\ g[k - c + 1] = h[c - 1 + (k - c + 1)] /\ i - (k - c + 1) = (c - 1 + i) - k
        BY <1>1, <2>2, <2>3
    <2>5. c - 1 + (k - c + 1) = k
        BY <2>2
    <2> QED
        BY <2>2, <2>4, <2>5
<1> QED
    BY <1>1, <1>2, <1>3, <1>4 DEF WholeTurns, g

\* The result messages.
LEMMA ResultMessages ==
    ASSUME NEW h \in History, NEW results \in Seq(Piece)
    PROVE  /\ PushResults(h, results) \in History
           /\ Len(PushResults(h, results)) = Len(h) + Len(results)
           /\ \A i \in 1..Len(h) : PushResults(h, results)[i] = h[i]
           /\ \A j \in 1..Len(results) : PushResults(h, results)[Len(h) + j] = Msg("tool", <<>>, <<>>, results[j])
           /\ results = <<>> => PushResults(h, results) = h
           /\ h # <<>> => PushResults(h, results) # <<>>
<1> DEFINE r == [i \in DOMAIN results |-> Msg("tool", <<>>, <<>>, results[i])]
<1>1. \A x \in Piece : Msg("tool", <<>>, <<>>, x) \in Message
    BY DEF Msg, Message
<1>2. r \in History /\ Len(r) = Len(results) /\ \A j \in 1..Len(results) : r[j] = Msg("tool", <<>>, <<>>, results[j])
    BY <1>1 DEF History
<1>3. results = <<>> => r = <<>>
    BY <1>2 DEF History
<1> HIDE DEF r
<1>4. /\ h \o r \in History /\ Len(h \o r) = Len(h) + Len(r)
      /\ \A i \in 1..Len(h) : (h \o r)[i] = h[i]
      /\ \A j \in 1..Len(r) : (h \o r)[Len(h) + j] = r[j]
    <2>1. h \in Seq(Message) /\ r \in Seq(Message) /\ Len(h) \in Nat /\ Len(r) \in Nat
        BY <1>2 DEF History
    <2>2. /\ h \o r \in Seq(Message) /\ Len(h \o r) = Len(h) + Len(r)
          /\ \A i \in 1..Len(h) + Len(r) : (h \o r)[i] = IF i <= Len(h) THEN h[i] ELSE r[i - Len(h)]
        BY <2>1, ConcatProperties
    <2>3. ASSUME NEW j \in 1..Len(r) PROVE (h \o r)[Len(h) + j] = r[j]
        <3>1. Len(h) + j \in 1..Len(h) + Len(r) /\ ~(Len(h) + j <= Len(h)) /\ (Len(h) + j) - Len(h) = j
            BY <2>1
        <3> QED
            BY <2>2, <3>1
    <2>4. \A i \in 1..Len(h) : i \in 1..Len(h) + Len(r) /\ i <= Len(h)
        BY <2>1
    <2>5. \A i \in 1..Len(h) : (h \o r)[i] = h[i]
        BY <2>2, <2>4
    <2> QED
        BY <2>2, <2>3, <2>5 DEF History
<1>5. r = <<>> => h \o r = h
    BY ConcatEmptySeq DEF History
<1>6. PushResults(h, results) = h \o r
    BY DEF PushResults, r
<1>7. h # <<>> => h \o r # <<>>
    BY <1>2, ConcatEqualIffEmpty DEF History
<1> QED
    BY <1>2, <1>3, <1>4, <1>5, <1>6, <1>7

\* Calls and their results end a history.
LEMMA WholeCalls ==
    ASSUME NEW h \in History, h # <<>>, WholeTurns(h), NEW m \in Message, m.role = "assistant"
    PROVE  /\ Append(h, m) \in History /\ Append(h, m) # <<>>
           /\ WholeTurns(PushResults(Append(h, m), m.calls))
<1> DEFINE calls == m.calls
           n == Len(h) + 1
           g == PushResults(Append(h, m), calls)
<1>1. /\ Append(h, m) \in History /\ Len(Append(h, m)) = n /\ Append(h, m)[n] = m /\ n \in Nat \ {0, 1}
      /\ \A i \in 1..n - 1 : Append(h, m)[i] = h[i]
      /\ Append(h, m) # <<>>
      /\ DOMAIN h = 1..n - 1
    BY DEF History
<1>2. calls \in Seq(Piece) /\ DOMAIN calls = 1..Len(calls) /\ Len(calls) \in Nat
    BY MessageParts
<1> HIDE DEF g, n, calls
<1>3. /\ g \in History /\ Len(g) = n + Len(calls)
      /\ \A i \in 1..n : g[i] = Append(h, m)[i]
      /\ \A j \in 1..Len(calls) : g[n + j] = Msg("tool", <<>>, <<>>, calls[j])
    BY <1>1, <1>2, ResultMessages DEF g
<1>4. /\ DOMAIN g = 1..n + Len(calls) /\ g[n] = m
      /\ \A i \in 1..n - 1 : g[i] = h[i]
    <2>1. DOMAIN g = 1..Len(g)
        BY <1>3, MessageParts
    <2>2. n \in 1..n /\ \A i \in 1..n - 1 : i \in 1..n
        BY <1>1
    <2> QED
        BY <1>1, <1>3, <2>1, <2>2
<1>5. \A j \in 1..Len(calls) : g[n + j].role = "tool" /\ g[n + j].id = calls[j] /\ g[n + j].calls = <<>>
    <2>1. \A x : /\ Msg("tool", <<>>, <<>>, x).role = "tool" /\ Msg("tool", <<>>, <<>>, x).id = x
                 /\ Msg("tool", <<>>, <<>>, x).calls = <<>>
        BY DEF Msg
    <2> QED
        BY <1>3, <2>1
<1>6. g[1].role = "user"
    BY <1>1, <1>4 DEF WholeTurns
<1>7. ASSUME NEW i \in DOMAIN g, NEW j \in DOMAIN g[i].calls
      PROVE  i + j <= Len(g) /\ g[i + j].role = "tool" /\ g[i + j].id = g[i].calls[j]
    <2>1. CASE i = n
        <3>1. g[i].calls = calls /\ j \in 1..Len(calls)
            BY <1>2, <1>4, <1>7, <2>1 DEF calls
        <3> QED
            BY <1>1, <1>2, <1>3, <1>5, <2>1, <3>1
    <2>2. CASE i < n
        <3>1. i \in 1..n - 1 /\ g[i] = h[i]
            BY <1>1, <1>4, <2>2
        <3>2. i + j <= Len(h) /\ h[i + j].role = "tool" /\ h[i + j].id = h[i].calls[j]
            BY <1>1, <1>7, <3>1 DEF WholeTurns
        <3>3. j \in Nat \ {0}
            BY <1>1, <1>7, <3>1, MessageParts
        <3> QED
            BY <1>1, <1>2, <1>3, <1>4, <3>1, <3>2, <3>3 DEF n
    <2>3. CASE i > n
        <3>1. i - n \in 1..Len(calls) /\ n + (i - n) = i
            BY <1>1, <1>2, <1>4, <2>3
        <3>2. g[i].calls = <<>>
            BY <1>5, <3>1
        <3> QED
            BY <1>7, <3>2
    <2> QED
        BY <1>1, <1>4, <2>1, <2>2, <2>3
<1>8. ASSUME NEW i \in DOMAIN g, g[i].role = "tool"
      PROVE  \E k \in 1..i - 1 : i - k \in DOMAIN g[k].calls
    <2>1. i # n
        BY <1>4, <1>8
    <2>2. CASE i < n
        <3>1. i \in 1..n - 1 /\ h[i].role = "tool"
            BY <1>1, <1>4, <1>8, <2>2
        <3>2. PICK k \in 1..i - 1 : i - k \in DOMAIN h[k].calls
            BY <1>1, <3>1 DEF WholeTurns
        <3> QED
            BY <1>1, <1>4, <3>1, <3>2
    <2>3. CASE i > n
        <3>1. i - n \in DOMAIN g[n].calls /\ n \in 1..i - 1
            BY <1>1, <1>2, <1>4, <2>3 DEF calls
        <3> QED
            BY <3>1
    <2> QED
        BY <1>1, <1>4, <2>1, <2>2, <2>3
<1>9. g # <<>>
    BY <1>1, <1>2, <1>3
<1> QED
    BY <1>1, <1>6, <1>7, <1>8 DEF WholeTurns, g, calls

\* A set of naturals has a least element.
LEMMA NatMin == ASSUME NEW T \in SUBSET Nat, T # {} PROVE \E m \in T : \A n \in T : m <= n
<1>1. PICK m \in T : \A n \in T : ~(<<n, m>> \in OpToRel(<, Nat))
    BY NatLessThanWellFounded, WFMin
<1>2. \A n \in T : ~(n < m)
    BY <1>1 DEF OpToRel
<1> QED
    BY <1>2

\* What trim_history_with leaves of a history that ends with the new message.
LEMMA TrimWhole ==
    ASSUME NEW e, NEW h \in History, h # <<>>, WholeTurns(h), h[Len(h)].role = "user"
    PROVE  /\ Trim(e, h) \in History /\ Trim(e, h) # <<>> /\ WholeTurns(Trim(e, h))
           /\ HistoryTokens(e, Trim(e, h)) <= HistoryBudget \/ Len(Trim(e, h)) = 1
<1> DEFINE Good(c) == c = Len(h) \/ HistoryTokens(e, SubSeq(h, c, Len(h))) <= HistoryBudget
           S == {c \in Cuts(h) : Good(c)}
<1>1. Len(h) \in Nat \ {0} /\ Cuts(h) \subseteq 1..Len(h) /\ Len(h) \in Cuts(h)
    BY DEF History, Cuts
<1>2. S \in SUBSET Nat /\ Len(h) \in S
    BY <1>1
<1> HIDE DEF S
<1>3. PICK c \in S : c = Min(S)
    BY <1>2, NatMin DEF Min
<1>4. c \in 1..Len(h) /\ c \in Cuts(h) /\ Good(c)
    BY <1>1, <1>3 DEF S
<1>5. h[c].role = "user"
    BY <1>4 DEF Cuts, WholeTurns
<1>6. Trim(e, h) = SubSeq(h, c, Len(h))
    BY <1>3, Zenon DEF Trim, S
<1>7. c = Len(h) => Len(SubSeq(h, c, Len(h))) = 1
    BY <1>1, SubSeqProperties DEF History
<1> QED
    BY <1>4, <1>5, <1>6, <1>7, WholeSuffix

\* What is sent in a turn, with the results that go with the next request, is
\* whole; the daemon runs the tools itself, so it is sent no results.
TurnInv ==
    /\ turn.messages \in History /\ turn.messages # <<>>
    /\ turn.results \in Seq(Piece) /\ turn.answer \in Seq(Piece) /\ turn.round \in Nat
    /\ WholeTurns(PushResults(turn.messages, turn.results))
    /\ engine.where = "daemon" => turn.results = <<>>
    /\ turn.round = 0 => HistoryTokens(engine, turn.messages) <= HistoryBudget \/ Len(turn.messages) = 1

HistoryInv ==
    /\ inputs \in Nat
    /\ chat \in {"prompt", "turn"} => session.history \in History /\ WholeTurns(session.history)
    /\ chat = "turn" => TurnInv

\* No turn and no message.
LEMMA WholeEmpty == <<>> \in History /\ WholeTurns(<<>>)
BY DEF History, WholeTurns

\* A turn ends with a whole history.
LEMMA EndTurnWhole ==
    ASSUME EngineInv, HistoryInv, chat = "turn", NEW h \in History, WholeTurns(h), NEW shown, NEW ok, EndTurn(h, shown, ok)
    PROVE  HistoryInv'
<1>1. DOMAIN session = SessionFields
    BY DEF EngineInv
<1>2. chat' = "prompt" /\ inputs' = inputs /\ session'.history = h
    BY <1>1 DEF EndTurn, SessionFields
<1> QED
    BY <1>2 DEF HistoryInv

\* commit_history.
LEMMA CommitWhole ==
    ASSUME NEW sent \in History, sent # <<>>, WholeTurns(sent), NEW answer \in Seq(Piece)
    PROVE  CommitHistory(sent, answer) \in History /\ WholeTurns(CommitHistory(sent, answer))
<1> DEFINE m == Msg("assistant", answer, <<>>, None)
<1>1. m \in Message /\ m.calls = <<>> /\ m.role # "tool"
    BY DEF Msg, Message
<1> HIDE DEF m
<1>2. Append(sent, m) \in History /\ WholeTurns(Append(sent, m))
    BY <1>1, WholeAppend
<1> QED
    BY <1>2 DEF CommitHistory, m

\* One round of a local turn.
LEMMA RoundWhole ==
    ASSUME EngineInv, HistoryInv, NEW r \in Replies, NEW answer \in Seq(Piece), NEW said \in Seq(Piece),
           Round(r, answer, said)
    PROVE  HistoryInv'
<1> DEFINE sent == PushResults(turn.messages, turn.results)
           calls == Spoken(r.calls)
           m == Msg("assistant", said, calls, None)
<1>1. chat = "turn" /\ TurnInv /\ session.history \in History /\ WholeTurns(session.history) /\ inputs \in Nat
    BY DEF Round, HistoryInv
<1>2. sent \in History /\ sent # <<>> /\ WholeTurns(sent)
    BY <1>1, ResultMessages DEF TurnInv
<1>3. r.calls \in Nat /\ inputs \in Int /\ turn.round + 1 \in Nat
    BY <1>1, ChatAssumption DEF TurnInv
<1>4. calls \in Seq(Piece) /\ (r.calls # 0 => calls # <<>>)
    <2>1. \A i \in 1..r.calls : <<inputs, turn.round + 1, i>> \in Piece
        BY <1>3 DEF Piece
    <2>2. calls \in [1..r.calls -> Piece]
        BY <2>1 DEF Spoken
    <2> HIDE DEF calls
    <2>3. calls \in Seq(Piece) /\ Len(calls) = r.calls
        BY <1>3, <2>2
    <2> QED
        BY <1>3, <2>3
<1>5. m \in Message /\ m.role = "assistant" /\ m.calls = calls
    <2> HIDE DEF calls
    <2> QED
        BY <1>4 DEF Msg, Message
<1> HIDE DEF sent, calls, m
<1>6. ASSUME NEW shown, EndTurn(session.history, shown, FALSE) PROVE HistoryInv'
    BY <1>1, <1>6, EndTurnWhole
<1>7. ASSUME NEW shown, EndTurn(CommitHistory(sent, answer), shown, TRUE) PROVE HistoryInv'
    <2>1. CommitHistory(sent, answer) \in History /\ WholeTurns(CommitHistory(sent, answer))
        BY <1>2, CommitWhole
    <2> QED
        BY <1>1, <1>7, <2>1, EndTurnWhole
<1>8. ASSUME NEW shown, r.calls # 0, UNCHANGED <<chat, session, engine, inputs>>,
             turn' = [messages |-> PushCalls(sent, said, calls), results |-> calls,
                      round |-> turn.round + 1, answer |-> answer, shown |-> shown]
      PROVE  HistoryInv'
    <2>1. PushCalls(sent, said, calls) = Append(sent, m)
        BY <1>4, <1>8 DEF PushCalls, m
    <2>2. turn'.messages = Append(sent, m) /\ turn'.results = calls /\ turn'.round = turn.round + 1 /\ turn'.answer = answer
        BY <1>8, <2>1
    <2>3. /\ Append(sent, m) \in History /\ Append(sent, m) # <<>>
          /\ WholeTurns(PushResults(Append(sent, m), calls))
        BY <1>2, <1>5, WholeCalls
    <2>4. engine.where # "daemon"
        BY DEF Round
    <2>5. turn.round + 1 \in Nat \ {0}
        BY <1>1 DEF TurnInv
    <2>6. TurnInv'
        BY <1>4, <1>8, <2>2, <2>3, <2>4, <2>5 DEF TurnInv
    <2> QED
        BY <1>1, <1>8, <2>6 DEF HistoryInv
<1> QED
    BY <1>6, <1>7, <1>8 DEF Round, sent, calls

\* A command keeps the history and its model, or drops all of the history.
Follows(t, s) ==
    \/ t.history = s.history /\ t.path = s.path
    \/ t.history = <<>> /\ t.path \in Paths \cup {s.path}

LEMMA SlashKeeps ==
    ASSUME EngineInv, NEW line, Slash(line)
    PROVE  /\ chat = "prompt" /\ log' = log
           /\ chat' = "ended" \/ (chat' = "prompt" /\ Follows(session', session))
<1>0. chat = "prompt" /\ log' = log /\ DOMAIN session = SessionFields
    BY DEF Slash, Enters, EngineInv
<1> DEFINE Kept == chat' = "ended" \/ (chat' = "prompt" /\ Follows(session', session))
<1>e. ASSUME EndChat PROVE Kept
    BY <1>e DEF EndChat
<1>u. ASSUME UNCHANGED <<chat, session, engine>> PROVE Kept
    BY <1>0, <1>u DEF Follows
<1>b. ASSUME BadArgument PROVE Kept
    BY <1>b, <1>e, <1>u DEF BadArgument
<1>s. ASSUME NEW t, Follows(t, session), NEW where, NEW models, Serve(t, where, models) PROVE Kept
    BY <1>s, <1>e DEF Serve
<1>r. ASSUME NEW t, Follows(t, session), Reload(t) PROVE Kept
    BY <1>0, <1>r, <1>s DEF Reload
<1>1. ASSUME NEW arg, ModeCommand(arg) PROVE Kept
    <2> DEFINE t == [session EXCEPT !.mode = arg]
    <2>1. Follows(t, session)
        BY <1>0 DEF SessionFields, Follows
    <2>2. UNCHANGED <<chat, session, engine>> \/ BadArgument \/ Reload(t)
        BY <1>1 DEF ModeCommand
    <2> HIDE DEF t, Kept
    <2> QED
        BY <1>u, <1>b, <1>r, <2>1, <2>2
<1>2. ASSUME NEW arg, ModelCommand(arg) PROVE Kept
    <2> DEFINE t == [session EXCEPT !.path = arg, !.history = <<>>]
    <2>1. arg \in Paths => Follows(t, session)
        BY <1>0 DEF SessionFields, Follows
    <2>2. BadArgument \/ (arg \in Paths /\ Reload(t))
        BY <1>2 DEF ModelCommand
    <2> HIDE DEF t, Kept
    <2> QED
        BY <1>b, <1>r, <2>1, <2>2
<1>3. ASSUME NEW words, ThinkCommand(words) PROVE Kept
    <2> DEFINE next == Overlay(session.think, FromSlashArgs(words))
    <2>1. BadArgument \/ (session' = [session EXCEPT !.think = next] /\ UNCHANGED <<chat, engine>>)
        BY <1>3 DEF ThinkCommand
    <2> HIDE DEF next
    <2>2. session' = [session EXCEPT !.think = next] => Follows(session', session)
        BY <1>0 DEF SessionFields, Follows
    <2> QED
        BY <1>0, <1>b, <2>1, <2>2
<1>4. ASSUME ResetCommand PROVE Kept
    <2>1. EndChat \/ (session' = [session EXCEPT !.history = <<>>] /\ UNCHANGED chat)
        BY <1>4 DEF ResetCommand
    <2> QED
        BY <1>0, <1>e, <2>1 DEF SessionFields, Follows
<1>5. Kept
    <2> HIDE DEF Kept
    <2> QED
        BY <1>1, <1>2, <1>3, <1>4, <1>e, <1>u DEF Slash
<1> QED
    BY <1>0, <1>5

LEMMA SlashWhole ==
    ASSUME EngineInv, HistoryInv, NEW line, Slash(line)
    PROVE  HistoryInv'
<1>1. inputs' \in Nat
    BY DEF Slash, Enters, HistoryInv
<1>2. chat = "prompt" /\ (chat' = "ended" \/ (chat' = "prompt" /\ session'.history \in {session.history, <<>>}))
    BY SlashKeeps DEF Follows
<1> QED
    BY <1>1, <1>2, WholeEmpty DEF HistoryInv

\* Every step of a session keeps whole turns.
LEMMA HistoryStep ==
    ASSUME EngineInv, HistoryInv, ChatNext
    PROVE  HistoryInv'
<1>p. ASSUME NEW n \in Nat, NEW x \in Int, NEW y \in Int
      PROVE  [i \in 1..n |-> <<x, y, i>>] \in Seq(Piece)
    <2>1. \A i \in 1..n : <<x, y, i>> \in Piece
        BY DEF Piece
    <2>2. [i \in 1..n |-> <<x, y, i>>] \in [1..n -> Piece]
        BY <2>1
    <2> QED
        BY <2>2
<1>1. ASSUME NEW r \in Replies, chat = "turn", ReplRound(r) \/ TuiRound(r) PROVE HistoryInv'
    <2>1. r.text \in Nat /\ inputs \in Int /\ turn.round + 1 \in Int /\ turn.answer \in Seq(Piece)
        BY <1>1, ChatAssumption DEF HistoryInv, TurnInv
    <2>2. Spoken(r.text) \in Seq(Piece)
        BY <1>p, <2>1 DEF Spoken
    <2>3. turn.answer \o Spoken(r.text) \in Seq(Piece) /\ <<>> \in Seq(Piece)
        BY <2>1, <2>2
    <2> QED
        BY <1>1, <2>2, <2>3, RoundWhole DEF ReplRound, TuiRound
<1>2. ASSUME NEW r \in Replies, DaemonTurn(r) PROVE HistoryInv'
    <2> DEFINE text == [i \in 1..r.text |-> <<inputs, 1, i>>]
    <2>1. chat = "turn" /\ TurnInv /\ session.history \in History /\ WholeTurns(session.history) /\ inputs \in Int
        BY <1>2 DEF DaemonTurn, HistoryInv
    <2>2. text \in Seq(Piece)
        <3>1. r.text \in Nat /\ 1 \in Int
            BY ChatAssumption
        <3> QED
            BY <1>p, <2>1, <3>1, Zenon
    <2>3. EndTurn(CommitHistory(turn.messages, text), text, TRUE)
        BY <1>2 DEF DaemonTurn
    <2> HIDE DEF text
    <2>4. turn.results = <<>> /\ PushResults(turn.messages, turn.results) = turn.messages
        BY <1>2, <2>1, ResultMessages DEF DaemonTurn, TurnInv
    <2>5. CommitHistory(turn.messages, text) \in History /\ WholeTurns(CommitHistory(turn.messages, text))
        BY <2>1, <2>2, <2>4, CommitWhole DEF TurnInv
    <2> QED
        BY <2>1, <2>3, <2>5, EndTurnWhole
<1>3. CASE Submit
    <2> DEFINE m == Msg("user", <<<<inputs + 1, 0>>>>, <<>>, None)
               g == Append(session.history, m)
               h == Trim(engine, g)
    <2>1. /\ chat = "prompt" /\ DOMAIN session = SessionFields /\ inputs \in Nat
          /\ session.history \in History /\ WholeTurns(session.history)
        BY <1>3 DEF Submit, Enters, EngineInv, HistoryInv
    <2>2. /\ chat' = "turn" /\ engine' = engine /\ inputs' = inputs + 1
          /\ session' = [session EXCEPT !.history = h, !.armed = FALSE]
          /\ turn' = [NoTurn EXCEPT !.messages = h]
        BY <1>3 DEF Submit, Enters
    <2>3. m \in Message /\ m.role = "user" /\ m.calls = <<>>
        <3>1. <<inputs + 1, 0>> \in Piece
            BY <2>1 DEF Piece
        <3>2. <<<<inputs + 1, 0>>>> \in Seq(Piece) /\ <<>> \in Seq(Piece)
            BY <3>1
        <3> QED
            BY <3>2 DEF Msg, Message
    <2> HIDE DEF m
    <2>4. g \in History /\ WholeTurns(g)
        BY <2>1, <2>3, WholeAppend
    <2>5. g # <<>> /\ g[Len(g)].role = "user"
        BY <2>1, <2>3 DEF History
    <2> HIDE DEF g
    <2>6. /\ h \in History /\ h # <<>> /\ WholeTurns(h)
          /\ HistoryTokens(engine, h) <= HistoryBudget \/ Len(h) = 1
        BY <2>4, <2>5, TrimWhole
    <2> HIDE DEF h
    <2>7. /\ session'.history = h /\ turn'.messages = h /\ turn'.results = <<>> /\ turn'.answer = <<>>
          /\ turn'.round = 0
        BY <2>1, <2>2 DEF SessionFields, NoTurn
    <2>8. PushResults(h, <<>>) = h
        <3>1. <<>> \in Seq(Piece)
            OBVIOUS
        <3> QED
            BY <2>6, <3>1, ResultMessages, Zenon
    <2>9. TurnInv'
        <3>1. turn'.messages \in History /\ turn'.messages # <<>> /\ WholeTurns(PushResults(turn'.messages, turn'.results))
            BY <2>6, <2>7, <2>8
        <3>2. HistoryTokens(engine', turn'.messages) <= HistoryBudget \/ Len(turn'.messages) = 1
            BY <2>2, <2>6, <2>7
        <3>3. turn'.results \in Seq(Piece) /\ turn'.answer \in Seq(Piece) /\ turn'.round \in Nat
            BY <2>7
        <3> QED
            BY <2>7, <3>1, <3>2, <3>3 DEF TurnInv
    <2> QED
        BY <2>1, <2>2, <2>6, <2>7, <2>9 DEF HistoryInv
<1>4. CASE (\E r \in Replies : RoundFails(r)) \/ DaemonFails
    <2>1. chat = "turn" /\ TurnInv /\ session.history \in History /\ WholeTurns(session.history)
        BY <1>4 DEF RoundFails, DaemonFails, HistoryInv
    <2>2. ASSUME engine.where = "daemon"
          PROVE  CommitHistory(turn.messages, <<>>) \in History /\ WholeTurns(CommitHistory(turn.messages, <<>>))
        <3>1. turn.messages \in History /\ WholeTurns(turn.messages)
            BY <2>1, <2>2, ResultMessages DEF TurnInv
        <3> QED
            BY <3>1 DEF CommitHistory
    <2> QED
        BY <1>4, <2>1, <2>2, EndTurnWhole DEF RoundFails, DaemonFails
<1>5. ASSUME NEW line \in Lines, Slash(line) PROVE HistoryInv'
    BY <1>5, SlashWhole
<1>6. ASSUME NEW k \in {"ctrl_c", "ctrl_d", "other"}, Key(k) PROVE HistoryInv'
    <2>1. chat = "prompt" /\ DOMAIN session = SessionFields /\ inputs' = inputs
        BY <1>6 DEF Key, EngineInv
    <2>2. EndChat \/ (session' = [session EXCEPT !.armed = (k = "ctrl_c")] /\ UNCHANGED <<chat, engine>>)
        BY <1>6 DEF Key
    <2>3. session' = [session EXCEPT !.armed = (k = "ctrl_c")] => session'.history = session.history
        BY <2>1 DEF SessionFields
    <2> QED
        BY <2>1, <2>2, <2>3 DEF EndChat, HistoryInv
<1> QED
    BY <1>1, <1>2, <1>3, <1>4, <1>5, <1>6 DEF ChatNext

\* A session starts with no history.
LEMMA StartWhole ==
    ASSUME HistoryInv, NEW f, NEW up, StartChat(f, up)
    PROVE  HistoryInv'
<1> DEFINE mcp == f.mcp \/ f.mcpConfig
           s == [ui |-> f.ui, path |-> f.path, backend |-> f.backend, mode |-> f.mode, threads |-> f.threads,
                 history |-> <<>>, think |-> f.think, hub |-> mcp, loras |-> f.loras, rpc |-> f.rpc,
                 armed |-> FALSE]
<1>1. s.history = <<>>
    OBVIOUS
<1>2. inputs' = inputs /\ (EndChat \/ \E where, models : Serve(s, where, models))
    BY Zenon DEF StartChat
<1> HIDE DEF s
<1>3. CASE EndChat
    BY <1>2, <1>3 DEF EndChat, HistoryInv
<1>4. ASSUME NEW where, NEW models, Serve(s, where, models) PROVE HistoryInv'
    <2>1. EndChat \/ (chat' = "prompt" /\ session' = s)
        BY <1>4 DEF Serve
    <2> QED
        BY <1>1, <1>2, <1>3, <2>1, WholeEmpty DEF HistoryInv
<1> QED
    BY <1>2, <1>3, <1>4

LEMMA HistoryAlways == Spec => [](EngineInv /\ HistoryInv)
<1>1. CliInit => HistoryInv
    BY DEF CliInit, ChatInit, HistoryInv
<1>2. EngineInv /\ HistoryInv /\ [Next]_cliVars => HistoryInv'
    <2> SUFFICES ASSUME EngineInv, HistoryInv, [Next]_cliVars PROVE HistoryInv'
        OBVIOUS
    <2>1. CASE UNCHANGED chatVars
        BY <2>1 DEF chatVars, HistoryInv, TurnInv
    <2>2. CASE StartSession
        BY <2>2, StartWhole DEF StartSession
    <2>3. CASE ChatNext
        BY <2>3, HistoryStep
    <2> QED
        BY <2>1, <2>2, <2>3 DEF Next, StartRun, Recommend, cliVars
<1> QED
    BY <1>1, <1>2, EngineAlways, PTL DEF Spec

\* P10.9, for every context size, tokenizer, limit of rounds and reply: what a
\* session remembers and what an engine is sent are whole turns, and a turn
\* starts within its budget or with its own message alone.
THEOREM HistoryAlwaysWhole == Spec => []HistoryWhole
<1>1. HistoryInv => HistoryWhole
    BY DEF HistoryInv, TurnInv, HistoryWhole
<1> QED
    BY <1>1, HistoryAlways, PTL

-----------------------------------------------------------------------------
(* The limit that a warning names.                                         *)

\* A quotient, by its remainder.
LEMMA Quotient ==
    ASSUME NEW a \in Nat, NEW b \in Nat \ {0}
    PROVE  /\ a \div b \in Nat
           /\ b * (a \div b) <= a
           /\ a < b * (a \div b) + b
<1>1. a = b * (a \div b) + (a % b) /\ a % b \in 0..b - 1 /\ a \div b \in Int
    OBVIOUS
<1>2. a \div b >= 0
    BY <1>1
<1>3. b * (a \div b) \in Int
    BY <1>1
<1> QED
    BY <1>1, <1>2, <1>3

\* A product grows with its factor.
LEMMA Monotone ==
    ASSUME NEW n \in Nat, NEW x \in Nat, NEW y \in Nat, x <= y
    PROVE  n * x <= n * y
OBVIOUS

\* need_percent: enough, unless it is capped, and no less is.
LEMMA NeedExact ==
    ASSUME NEW part \in Nat \ {0}, NEW total \in Nat \ {0}
    PROVE  LET p == NeedPercent(part, total)
           IN  /\ p \in 1..100
               /\ p = 100 \/ part * 100 <= total * p
               /\ \A limit \in 1..p - 1 : total * limit < part * 100
<1> DEFINE a == part * 100 + total - 1
           k == a \div total
<1>1. a \in Nat /\ a >= total /\ a = part * 100 + (total - 1)
    OBVIOUS
<1> HIDE DEF a
<1>2. k \in Nat /\ total * k <= a /\ a < total * k + total
    BY <1>1, Quotient
<1> HIDE DEF k
<1>3. k >= 1
    <2>1. k = 0 => total * k = 0
        BY <1>2
    <2> QED
        BY <1>1, <1>2, <2>1
<1>4. total * k \in Nat
    BY <1>2
<1>5. part * 100 <= total * k
    BY <1>1, <1>2, <1>4
<1>6. ASSUME NEW limit \in 1..k - 1 PROVE total * limit < part * 100
    <2>1. total * limit <= total * (k - 1) /\ limit \in Nat /\ k - 1 \in Nat
        BY <1>2, <1>3, Monotone
    <2>2. total * (k - 1) = total * k - total
        BY <1>2
    <2>3. total * limit \in Nat
        BY <2>1
    <2> QED
        BY <1>1, <1>2, <1>4, <2>1, <2>2, <2>3
<1>7. NeedPercent(part, total) = IF k >= 100 THEN 100 ELSE k
    <2>1. NeedPercent(part, total) = Min({100, k})
        BY DEF NeedPercent, k, a
    <2>2. \A x, y \in {100, k} : (\A z \in {100, k} : x <= z) /\ (\A z \in {100, k} : y <= z) => x = y
        BY <1>2
    <2>3. \A z \in {100, k} : (IF k >= 100 THEN 100 ELSE k) <= z
        BY <1>2
    <2> QED
        BY <2>1, <2>2, <2>3 DEF Min
<1> QED
    BY <1>2, <1>3, <1>5, <1>6, <1>7

\* Against a share of a total, in whole bytes as the code compares them.
LEMMA OverShare ==
    ASSUME NEW part \in Nat, NEW total \in Nat, NEW limit \in Nat
    PROVE  part > (total * limit) \div 100 <=> total * limit < part * 100
<1> DEFINE a == total * limit
           q == a \div 100
<1>1. a \in Nat
    OBVIOUS
<1> HIDE DEF a
<1>2. q \in Nat /\ 100 * q <= a /\ a < 100 * q + 100
    BY <1>1, Quotient
<1> HIDE DEF q
<1>3. part > q <=> a < part * 100
    BY <1>1, <1>2
<1> QED
    BY <1>3 DEF q, a

\* The percent that warning x names is the least limit without it, up to 100.
NamesLimit(snap, demand, threads, x) ==
    LET About(l) == \E y \in LoadWarnings(snap, demand, threads, l) : y.kind = x.kind
    IN  /\ x.percent = 100 \/ ~About(x.percent)
        /\ \A l \in 1..x.percent - 1 : About(l)

\* system_load_warnings, for every machine, demand, number of threads and limit:
\* the percent that a warning names silences it, unless it is 100, and no
\* smaller limit does.
THEOREM LimitNamed ==
    ASSUME NEW snap \in [total : Nat, avail : Nat, cpus : Nat], NEW demand \in Nat,
           NEW threads, threads = None \/ threads \in Nat, NEW limit \in 1..100,
           NEW x \in LoadWarnings(snap, demand, threads, limit)
    PROVE  NamesLimit(snap, demand, threads, x)
<1> DEFINE About(l) == \E y \in LoadWarnings(snap, demand, threads, l) : y.kind = x.kind
           used == snap.total - snap.avail
           W(kind, part, total) == [kind |-> kind, percent |-> NeedPercent(part, total)]
<1>0. snap.total \in Nat /\ snap.avail \in Nat /\ snap.cpus \in Nat /\ used \in Int
    OBVIOUS
<1>1. ASSUME NEW l, NEW y
      PROVE  y \in LoadWarnings(snap, demand, threads, l) <=>
             /\ snap.total # 0
             /\ \/ demand > 0 /\ demand > (snap.total * l) \div 100 /\ y = W("demand", demand, snap.total)
                \/ used > (snap.total * l) \div 100 /\ y = W("used", used, snap.total)
                \/ /\ threads # None /\ snap.cpus > 0 /\ threads * 100 > snap.cpus * l
                   /\ y = W("threads", threads, snap.cpus)
    BY <1>0 DEF LoadWarnings, DemandWarning, Warning
<1>2. \A kind, part, total : W(kind, part, total).kind = kind /\ W(kind, part, total).percent = NeedPercent(part, total)
    OBVIOUS
<1> SUFFICES (x.percent = 100 \/ ~About(x.percent)) /\ \A l \in 1..x.percent - 1 : About(l)
    BY Zenon DEF NamesLimit
<1> HIDE DEF W, used, About
<1>n. ASSUME NEW part \in Nat \ {0}, NEW total \in Nat \ {0}, x.percent = NeedPercent(part, total),
             \A l \in Nat : About(l) <=> total * l < part * 100
      PROVE  (x.percent = 100 \/ ~About(x.percent)) /\ \A l \in 1..x.percent - 1 : About(l)
    <2> DEFINE p == NeedPercent(part, total)
    <2>1. /\ p \in 1..100
          /\ p = 100 \/ part * 100 <= total * p
          /\ \A l \in 1..p - 1 : total * l < part * 100
        BY NeedExact
    <2> HIDE DEF p
    <2>2. total * p \in Nat /\ part * 100 \in Nat /\ p \in Nat
        BY <2>1
    <2>3. p = 100 \/ ~About(p)
        BY <1>n, <2>1, <2>2
    <2>4. \A l \in 1..p - 1 : l \in Nat
        BY <2>1
    <2>5. \A l \in 1..p - 1 : About(l)
        BY <1>n, <2>1, <2>4
    <2> QED
        BY <1>n, <2>3, <2>5 DEF p
<1>3. CASE x.kind = "demand"
    <2>1. x = W("demand", demand, snap.total) /\ demand \in Nat \ {0} /\ snap.total \in Nat \ {0}
        BY <1>0, <1>1, <1>2, <1>3
    <2>2. \A l \in Nat : About(l) <=> snap.total * l < demand * 100
        <3>1. \A l \in Nat : About(l) <=> demand > (snap.total * l) \div 100
            BY <1>1, <1>2, <1>3, <2>1 DEF About
        <3> QED
            BY <1>0, <3>1, OverShare
    <2> QED
        BY <1>2, <1>n, <2>1, <2>2
<1>4. CASE x.kind = "used"
    <2>1. x = W("used", used, snap.total) /\ used > (snap.total * limit) \div 100 /\ snap.total \in Nat \ {0}
        BY <1>0, <1>1, <1>2, <1>4
    <2>2. (snap.total * limit) \div 100 \in Nat
        <3>1. snap.total * limit \in Nat
            BY <1>0
        <3> QED
            BY <3>1, Quotient
    <2>3. used \in Nat \ {0}
        BY <1>0, <2>1, <2>2
    <2>4. \A l \in Nat : About(l) <=> snap.total * l < used * 100
        <3>1. \A l \in Nat : About(l) <=> used > (snap.total * l) \div 100
            BY <1>1, <1>2, <1>4, <2>1 DEF About
        <3> QED
            BY <1>0, <2>3, <3>1, OverShare
    <2> QED
        BY <1>2, <1>n, <2>1, <2>3, <2>4
<1>5. CASE x.kind = "threads"
    <2>1. /\ x = W("threads", threads, snap.cpus) /\ threads \in Nat /\ snap.cpus \in Nat \ {0}
          /\ threads * 100 > snap.cpus * limit /\ snap.total # 0 /\ threads # None
        BY <1>0, <1>1, <1>2, <1>5
    <2>2. snap.cpus * limit \in Nat
        BY <2>1
    <2>3. threads # 0
        BY <2>1, <2>2
    <2>4. \A l \in Nat : About(l) <=> snap.cpus * l < threads * 100
        <3>1. \A l \in Nat : About(l) <=> threads * 100 > snap.cpus * l
            BY <1>1, <1>2, <1>5, <2>1 DEF About
        <3>2. \A l \in Nat : snap.cpus * l \in Nat /\ threads * 100 \in Nat
            BY <2>1
        <3> QED
            BY <3>1, <3>2
    <2> QED
        BY <1>2, <1>n, <2>1, <2>3, <2>4
<1> QED
    BY <1>1, <1>2, <1>3, <1>4, <1>5

-----------------------------------------------------------------------------
(* The layers that say how to think.                                       *)

\* Induction up to n.
LEMMA UpTo ==
    ASSUME NEW n \in Nat, NEW T, 0 \in T, \A i \in 0..n - 1 : i \in T => i + 1 \in T
    PROVE  \A i \in 0..n : i \in T
<1> DEFINE U == {i \in 0..n : i \notin T}
<1> SUFFICES ASSUME U # {} PROVE FALSE
    OBVIOUS
<1>1. PICK m \in U : \A k \in U : m <= k
    <2>1. U \in SUBSET Nat
        OBVIOUS
    <2> HIDE DEF U
    <2> QED
        BY <2>1, NatMin
<1>2. m # 0 /\ m - 1 \in 0..n - 1 /\ m - 1 \notin U
    BY <1>1
<1>3. m - 1 \in T
    BY <1>2
<1> QED
    BY <1>2, <1>3

\* So has a set of numbers up to n a greatest.
LEMMA UpperMax ==
    ASSUME NEW n \in Nat, NEW T \in SUBSET (1..n), T # {}
    PROVE  Max(T) \in T /\ \A j \in T : Max(T) >= j
<1> DEFINE U == {n - i : i \in T}
<1>1. PICK u \in U : \A v \in U : u <= v
    <2>0. \A i \in T : n - i \in Nat /\ n - i \in U
        OBVIOUS
    <2>1. U \in SUBSET Nat /\ U # {}
        BY <2>0
    <2> HIDE DEF U
    <2> QED
        BY <2>1, NatMin
<1>2. n - u \in T /\ \A j \in T : n - u >= j
    <2>1. PICK m \in T : u = n - m
        OBVIOUS
    <2>2. \A j \in T : n - j \in U
        OBVIOUS
    <2>3. \A j \in T : u <= n - j
        BY <1>1, <2>2
    <2> HIDE DEF U
    <2> QED
        BY <2>1, <2>3
<1> QED
    BY <1>2 DEF Max

\* A function by recursion on 0..n.
Recursion(f, n, base, step) == f[0] = base /\ \A i \in 1..n : f[i] = step[<<i, f[i - 1]>>]

LEMMA RecExists ==
    ASSUME NEW V, NEW n \in Nat, NEW base \in V, NEW step \in [(1..n) \X V -> V]
    PROVE  \E f \in [0..n -> V] : Recursion(f, n, base, step)
<1> DEFINE Good(f, m) == f[0] = base /\ \A i \in 1..m : f[i] = step[<<i, f[i - 1]>>]
           T == {m \in 0..n : \E f \in [0..m -> V] : Good(f, m)}
<1>1. 0 \in T
    <2> DEFINE f == [i \in 0..0 |-> base]
    <2>1. f \in [0..0 -> V] /\ Good(f, 0)
        OBVIOUS
    <2>2. 0 \in 0..n
        OBVIOUS
    <2> HIDE DEF f, Good
    <2> QED
        BY <2>1, <2>2
<1>2. ASSUME NEW m \in 0..n - 1, m \in T PROVE m + 1 \in T
    <2>1. PICK f \in [0..m -> V] : Good(f, m)
        BY <1>2
    <2> DEFINE g == [i \in 0..m + 1 |-> IF i = m + 1 THEN step[<<m + 1, f[m]>>] ELSE f[i]]
    <2>2. f[m] \in V /\ <<m + 1, f[m]>> \in (1..n) \X V
        OBVIOUS
    <2>3. step[<<m + 1, f[m]>>] \in V
        BY <2>2
    <2>4. g \in [0..m + 1 -> V]
        BY <2>3
    <2>5. Good(g, m + 1)
        <3>1. \A i \in 0..m : g[i] = f[i]
            OBVIOUS
        <3>2. g[m + 1] = step[<<m + 1, f[m]>>]
            OBVIOUS
        <3> HIDE DEF g
        <3>3. g[0] = base
            BY <2>1, <3>1
        <3>4. ASSUME NEW i \in 1..m + 1 PROVE g[i] = step[<<i, g[i - 1]>>]
            <4>1. CASE i = m + 1
                BY <3>1, <3>2, <4>1
            <4>2. CASE i # m + 1
                <5>1. i \in 1..m /\ i - 1 \in 0..m
                    BY <4>2
                <5> QED
                    BY <2>1, <3>1, <5>1
            <4> QED
                BY <4>1, <4>2
        <3> QED
            BY <3>3, <3>4
    <2> HIDE DEF g, Good
    <2> QED
        BY <2>4, <2>5
<1>3. n \in T
    <2> HIDE DEF T
    <2> QED
        BY <1>1, <1>2, UpTo
<1> QED
    BY <1>3 DEF Recursion

Answers == ThinkConfigs \cup {Error}

\* Apply keeps the types, and says Error of layers that contradict themselves.
Clear(o) ==
    /\ o # Error /\ ~(o.think = FALSE /\ (o.budget # None \/ o.effort # None))
    /\ ~(o.budget # None /\ o.effort # None)

Says(o) == o.think # None \/ o.budget # None \/ o.effort # None

\* What a layer that says how to think makes of the mode.
ModeBy(c, o) ==
    CASE o.budget # None -> c.mode = "budget" /\ c.tokens = o.budget
      [] o.effort # None -> c.mode = "effort" /\ c.effort = o.effort
      [] OTHER -> c.mode = IF o.think THEN "on" ELSE "off"

\* The mode with what belongs to it.
SameMode(c, d) == c.mode = d.mode /\ c.tokens = d.tokens /\ c.effort = d.effort

LEMMA ApplyOne ==
    ASSUME NEW c \in ThinkConfigs, NEW o \in Overrides, o # Error, NEW d, d = Apply(c, o)
    PROVE  /\ d \in Answers
           /\ d # Error => /\ d \in ThinkConfigs /\ Clear(o)
                           /\ d.show = IF o.show = None THEN c.show ELSE o.show
                           /\ Says(o) => ModeBy(d, o)
                           /\ ~Says(o) => SameMode(d, c)
<1> DEFINE grace == Or(o.grace, IF c.mode = "budget" THEN c.grace ELSE DefaultGrace)
           show == Or(o.show, c.show)
           unclear == /\ o.budget # None \/ o.effort # None
                      /\ o.think = FALSE \/ (o.budget # None /\ o.effort # None)
           Fresh(m, t, g, e) == [mode |-> m, tokens |-> t, grace |-> g, effort |-> e, show |-> show]
<1>1. /\ o.think \in BOOLEAN \cup {None} /\ o.budget \in Nat \cup {None} /\ o.grace \in Nat \cup {None}
      /\ o.effort \in Efforts \cup {None} /\ o.show \in BOOLEAN \cup {None}
    BY DEF Overrides
<1>2. /\ c.mode \in {"off", "on", "budget", "effort"} /\ c.tokens \in Nat \cup {None} /\ c.grace \in Nat \cup {None}
      /\ c.effort \in Efforts \cup {None} /\ c.show \in BOOLEAN
      /\ c = [mode |-> c.mode, tokens |-> c.tokens, grace |-> c.grace, effort |-> c.effort, show |-> c.show]
    BY DEF ThinkConfigs
<1>3. grace \in Nat \cup {None} /\ show \in BOOLEAN
    BY <1>1, <1>2 DEF Or, DefaultGrace
<1>4. CASE unclear
    BY <1>4 DEF Apply, Answers
<1>5. CASE ~unclear /\ o.budget # None
    <2>1. d = Fresh("budget", o.budget, grace, None)
        BY <1>5 DEF Apply, DefaultThink
    <2> HIDE DEF grace, show
    <2>2. d \in ThinkConfigs /\ d.mode = "budget" /\ d.tokens = o.budget /\ d.show = show
        BY <1>1, <1>3, <1>5, <2>1 DEF ThinkConfigs
    <2> QED
        BY <1>5, <2>2 DEF Answers, Clear, Says, ModeBy, show, Or
<1>6. CASE ~unclear /\ o.budget = None /\ o.effort # None
    <2>1. d = Fresh("effort", None, None, o.effort)
        BY <1>6 DEF Apply, DefaultThink
    <2> HIDE DEF grace, show
    <2>2. d \in ThinkConfigs /\ d.mode = "effort" /\ d.effort = o.effort /\ d.show = show
        BY <1>1, <1>3, <1>6, <2>1 DEF ThinkConfigs
    <2> QED
        BY <1>6, <2>2 DEF Answers, Clear, Says, ModeBy, show, Or
<1>7. CASE o.budget = None /\ o.effort = None /\ o.think # None
    <2>1. d = Fresh(IF o.think THEN "on" ELSE "off", None, None, None)
        BY <1>7 DEF Apply, DefaultThink
    <2> HIDE DEF grace, show
    <2>2. d \in ThinkConfigs /\ (d.mode = IF o.think THEN "on" ELSE "off") /\ d.show = show
        BY <1>1, <1>3, <1>7, <2>1 DEF ThinkConfigs
    <2> QED
        BY <1>7, <2>2 DEF Answers, Clear, Says, ModeBy, show, Or
<1>8. CASE o.budget = None /\ o.effort = None /\ o.think = None
    <2>1. d = [c EXCEPT !.show = show, !.grace = IF c.mode = "budget" THEN grace ELSE @]
        BY <1>8 DEF Apply, Or
    <2> HIDE DEF grace, show
    <2>2. d \in ThinkConfigs /\ SameMode(d, c) /\ d.show = show
        BY <1>2, <1>3, <2>1 DEF ThinkConfigs, SameMode
    <2> QED
        BY <1>8, <2>2 DEF Answers, Clear, Says, show, Or
<1> QED
    BY <1>4, <1>5, <1>6, <1>7, <1>8

LEMMA OverlayType ==
    ASSUME NEW c \in Answers, NEW o \in Overrides \cup {Error} PROVE Overlay(c, o) \in Answers
<1>1. CASE c = Error \/ o = Error
    BY <1>1 DEF Overlay, Answers
<1>2. CASE c # Error /\ o # Error
    BY <1>2, ApplyOne DEF Overlay, Answers
<1> QED
    BY <1>1, <1>2

\* resolve_think, layer by layer.
LEMMA ResolveIs ==
    ASSUME NEW layers \in Seq(Overrides \cup {Error})
    PROVE  \E g \in [0..Len(layers) -> Answers] :
              /\ g[0] = DefaultThink /\ ResolveThink(layers) = g[Len(layers)]
              /\ \A i \in 1..Len(layers) : g[i] = Overlay(g[i - 1], layers[i])
<1> DEFINE n == Len(layers)
           Is(f) == f = [i \in 0..n |-> IF i = 0 THEN DefaultThink ELSE Overlay(f[i - 1], layers[i])]
           f0 == CHOOSE f : Is(f)
           step == [p \in (1..n) \X Answers |-> Overlay(p[2], layers[p[1]])]
<1>1. n \in Nat /\ DefaultThink \in Answers /\ \A i \in 1..n : layers[i] \in Overrides \cup {Error}
    BY DEF Answers, ThinkConfigs, DefaultThink
<1>2. ResolveThink(layers) = f0[n]
    BY Zenon DEF ResolveThink
<1> HIDE DEF n
<1>3. step \in [(1..n) \X Answers -> Answers]
    BY <1>1, OverlayType
<1>4. \A i \in 1..n, x \in Answers : step[<<i, x>>] = Overlay(x, layers[i])
    OBVIOUS
<1> HIDE DEF step
<1>5. PICK g \in [0..n -> Answers] : Recursion(g, n, DefaultThink, step)
    BY <1>1, <1>3, RecExists
<1>6. Is(g)
    <2>1. ASSUME NEW i \in 0..n PROVE g[i] = IF i = 0 THEN DefaultThink ELSE Overlay(g[i - 1], layers[i])
        <3>1. CASE i = 0
            BY <1>5, <3>1 DEF Recursion
        <3>2. CASE i # 0
            <4>1. i \in 1..n /\ i - 1 \in 0..n
                BY <1>1, <3>2
            <4>2. g[i - 1] \in Answers /\ g[i] = step[<<i, g[i - 1]>>]
                BY <1>5, <4>1 DEF Recursion
            <4> QED
                BY <1>4, <3>2, <4>1, <4>2
        <3> QED
            BY <3>1, <3>2
    <2>2. g = [i \in 0..n |-> g[i]]
        OBVIOUS
    <2> QED
        BY <2>1, <2>2
<1>7. Is(f0)
    <2> HIDE DEF Is
    <2> QED
        BY <1>6
<1> HIDE DEF f0
<1>8. f0[0] = DefaultThink /\ f0 = [i \in 0..n |-> f0[i]]
    BY <1>1, <1>7
<1>9. ASSUME NEW i \in 1..n PROVE f0[i] = Overlay(f0[i - 1], layers[i])
    <2>1. i \in 0..n /\ i # 0
        BY <1>1
    <2> QED
        BY <1>7, <2>1
<1> DEFINE T == {i \in 0..n : f0[i] \in Answers}
<1>10. 0 \in T
    BY <1>1, <1>8
<1>11. ASSUME NEW i \in 0..n - 1, i \in T PROVE i + 1 \in T
    <2>1. i + 1 \in 0..n /\ i + 1 # 0 /\ (i + 1) - 1 = i /\ i + 1 \in 1..n
        BY <1>1
    <2>2. f0[i + 1] = Overlay(f0[i], layers[i + 1])
        BY <1>9, <2>1
    <2> QED
        BY <1>1, <1>11, <2>1, <2>2, OverlayType
<1>12. \A i \in 0..n : i \in T
    <2> HIDE DEF T
    <2> QED
        BY <1>1, <1>10, <1>11, UpTo
<1>13. f0 \in [0..n -> Answers]
    BY <1>8, <1>12
<1> QED
    BY <1>2, <1>8, <1>9, <1>13 DEF n

\* The last of the first i layers with a value decides.
LastShow(layers, i, m) == m \in 1..i /\ layers[m].show # None /\ \A k \in m + 1..i : layers[k].show = None
LastSays(layers, i, m) == m \in 1..i /\ Says(layers[m]) /\ \A k \in m + 1..i : ~Says(layers[k])

Decided(layers, i, c) ==
    /\ \A k \in 1..i : Clear(layers[k])
    /\ (\A k \in 1..i : layers[k].show = None) => c.show = FALSE
    /\ \A m \in 1..i : LastShow(layers, i, m) => c.show = layers[m].show
    /\ (\A k \in 1..i : ~Says(layers[k])) => c.mode = "off"
    /\ \A m \in 1..i : LastSays(layers, i, m) => ModeBy(c, layers[m])

LEMMA DecidedMore ==
    ASSUME NEW layers, NEW i \in Nat, NEW c \in ThinkConfigs, Decided(layers, i, c),
           layers[i + 1] \in Overrides, layers[i + 1] # Error, NEW d, d = Apply(c, layers[i + 1]), d # Error
    PROVE  Decided(layers, i + 1, d)
<1> DEFINE o == layers[i + 1]
<1>1. /\ Clear(o) /\ d.show = (IF o.show = None THEN c.show ELSE o.show)
      /\ Says(o) => ModeBy(d, o)
      /\ ~Says(o) => SameMode(d, c)
    BY ApplyOne
<1>2. \A k \in 1..i + 1 : k \in 1..i \/ k = i + 1
    OBVIOUS
<1>3. 1..i \subseteq 1..i + 1 /\ i + 1 \in 1..i + 1
    OBVIOUS
<1>4. \A k \in 1..i + 1 : Clear(layers[k])
    BY <1>1, <1>2 DEF Decided
<1>5. (\A k \in 1..i + 1 : layers[k].show = None) => d.show = FALSE
    BY <1>1, <1>3 DEF Decided
<1>6. ASSUME NEW m \in 1..i + 1, LastShow(layers, i + 1, m) PROVE d.show = layers[m].show
    <2>1. CASE m = i + 1
        BY <1>1, <1>6, <2>1 DEF LastShow
    <2>2. CASE m \in 1..i
        <3>1. i + 1 \in m + 1..i + 1 /\ \A k \in m + 1..i : k \in m + 1..i + 1
            BY <2>2
        <3>2. o.show = None /\ LastShow(layers, i, m)
            BY <1>6, <2>2, <3>1 DEF LastShow
        <3> QED
            BY <1>1, <2>2, <3>2 DEF Decided
    <2> QED
        BY <1>2, <2>1, <2>2
<1>7. (\A k \in 1..i + 1 : ~Says(layers[k])) => d.mode = "off"
    BY <1>1, <1>3 DEF Decided, SameMode
<1>8. ASSUME NEW m \in 1..i + 1, LastSays(layers, i + 1, m) PROVE ModeBy(d, layers[m])
    <2>1. CASE m = i + 1
        BY <1>1, <1>8, <2>1 DEF LastSays
    <2>2. CASE m \in 1..i
        <3>1. i + 1 \in m + 1..i + 1 /\ \A k \in m + 1..i : k \in m + 1..i + 1
            BY <2>2
        <3>2. ~Says(o) /\ LastSays(layers, i, m)
            BY <1>8, <2>2, <3>1 DEF LastSays
        <3>3. ModeBy(c, layers[m]) /\ SameMode(d, c)
            BY <1>1, <2>2, <3>2 DEF Decided
        <3> QED
            BY <3>3 DEF ModeBy, SameMode
    <2> QED
        BY <1>2, <2>1, <2>2
<1> QED
    BY <1>4, <1>5, <1>6, <1>7, <1>8 DEF Decided

LEMMA ResolvedDecided ==
    ASSUME NEW layers \in Seq(Overrides \cup {Error}), NEW c, c = ResolveThink(layers), c # Error
    PROVE  Decided(layers, Len(layers), c)
<1> DEFINE n == Len(layers)
<1>1. PICK g \in [0..n -> Answers] :
        /\ g[0] = DefaultThink /\ c = g[n]
        /\ \A i \in 1..n : g[i] = Overlay(g[i - 1], layers[i])
    BY ResolveIs
<1>2. n \in Nat /\ \A i \in 1..n : layers[i] \in Overrides \cup {Error}
    OBVIOUS
<1> HIDE DEF n
<1> DEFINE T == {i \in 0..n : g[i] # Error => Decided(layers, i, g[i])}
<1>3. 0 \in T
    <2>1. DefaultThink.show = FALSE /\ DefaultThink.mode = "off"
        BY DEF DefaultThink
    <2>2. Decided(layers, 0, g[0])
        BY <1>1, <2>1 DEF Decided
    <2> QED
        BY <1>2, <2>2
<1>4. ASSUME NEW i \in 0..n - 1, i \in T PROVE i + 1 \in T
    <2>1. i + 1 \in 1..n /\ i + 1 \in 0..n /\ (i + 1) - 1 = i /\ i \in 0..n /\ i \in Nat
        BY <1>2
    <2>2. g[i + 1] = Overlay(g[i], layers[i + 1]) /\ g[i] \in Answers /\ layers[i + 1] \in Overrides \cup {Error}
        BY <1>1, <1>2, <2>1
    <2>3. ASSUME g[i + 1] # Error PROVE Decided(layers, i + 1, g[i + 1])
        <3>1. g[i] # Error /\ layers[i + 1] # Error /\ g[i + 1] = Apply(g[i], layers[i + 1])
            BY <2>2, <2>3 DEF Overlay
        <3>2. g[i] \in ThinkConfigs /\ layers[i + 1] \in Overrides /\ Decided(layers, i, g[i])
            BY <1>4, <2>2, <3>1 DEF Answers
        <3> QED
            BY <2>1, <2>3, <3>1, <3>2, DecidedMore
    <2> QED
        BY <2>1, <2>3
<1>5. n \in T
    <2>1. n \in 0..n
        BY <1>2
    <2> HIDE DEF T
    <2> QED
        BY <1>2, <1>3, <1>4, <2>1, UpTo
<1> QED
    BY <1>1, <1>5 DEF n

\* The layers of a command: files, environment, flags.
FlagThink(a) == IF a["think"] # None THEN a["think"] ELSE NoOverrides

LEMMA PairOf ==
    ASSUME NEW u, NEW l
    PROVE  <<u>> \o <<l>> = <<u, l>> /\ <<>> \o <<l>> = <<l>>
<1> DEFINE S == {u, l}
           p == <<u>>
           q == <<l>>
           r == <<u, l>>
<1>1. p \in Seq(S) /\ q \in Seq(S) /\ Len(p) = 1 /\ Len(q) = 1 /\ p[1] = u /\ q[1] = l
    OBVIOUS
<1>5. r \in Seq(S) /\ Len(r) = 2 /\ r[1] = u /\ r[2] = l
    OBVIOUS
<1> HIDE DEF p, q, r, S
<1>2. p \o q \in Seq(S) /\ Len(p \o q) = 2 /\ (p \o q)[1] = u /\ (p \o q)[2] = l
    BY <1>1, ConcatProperties
<1>3. p \o q = r
    <2>1. \A i \in 1..2 : (p \o q)[i] = r[i]
        BY <1>2, <1>5
    <2> QED
        BY <1>2, <1>5, <2>1, SeqEqual
<1>4. <<>> \o q = q
    BY <1>1, ConcatEmptySeq
<1> QED
    BY <1>3, <1>4 DEF p, q, r

LEMMA LayersType ==
    ASSUME NEW a, CommandOK(a), NEW w, MachineOK(w)
    PROVE  ThinkLayers(w, FlagThink(a)) \in Seq(Overrides \cup {Error})
<1> DEFINE V == Overrides \cup {Error}
           files == ConfigFiles(w)
           Table(t) == CASE t = None -> NoOverrides [] t = Error -> Error [] OTHER -> FromThinkTable(t)
           tables == [i \in DOMAIN files |-> Read(files[i], "think")]
           read == [i \in DOMAIN tables |-> Table(tables[i])]
           last == <<w.env.think, FlagThink(a)>>
<1>1. NoOverrides \in Overrides
    BY DEF NoOverrides, Overrides
<1>2. ASSUME NEW t \in ThinkTables PROVE FromThinkTable(t) \in V
    <2>1. /\ t.budget \in Nat \cup {None} /\ t.grace \in Nat \cup {None}
          /\ t.effort \in Efforts \cup {None} /\ t.show \in BOOLEAN \cup {None}
        BY DEF ThinkTables
    <2> QED
        BY <2>1 DEF FromThinkTable, NoOverrides, Overrides
<1>3. ASSUME NEW f, FileOK(f) PROVE Table(Read(f, "think")) \in V
    <2>1. Read(f, "think") \in ThinkTables \cup {None, Error}
        BY <1>3 DEF Read, FileOK
    <2> QED
        BY <1>1, <1>2, <2>1
<1>4. w.env.think \in V /\ FlagThink(a) \in V
    BY <1>1 DEF MachineOK, CommandOK, FlagThink
<1>5. last \in Seq(V)
    BY <1>4
<1>6. files = <<w.user, w.local>> \/ files = <<w.local>>
    <2> DEFINE u == w.user
               l == w.local
    <2> HIDE DEF u, l
    <2>1. <<u>> \o <<l>> = <<u, l>> /\ <<>> \o <<l>> = <<l>>
        BY PairOf
    <2>2. files = (IF w.home THEN <<u>> ELSE <<>>) \o <<l>>
        BY DEF ConfigFiles, u, l
    <2>3. files = <<u, l>> \/ files = <<l>>
        <3>1. CASE w.home
            BY <2>1, <2>2, <3>1
        <3>2. CASE ~w.home
            BY <2>1, <2>2, <3>2
        <3> QED
            BY <3>1, <3>2
    <2> QED
        BY <2>3 DEF u, l
<1>7. DOMAIN files = 1..Len(files) /\ Len(files) \in Nat /\ \A i \in 1..Len(files) : FileOK(files[i])
    BY <1>6 DEF MachineOK
<1> HIDE DEF files, Table, V
<1>8. read \in [1..Len(files) -> V]
    BY <1>3, <1>7
<1>9. read \in Seq(V)
    BY <1>7, <1>8
<1> HIDE DEF read, last
<1>10. read \o last \in Seq(V)
    BY <1>5, <1>9
<1> QED
    BY <1>10 DEF ThinkLayers, read, last, V, Table, files

-----------------------------------------------------------------------------
(* What a run has settled.                                                 *)

\* preflight_grow, of a command.
Demand(c) ==
    LET d == Descriptor(Header[c.a.model])
    IN  EstimateKv(d, c.a.ctx, PlannerKv(Or(c.a["kv_k"], c.a["kv"]), Or(c.a["kv_v"], c.a["kv"]))) + EstimateCompute(d, Ubatch)
        + (IF c.a["draft"] # None THEN c.w.file ELSE 0) + Len(c.loras) * c.w.file

Limit(c) == ResolveMaxLoad(c.w, c.a["max_load"])
HasHeader(c) == Header[c.a.model] \in Headers /\ IsFiniteSet(Header[c.a.model].tensors)
Headed == {"place", "shape", "cloud", "preflight", "load", "generate"}
Unmeasured == Unplaced \cup {"shape", "cloud", "preflight"}

\* A warning comes from some limit, and one about the model from its demand.
Warned(c, x) ==
    \E limit \in 1..100 : x \in LoadWarnings(c.w.snap, IF x.kind = "demand" THEN Demand(c) ELSE 0, c.threads, limit)

\* After the settings the answer about thinking is that of the layers.  What was
\* warned about stays what it was: threads are settled first, and the adapters
\* before the demand is.
Settled(c) ==
    /\ CommandOK(c.a) /\ MachineOK(c.w)
    /\ c.threads \in Nat \cup {None} /\ c.loras \in Loras
    /\ c.pc = "start" => c.warned = {}
    /\ c.pc \notin {"start", "failed"} =>
           c.think = ThinkOf(c.w, FlagThink(c.a)) /\ c.think # Error /\ Limit(c) \in 1..100
    /\ c.pc \in Headed => HasHeader(c)
    /\ c.pc \in Unmeasured => \A x \in c.warned : x.kind # "demand"
    /\ \A x \in c.warned : (x.kind = "demand" => HasHeader(c)) /\ Warned(c, x)

SettledInv == cmd # None => Settled(cmd)

\* auto_placement: the plan of a command, for some order of its tensors.
PlannerConfig(c) ==
    MachineConfig(c.w, c.a.ctx, PlannerKv(Or(c.a["kv_k"], c.a["kv"]), Or(c.a["kv_v"], c.a["kv"])),
                  IF c.a["mmproj"] # None \/ c.w.sibling THEN c.w.file ELSE 0,
                  IF c.a["draft"] # None THEN c.w.file ELSE 0, Len(c.loras) * c.w.file)
Planned(c) ==
    \E order \in PackingOrders(Header[c.a.model].tensors) :
        c.plan = PlanPlacement(order, Descriptor(Header[c.a.model]), PlannerConfig(c))

\* The steps of a run, by what they do to its settings.
Kept(c, d) == d.a = c.a /\ d.w = c.w /\ d.think = c.think /\ d.threads = c.threads /\ d.warned = c.warned

Stops(c, d) == Kept(c, d) /\ d.loras = c.loras /\ d.plan = c.plan /\ d.pc = "failed"
Settles(c, d) ==
    /\ c.pc = "start" /\ d.pc = "daemon" /\ d.a = c.a /\ d.w = c.w /\ d.loras = c.loras /\ d.plan = c.plan
    /\ d.threads = ResolveThreads(c.w, c.a["threads"]) /\ d.threads # Error
    /\ d.think = ThinkOf(c.w, FlagThink(c.a)) /\ d.think # Error
    /\ Limit(c) # Error /\ d.warned = LoadWarnings(c.w.snap, 0, d.threads, Limit(c))
GoesOn(c, d) ==
    /\ Kept(c, d) /\ d.loras = c.loras /\ d.plan = c.plan /\ c.pc \notin {"start", "failed"} /\ d.pc # "start"
    /\ d.pc \in Headed => c.pc \in Headed \/ (RunKind[c.a.model] = "gguf" /\ c.a.model # "cloud")
    /\ (d.pc \in Unmeasured => c.pc \in Unmeasured) /\ (d.pc \in Unplaced => c.pc \in Unplaced)
Adapts(c, d) ==
    /\ Kept(c, d) /\ c.pc = "place" /\ d.pc \in {"shape", "cloud", "failed"}
    /\ d.loras = ResolveLoras(c.w, c.a.alias, IF c.a["lora"] # None THEN c.a["lora"] ELSE <<>>) /\ d.loras # Error
    /\ d.plan = c.plan \/ Planned(d)
Measures(c, d) ==
    /\ c.pc = "preflight" /\ d.pc \in {"load", "failed"} /\ d.a = c.a /\ d.w = c.w /\ d.think = c.think
    /\ d.threads = c.threads /\ d.loras = c.loras /\ d.plan = c.plan
    /\ d.warned = c.warned \cup DemandWarning(c.w.snap, Demand(c), Limit(c))

LEMMA RunMoves ==
    ASSUME cmd # None, DOMAIN cmd = CmdFields, RunStep
    PROVE  \/ Stops(cmd, cmd') \/ Settles(cmd, cmd') \/ GoesOn(cmd, cmd') \/ Adapts(cmd, cmd')
           \/ Measures(cmd, cmd')
<1>f. ASSUME Fails PROVE Stops(cmd, cmd')
    BY <1>f DEF Fails, Goto, Stops, Kept, CmdFields
<1>g. ASSUME NEW pc, Goto(pc), cmd.pc \notin {"start", "failed"}, pc # "start",
             pc \in Headed => cmd.pc \in Headed \/ (RunKind[cmd.a.model] = "gguf" /\ cmd.a.model # "cloud"),
             pc \in Unmeasured => cmd.pc \in Unmeasured, pc \in Unplaced => cmd.pc \in Unplaced
      PROVE  GoesOn(cmd, cmd')
    BY <1>g DEF Goto, GoesOn, Kept, CmdFields
<1>d. ASSUME NEW via, NEW heard, cmd' = [cmd EXCEPT !.pc = "done", !.via = via, !.heard = heard],
             cmd.pc \notin {"start", "failed"}
      PROVE  GoesOn(cmd, cmd')
    BY <1>d DEF GoesOn, Kept, CmdFields, Headed, Unmeasured, Unplaced
<1>e. ASSUME NEW via, cmd' = [cmd EXCEPT !.pc = "done", !.via = via], cmd.pc \notin {"start", "failed"}
      PROVE  GoesOn(cmd, cmd')
    BY <1>e DEF GoesOn, Kept, CmdFields, Headed, Unmeasured, Unplaced
<1>c. ASSUME CloudRun, cmd.pc \notin {"start", "failed"} PROVE Stops(cmd, cmd') \/ GoesOn(cmd, cmd')
    BY <1>c, <1>d, <1>f, Zenon DEF CloudRun
<1>1. CASE Settings
    <2>1. CASE Fails
        BY <2>1, <1>f
    <2>2. CASE ~Fails
        <3> DEFINE threads == ResolveThreads(cmd.w, cmd.a["threads"])
                   load == ResolveMaxLoad(cmd.w, cmd.a["max_load"])
                   think == ThinkOf(cmd.w, FlagThink(cmd.a))
                   audio == ResolveAudioRoute(cmd.w, cmd.a["audio_route"])
        <3>1. /\ cmd.pc = "start" /\ threads # Error /\ load # Error /\ think # Error
              /\ cmd' = [cmd EXCEPT !.pc = "daemon", !.think = think, !.threads = threads, !.audio = audio,
                                    !.warned = LoadWarnings(cmd.w.snap, 0, threads, load)]
            BY <1>1, <2>2, Zenon DEF Settings, At, Given, FlagThink
        <3> HIDE DEF threads, load, think, audio
        <3>2. /\ cmd'.pc = "daemon" /\ cmd'.a = cmd.a /\ cmd'.w = cmd.w /\ cmd'.loras = cmd.loras
              /\ cmd'.threads = threads /\ cmd'.think = think /\ cmd'.plan = cmd.plan
              /\ cmd'.warned = LoadWarnings(cmd.w.snap, 0, threads, load)
            BY <3>1 DEF CmdFields
        <3>3. threads = ResolveThreads(cmd.w, cmd.a["threads"]) /\ load = Limit(cmd)
              /\ think = ThinkOf(cmd.w, FlagThink(cmd.a))
            BY Zenon DEF threads, load, think, Limit
        <3> QED
            BY <3>1, <3>2, <3>3, Zenon DEF Settles
    <2> QED
        BY <2>1, <2>2
<1>2. CASE TryDaemon
    <2>1. cmd.pc = "daemon"
        BY <1>2 DEF TryDaemon, At
    <2>2. Fails \/ Goto("mcp") \/ cmd' = [cmd EXCEPT !.pc = "done", !.via = "daemon"]
        BY <1>2, Zenon DEF TryDaemon
    <2> QED
        BY <1>e, <1>f, <1>g, <2>1, <2>2 DEF Headed, Unmeasured, Unplaced
<1>3. CASE StartMcp
    <2>1. cmd.pc = "mcp" /\ (Fails \/ Goto("route"))
        BY <1>3 DEF StartMcp, At
    <2> QED
        BY <1>f, <1>g, <2>1 DEF Headed, Unmeasured, Unplaced
<1>4. CASE Route
    <2>1. cmd.pc = "route"
        BY <1>4 DEF Route, At
    <2>2. \/ Fails \/ CloudRun \/ RunMistral
          \/ Goto("place") /\ RunKind[cmd.a.model] = "gguf" /\ cmd.a.model # "cloud"
        BY <1>4 DEF Route, Backend
    <2>3. CASE RunMistral
        BY <2>1, <2>3, <1>e, <1>f, Zenon DEF RunMistral
    <2> QED
        BY <1>c, <1>f, <1>g, <2>1, <2>2, <2>3 DEF Headed, Unmeasured, Unplaced
<1>5. CASE Place
    <2> DEFINE loras == ResolveLoras(cmd.w, cmd.a.alias, IF Given("lora") THEN cmd.a["lora"] ELSE <<>>)
               unfit == ResolveOnUnfit(cmd.w, cmd.a["on_unfit"])
    <2>0. cmd.pc = "place"
        BY <1>5 DEF Place, At
    <2>1. CASE Fails
        BY <2>1, <1>f
    <2>2. CASE ~Fails
        <3>1. /\ loras # Error
              /\ \/ AutoPlacement(loras, unfit)
                 \/ cmd' = [cmd EXCEPT !.pc = "shape", !.loras = loras, !.placement = FromMode(cmd.a.mode)]
            BY <1>5, <2>2, Zenon DEF Place
        <3>2. loras = ResolveLoras(cmd.w, cmd.a.alias, IF cmd.a["lora"] # None THEN cmd.a["lora"] ELSE <<>>)
            BY Zenon DEF Given
        <3> HIDE DEF loras, unfit
        <3>3. Kept(cmd, cmd') /\ cmd'.pc \in {"shape", "cloud", "failed"} /\ cmd'.loras = loras /\ (cmd'.plan = cmd.plan \/ Planned(cmd'))
            <4>1. CASE AutoPlacement(loras, unfit)
                <5> DEFINE d == Descriptor(Header[cmd.a.model])
                           projector == IF Given("mmproj") \/ cmd.w.sibling THEN cmd.w.file ELSE 0
                           c == MachineConfig(cmd.w, cmd.a.ctx, RunKv, projector, FileBytes("draft"), LoraBytes(loras))
                           p(order) == PlanPlacement(order, d, c)
                           Outcome(verdict, plan) ==
                               LET seen == [cmd EXCEPT !.pc = "shape", !.loras = loras, !.verdict = verdict, !.plan = plan]
                               IN  CASE verdict # "no_fit" ->
                                           cmd' = [seen EXCEPT !.placement = PlacementFromReport(verdict, plan, d)]
                                     [] verdict = "no_fit" /\ unfit = "cpu" -> cmd' = [seen EXCEPT !.placement = Placed(0, 0)]
                                     [] verdict = "no_fit" /\ unfit = "cloud" -> cmd' = [seen EXCEPT !.pc = "cloud"]
                                     [] OTHER -> cmd' = [seen EXCEPT !.pc = "failed"]
                <5>1. PICK order \in PackingOrders(d.tensors) : Outcome(Verdict(d, c, p(order)), p(order))
                    BY <2>2, <4>1, Zenon DEF AutoPlacement
                <5> HIDE DEF d, c, p
                <5>2. PICK verdict, plan : plan = p(order) /\ Outcome(verdict, plan)
                    BY <5>1, Zenon
                <5>3. Kept(cmd, cmd') /\ cmd'.pc \in {"shape", "cloud", "failed"} /\ cmd'.loras = loras /\ cmd'.plan = plan
                    BY <5>2 DEF CmdFields, Kept
                <5>4. cmd'.a = cmd.a /\ cmd'.w = cmd.w
                    BY <5>3 DEF Kept
                <5>5. c = PlannerConfig(cmd')
                    BY <5>3, <5>4 DEF c, PlannerConfig, RunKv, projector, FileBytes, LoraBytes, Given
                <5>6. d = Descriptor(Header[cmd'.a.model]) /\ d.tensors = Header[cmd'.a.model].tensors
                    BY <5>4 DEF d, Descriptor
                <5>7. cmd'.plan = PlanPlacement(order, Descriptor(Header[cmd'.a.model]), PlannerConfig(cmd'))
                    BY <5>2, <5>3, <5>5, <5>6 DEF p
                <5>8. Planned(cmd')
                    BY <5>1, <5>6, <5>7 DEF Planned
                <5> QED
                    BY <5>3, <5>8
            <4>2. CASE cmd' = [cmd EXCEPT !.pc = "shape", !.loras = loras, !.placement = FromMode(cmd.a.mode)]
                BY <4>2 DEF CmdFields, Kept
            <4> QED
                BY <3>1, <4>1, <4>2
        <3> QED
            BY <2>0, <3>1, <3>2, <3>3, Zenon DEF Adapts
    <2> QED
        BY <2>1, <2>2
<1>6. CASE OnUnfitCloud
    BY <1>6, <1>c DEF OnUnfitCloud, At
<1>7. CASE Shape
    <2>1. cmd.pc = "shape"
        BY <1>7 DEF Shape, At
    <2>2. CASE Fails
        BY <2>2, <1>f
    <2>3. CASE ~Fails
        <3>1. PICK p, plan :
                LET next == [cmd EXCEPT !.pc = "preflight", !.placement = p]
                IN  \/ cmd' = next
                    \/ cmd' = [next EXCEPT !.heard = Append(@, plan)]
                    \/ cmd' = [next EXCEPT !.route = plan]
            BY <1>7, <2>3, Zenon DEF Shape
        <3>2. /\ cmd'.a = cmd.a /\ cmd'.w = cmd.w /\ cmd'.think = cmd.think /\ cmd'.threads = cmd.threads
              /\ cmd'.warned = cmd.warned /\ cmd'.loras = cmd.loras /\ cmd'.plan = cmd.plan /\ cmd'.pc = "preflight"
            BY <3>1 DEF CmdFields
        <3> QED
            BY <2>1, <3>2 DEF GoesOn, Kept, Headed, Unmeasured, Unplaced
    <2> QED
        BY <2>2, <2>3
<1>8. CASE Preflight
    <2>1. cmd.pc = "preflight"
        BY <1>8 DEF Preflight, At
    <2>2. CASE Fails
        BY <2>2, <1>f
    <2>3. CASE ~Fails
        <3>1. RunDemand = Demand(cmd)
            BY Zenon DEF RunDemand, Demand, FileBytes, LoraBytes, RunKv, Given
        <3>2. PICK pc \in {"failed", "load"} :
                cmd' = [cmd EXCEPT !.pc = pc, !.warned = @ \cup DemandWarning(cmd.w.snap, RunDemand, Limit(cmd))]
            BY <1>8, <2>3 DEF Preflight, Limit
        <3> QED
            BY <2>1, <3>1, <3>2 DEF Measures, CmdFields
    <2> QED
        BY <2>2, <2>3
<1>9. CASE Load
    <2>1. cmd.pc = "load"
        BY <1>9 DEF Load, At
    <2>2. CASE Fails
        BY <2>2, <1>f
    <2>3. CASE ~Fails
        <3>1. PICK l :
                LET next == [cmd EXCEPT !.pc = "generate", !.placement = l.placement, !.context = l.context]
                IN  \/ cmd' = next
                    \/ cmd' = [next EXCEPT !.heard = Append(@, "native")]
                    \/ cmd' = [next EXCEPT !.heard = Append(@, "transcribe")]
            BY <1>9, <2>3, Zenon DEF Load
        <3>2. /\ cmd'.a = cmd.a /\ cmd'.w = cmd.w /\ cmd'.think = cmd.think /\ cmd'.threads = cmd.threads
              /\ cmd'.warned = cmd.warned /\ cmd'.loras = cmd.loras /\ cmd'.plan = cmd.plan /\ cmd'.pc = "generate"
            BY <3>1 DEF CmdFields
        <3> QED
            BY <2>1, <3>2 DEF GoesOn, Kept, Headed, Unmeasured, Unplaced
    <2> QED
        BY <2>2, <2>3
<1>10. CASE Generate
    <2>1. cmd.pc = "generate" /\ (Fails \/ cmd' = [cmd EXCEPT !.pc = "done", !.via = "local"])
        BY <1>10 DEF Generate, At
    <2> QED
        BY <1>e, <1>f, <2>1
<1> QED
    BY <1>1, <1>2, <1>3, <1>4, <1>5, <1>6, <1>7, <1>8, <1>9, <1>10 DEF RunStep

\* Threads are None or a positive number, and adapters a list, once no place
\* they come from was refused.
LEMMA ThreadsType ==
    ASSUME NEW a, CommandOK(a), NEW w, MachineOK(w), ResolveThreads(w, a["threads"]) # Error
    PROVE  ResolveThreads(w, a["threads"]) \in Nat \cup {None}
<1> DEFINE V == Int \cup {None, Error}
           n == Layered(a["threads"], w.env.threads, LastOf(w, "threads"), None)
<1>1. ASSUME NEW f, FileOK(f) PROVE Read(f, "threads") \in V
    BY <1>1 DEF Read, FileOK
<1>2. Read(w.user, "threads") \in V /\ Read(w.local, "threads") \in V /\ w.env.threads \in V /\ a["threads"] \in V
    BY <1>1 DEF MachineOK, CommandOK
<1>3. LastOf(w, "threads") \in V
    BY <1>2 DEF LastOf, FromUser, Or
<1>4. n \in V
    BY <1>2, <1>3 DEF Layered, Or
<1>5. ResolveThreads(w, a["threads"]) = CheckThreads(n)
    BY Zenon DEF ResolveThreads
<1> HIDE DEF n
<1> QED
    BY <1>4, <1>5 DEF CheckThreads

LEMMA LorasType ==
    ASSUME NEW w, MachineOK(w), NEW alias, NEW flags \in Loras, ResolveLoras(w, alias, flags) # Error
    PROVE  ResolveLoras(w, alias, flags) \in Loras
<1> DEFINE V == Loras \cup {None, Error}
           l1 == FromUser(w, "loras")
           l2 == IF alias THEN FromUser(w, "alias_loras") ELSE None
           l3 == Read(w.local, "loras")
           l4 == IF alias THEN Read(w.local, "alias_loras") ELSE None
           lists == <<l1, l2, l3, l4, flags>>
           Of(i) == Or(lists[i], <<>>)
<1>1. ASSUME NEW f, FileOK(f) PROVE Read(f, "loras") \in V /\ Read(f, "alias_loras") \in V
    BY <1>1 DEF Read, FileOK
<1>2. /\ Read(w.user, "loras") \in V /\ Read(w.user, "alias_loras") \in V
      /\ Read(w.local, "loras") \in V /\ Read(w.local, "alias_loras") \in V
    BY <1>1 DEF MachineOK
<1>3. l1 \in V /\ l2 \in V /\ l3 \in V /\ l4 \in V
    BY <1>2 DEF FromUser
<1>4. ResolveLoras(w, alias, flags) =
        IF \E i \in 1..5 : lists[i] = Error THEN Error ELSE Of(1) \o Of(2) \o Of(3) \o Of(4) \o Of(5)
    BY Zenon DEF ResolveLoras
<1>5. \A i \in 1..5 : lists[i] # Error
    BY <1>4
<1> HIDE DEF l1, l2, l3, l4
<1>e. lists[1] = l1 /\ lists[2] = l2 /\ lists[3] = l3 /\ lists[4] = l4 /\ lists[5] = flags
    OBVIOUS
<1>6. l1 # Error /\ l2 # Error /\ l3 # Error /\ l4 # Error /\ flags # Error
    BY <1>5, <1>e
<1>7. <<>> \in Loras
    BY DEF Loras
<1>8. ASSUME NEW l \in V, l # Error PROVE Or(l, <<>>) \in Loras
    BY <1>7, <1>8 DEF Or
<1> HIDE DEF lists
<1>9. Of(1) \in Loras /\ Of(2) \in Loras /\ Of(3) \in Loras /\ Of(4) \in Loras /\ Of(5) \in Loras
    BY <1>3, <1>6, <1>8, <1>e
<1>10. ASSUME NEW p \in Loras, NEW q \in Loras PROVE p \o q \in Loras
    BY <1>10, ConcatProperties DEF Loras
<1> HIDE DEF Of
<1>11. Of(1) \o Of(2) \o Of(3) \o Of(4) \o Of(5) \in Loras
    BY <1>9, <1>10
<1> QED
    BY <1>4, <1>5, <1>11, Zenon

\* A description that the estimates can read.
Measured(d) ==
    /\ d.layers \in Nat /\ d.embd \in Nat \ {0} /\ d.heads \in Nat /\ d.headsKv \in Nat /\ d.headDim \in Nat
    /\ d.vocab \in Nat /\ d.window \in Nat /\ d.mla \in Nat

LEMMA DescriptorMeasured == ASSUME NEW h \in Headers PROVE Measured(Descriptor(h))
<1> DEFINE d == Descriptor(h)
<1>1. /\ h.layers \in Nat /\ h.embd \in Nat \ {0} /\ h.heads \in Nat \ {0} /\ h.headsKv \in Nat /\ h.vocab \in Nat
      /\ h.window \in Nat /\ h.mla \in Nat
    BY DEF Headers
<1>2. /\ d.layers = h.layers /\ d.embd = h.embd /\ d.heads = h.heads /\ d.headsKv = h.headsKv
      /\ d.headDim = h.embd \div h.heads /\ d.vocab = h.vocab /\ d.window = h.window /\ d.mla = h.mla
    BY DEF Descriptor
<1>3. h.embd \div h.heads \in Nat
    BY <1>1, Quotient
<1> HIDE DEF d
<1>4. Measured(d)
    BY <1>1, <1>2, <1>3 DEF Measured
<1> QED
    BY <1>4 DEF d

\* Bytes are counted in natural numbers.
LEMMA EstimatesNat ==
    ASSUME NEW d, Measured(d), NEW ctx \in Nat, NEW kv
    PROVE  EstimateKv(d, ctx, kv) \in Nat /\ EstimateCompute(d, Ubatch) \in Nat
<1>p. ASSUME NEW m \in Nat, NEW n \in Nat PROVE m * n \in Nat /\ m + n \in Nat
    OBVIOUS
<1>q. ASSUME NEW m \in Nat, NEW n \in Nat \ {0} PROVE m \div n \in Nat
    BY Quotient
<1>3. Ubatch \in Nat
    BY FitAssumption
<1>5. /\ d.layers \in Nat /\ d.embd \in Nat \ {0} /\ d.heads \in Nat /\ d.headsKv \in Nat /\ d.headDim \in Nat
      /\ d.vocab \in Nat /\ d.window \in Nat /\ d.mla \in Nat
    BY DEF Measured
<1>6. EstimateKv(d, ctx, kv) \in Nat
    <2> DEFINE seen == IF d.mla = 0 /\ d.window > 0 /\ d.window < ctx THEN d.window ELSE ctx
               elements == IF d.mla > 0 THEN 2 * (d.mla + d.headDim) ELSE 2 * d.headsKv * d.headDim
    <2>1. seen \in Nat
        BY <1>3, <1>5
    <2>2. elements \in Nat
        <3>1. 2 * (d.mla + d.headDim) \in Nat /\ 2 * d.headsKv \in Nat
            BY <1>5
        <3>2. 2 * d.headsKv * d.headDim \in Nat
            BY <1>5, <1>p, <3>1
        <3> QED
            BY <3>1, <3>2
    <2>3. KvElement(kv) \in Nat
        BY DEF KvElement
    <2>4. EstimateKv(d, ctx, kv) = d.layers * ((seen * elements * KvElement(kv)) \div 32)
        BY Zenon DEF EstimateKv
    <2> HIDE DEF seen, elements
    <2>5. seen * elements * KvElement(kv) \in Nat
        BY <2>1, <2>2, <2>3, <1>p
    <2>6. 32 \in Nat \ {0}
        OBVIOUS
    <2>7. (seen * elements * KvElement(kv)) \div 32 \in Nat
        BY <2>5, <2>6, <1>q
    <2> QED
        BY <2>4, <2>7, <1>5, <1>p
<1>7. EstimateCompute(d, Ubatch) \in Nat
    <2> DEFINE n == Ubatch
               s1 == n * d.embd * 4
               s2 == n * d.embd * 4 * d.layers
               s3 == n * d.heads * d.headDim * 2 * d.layers
               s4 == n * d.embd * 8 * d.layers
               s5 == (n * d.vocab * 2) \div d.embd
               raw == s1 + s2 + s3 + s4 + s5
    <2>0. n \in Nat /\ d.embd \in Nat /\ 2 \in Nat /\ 4 \in Nat /\ 8 \in Nat /\ 115 \in Nat /\ 100 \in Nat \ {0}
        BY <1>3, <1>5
    <2>e. EstimateCompute(d, Ubatch) = (raw * 115) \div 100
        BY Zenon DEF EstimateCompute
    <2> HIDE DEF n
    <2>1. s1 \in Nat
        BY <2>0, <1>5, <1>p
    <2>2. s2 \in Nat
        BY <2>0, <2>1, <1>5, <1>p
    <2>3. s3 \in Nat
        <3>1. n * d.heads \in Nat
            BY <2>0, <1>5, <1>p
        <3>2. n * d.heads * d.headDim \in Nat
            BY <3>1, <1>5, <1>p
        <3>3. n * d.heads * d.headDim * 2 \in Nat
            BY <2>0, <3>2, <1>p
        <3> QED
            BY <3>3, <1>5, <1>p
    <2>4. s4 \in Nat
        <3>1. n * d.embd \in Nat
            BY <2>0, <1>5, <1>p
        <3>2. n * d.embd * 8 \in Nat
            BY <2>0, <3>1, <1>p
        <3> QED
            BY <3>2, <1>5, <1>p
    <2>5. s5 \in Nat
        <3>1. n * d.vocab \in Nat
            BY <2>0, <1>5, <1>p
        <3>2. n * d.vocab * 2 \in Nat
            BY <2>0, <3>1, <1>p
        <3> QED
            BY <3>2, <1>5, <1>q
    <2> HIDE DEF s1, s2, s3, s4, s5
    <2>6. raw \in Nat
        BY <2>1, <2>2, <2>3, <2>4, <2>5
    <2> HIDE DEF raw
    <2>7. raw * 115 \in Nat
        BY <2>6
    <2> QED
        BY <2>0, <2>e, <2>7, <1>q
<1> QED
    BY <1>6, <1>7

LEMMA DemandNat ==
    ASSUME NEW c, CommandOK(c.a), MachineOK(c.w), HasHeader(c), c.loras \in Loras
    PROVE  Demand(c) \in Nat /\ Len(c.loras) * c.w.file \in Nat
<1> DEFINE d == Descriptor(Header[c.a.model])
           kv == PlannerKv(Or(c.a["kv_k"], c.a["kv"]), Or(c.a["kv_v"], c.a["kv"]))
           extra == IF c.a["draft"] # None THEN c.w.file ELSE 0
<1>1. c.a.ctx \in Nat /\ c.w.file \in Nat /\ Header[c.a.model] \in Headers /\ Len(c.loras) \in Nat
    BY DEF CommandOK, MachineOK, HasHeader, Loras
<1>2. EstimateKv(d, c.a.ctx, kv) \in Nat /\ EstimateCompute(d, Ubatch) \in Nat
    BY <1>1, DescriptorMeasured, EstimatesNat
<1>3. Len(c.loras) * c.w.file \in Nat
    BY <1>1
<1>4. extra \in Nat
    BY <1>1
<1>5. Demand(c) = EstimateKv(d, c.a.ctx, kv) + EstimateCompute(d, Ubatch) + extra + Len(c.loras) * c.w.file
    BY Zenon DEF Demand
<1> HIDE DEF d, kv, extra
<1> QED
    BY <1>2, <1>3, <1>4, <1>5

\* What a limit refuses.
LEMMA LimitType == ASSUME NEW c, Limit(c) # Error PROVE Limit(c) \in 1..100
BY DEF Limit, ResolveMaxLoad, CheckMaxLoad

\* The warnings of the settings are not about the model; the one of the
\* preflight is.
LEMMA WarningKinds ==
    ASSUME NEW snap \in [total : Nat, avail : Nat, cpus : Nat], NEW threads, NEW limit \in Nat
    PROVE  /\ \A x \in LoadWarnings(snap, 0, threads, limit) : x.kind # "demand"
           /\ \A demand \in Nat : \A x \in DemandWarning(snap, demand, limit) :
                  x.kind = "demand" /\ x \in LoadWarnings(snap, demand, threads, limit)
<1>1. \A kind, part, total : \A x \in Warning(kind, part, total) : x.kind = kind
    BY DEF Warning
<1>2. DemandWarning(snap, 0, limit) = {}
    BY DEF DemandWarning
<1>3. \A x \in LoadWarnings(snap, 0, threads, limit) : x.kind \in {"used", "threads"}
    BY <1>1, <1>2 DEF LoadWarnings
<1>4. ASSUME NEW demand \in Nat, NEW x \in DemandWarning(snap, demand, limit)
      PROVE  x.kind = "demand" /\ x \in LoadWarnings(snap, demand, threads, limit)
    <2>1. snap.total > 0 /\ x \in Warning("demand", demand, snap.total)
        BY <1>4 DEF DemandWarning
    <2>2. snap.total # 0
        BY <2>1
    <2> QED
        BY <1>1, <1>4, <2>1, <2>2 DEF LoadWarnings
<1> QED
    BY <1>3, <1>4

\* A warning lasts while its threads and, if it is about the model, its demand do.
LEMMA WarnedStill ==
    ASSUME NEW c, NEW d, NEW x, Warned(c, x), d.a = c.a, d.w = c.w, d.threads = c.threads,
           x.kind # "demand" \/ d.loras = c.loras
    PROVE  Warned(d, x)
<1>1. d.loras = c.loras => Demand(d) = Demand(c)
    BY DEF Demand
<1> QED
    BY <1>1 DEF Warned

LEMMA SettledStep ==
    ASSUME NEW c, Settled(c), NEW d,
           Stops(c, d) \/ Settles(c, d) \/ GoesOn(c, d) \/ Adapts(c, d) \/ Measures(c, d)
    PROVE  Settled(d)
<1>0. /\ CommandOK(c.a) /\ MachineOK(c.w) /\ c.threads \in Nat \cup {None} /\ c.loras \in Loras
      /\ \A x \in c.warned : (x.kind = "demand" => HasHeader(c)) /\ Warned(c, x)
      /\ c.w.snap \in [total : Nat, avail : Nat, cpus : Nat]
    BY DEF Settled, MachineOK
<1>k. ASSUME d.a = c.a, d.w = c.w
      PROVE  (HasHeader(c) => HasHeader(d)) /\ Limit(d) = Limit(c) /\ CommandOK(d.a) /\ MachineOK(d.w)
             /\ ThinkOf(d.w, FlagThink(d.a)) = ThinkOf(c.w, FlagThink(c.a))
    BY <1>0, <1>k DEF HasHeader, Limit
<1>1. CASE Stops(c, d)
    <2>1. \A x \in d.warned : (x.kind = "demand" => HasHeader(d)) /\ Warned(d, x)
        BY <1>0, <1>1, <1>k, WarnedStill DEF Stops, Kept
    <2> QED
        BY <1>0, <1>1, <1>k, <2>1 DEF Settled, Stops, Kept, Headed, Unmeasured, Unplaced
<1>2. CASE Settles(c, d)
    <2>1. d.threads \in Nat \cup {None}
        BY <1>0, <1>2, ThreadsType DEF Settles
    <2>2. Limit(c) \in 1..100
        BY <1>2, LimitType DEF Settles
    <2>3. \A x \in d.warned : x.kind # "demand"
        BY <1>0, <1>2, <2>2, WarningKinds DEF Settles
    <2>4. \A x \in d.warned : Warned(d, x)
        BY <1>2, <2>2, <2>3 DEF Settles, Warned
    <2> QED
        BY <1>0, <1>2, <1>k, <2>1, <2>2, <2>3, <2>4 DEF Settled, Settles, Headed, Unmeasured, Unplaced
<1>3. CASE GoesOn(c, d)
    <2>1. \A x \in d.warned : (x.kind = "demand" => HasHeader(d)) /\ Warned(d, x)
        BY <1>0, <1>3, <1>k, WarnedStill DEF GoesOn, Kept
    <2>2. d.pc \in Headed => HasHeader(d)
        <3>1. RunKind[c.a.model] = "gguf" /\ c.a.model # "cloud" => HasHeader(c)
            BY <1>0, RunAssumption DEF CommandOK, HasHeader
        <3> QED
            BY <1>3, <1>k, <3>1 DEF GoesOn, Kept, Settled
    <2>3. d.pc \in Unmeasured => \A x \in d.warned : x.kind # "demand"
        BY <1>3 DEF GoesOn, Kept, Settled
    <2>4. d.think = ThinkOf(d.w, FlagThink(d.a)) /\ d.think # Error /\ Limit(d) \in 1..100
        BY <1>3, <1>k DEF GoesOn, Kept, Settled
    <2> QED
        BY <1>0, <1>3, <1>k, <2>1, <2>2, <2>3, <2>4 DEF Settled, GoesOn, Kept
<1>4. CASE Adapts(c, d)
    <2>1. \A x \in d.warned : x.kind # "demand"
        BY <1>4 DEF Adapts, Kept, Settled, Unmeasured, Unplaced
    <2>2. \A x \in d.warned : Warned(d, x)
        BY <1>0, <1>4, <2>1, WarnedStill DEF Adapts, Kept
    <2>3. d.loras \in Loras
        <3>1. (IF c.a["lora"] # None THEN c.a["lora"] ELSE <<>>) \in Loras
            BY <1>0 DEF CommandOK, Loras
        <3> QED
            BY <1>0, <1>4, <3>1, LorasType DEF Adapts
    <2>4. d.think = ThinkOf(d.w, FlagThink(d.a)) /\ d.think # Error /\ Limit(d) \in 1..100 /\ HasHeader(d)
        BY <1>4, <1>k DEF Adapts, Kept, Settled, Headed
    <2> QED
        BY <1>0, <1>4, <1>k, <2>1, <2>2, <2>3, <2>4 DEF Settled, Adapts, Kept
<1>5. CASE Measures(c, d)
    <2>1. d.think = ThinkOf(d.w, FlagThink(d.a)) /\ d.think # Error /\ Limit(c) \in 1..100 /\ HasHeader(c)
        BY <1>5, <1>k DEF Measures, Settled, Headed
    <2>2. Demand(c) \in Nat
        BY <1>0, <2>1, DemandNat
    <2>3. ASSUME NEW x \in DemandWarning(c.w.snap, Demand(c), Limit(c)) PROVE Warned(d, x)
        <3>1. Limit(c) \in Nat
            BY <2>1
        <3>2. x.kind = "demand" /\ x \in LoadWarnings(c.w.snap, Demand(c), c.threads, Limit(c))
            BY <1>0, <2>2, <2>3, <3>1, WarningKinds
        <3>3. Warned(c, x)
            BY <2>1, <3>2 DEF Warned
        <3> QED
            BY <1>5, <3>3, WarnedStill DEF Measures
    <2>4. \A x \in c.warned : Warned(d, x)
        BY <1>0, <1>5, WarnedStill DEF Measures
    <2>5. \A x \in d.warned : Warned(d, x)
        BY <1>5, <2>3, <2>4 DEF Measures
    <2>6. HasHeader(d) /\ Limit(d) \in 1..100
        BY <1>5, <1>k, <2>1 DEF Measures
    <2> QED
        BY <1>0, <1>5, <1>k, <2>1, <2>5, <2>6 DEF Settled, Measures, Unmeasured, Unplaced
<1> QED
    BY <1>1, <1>2, <1>3, <1>4, <1>5

LEMMA SettledAlways == Spec => []SettledInv
<1>1. CliInit => SettledInv
    BY DEF CliInit, SettledInv
<1>2. RunInv /\ SettledInv /\ [Next]_cliVars => SettledInv'
    <2> SUFFICES ASSUME RunInv, SettledInv, [Next]_cliVars PROVE SettledInv'
        OBVIOUS
    <2>1. CASE UNCHANGED cmd
        BY <2>1 DEF SettledInv
    <2>2. CASE StartRun
        <3>1. PICK i \in Invocations :
                LET inline == \E n \in DOMAIN ConfigFiles(i.w) : ConfigFiles(i.w)[n].exists /\ ConfigFiles(i.w)[n].secret
                IN  cmd' = [Command(i.a, i.w) EXCEPT !.pc = IF inline THEN "failed" ELSE @]
            BY <2>2 DEF StartRun
        <3>2. PICK pc \in {"start", "failed"} : cmd' = [Command(i.a, i.w) EXCEPT !.pc = pc]
            BY <3>1 DEF Command
        <3>3. /\ cmd'.pc = pc /\ cmd'.a = i.a /\ cmd'.w = i.w /\ cmd'.threads = None /\ cmd'.loras = <<>>
              /\ cmd'.warned = {}
            BY <3>2 DEF Command
        <3>4. CommandOK(i.a) /\ MachineOK(i.w) /\ <<>> \in Loras
            BY CliAssumption DEF Loras
        <3>5. Settled(cmd')
            BY <3>3, <3>4 DEF Settled, Headed
        <3> QED
            BY <3>5 DEF SettledInv
    <2>3. CASE cmd # None /\ RunStep
        <3>1. DOMAIN cmd = CmdFields /\ Settled(cmd)
            BY <2>3 DEF RunInv, SettledInv
        <3>2. Settled(cmd')
            BY <2>3, <3>1, RunMoves, SettledStep
        <3> QED
            BY <3>2 DEF SettledInv
    <2> QED
        BY <2>1, <2>2, <2>3 DEF Next, Recommend, StartSession, cliVars
<1> QED
    BY <1>1, <1>2, RunAlways, PTL DEF Spec

\* resolve_think, for every file, variable and flag: the strongest layer that
\* says how to think decides it alone, the strongest that says whether to show
\* it decides that, and a layer that contradicts itself ends the command.
THEOREM ThinkAlwaysAsAsked == Spec => []ThinkAsAsked
<1>1. SettledInv => ThinkAsAsked
    <2> SUFFICES ASSUME cmd # None, Settled(cmd), cmd.pc \notin {"start", "failed"} PROVE ThinkAsAsked
        BY Zenon DEF ThinkAsAsked, SettledInv
    <2> DEFINE layers == ThinkLayers(cmd.w, FlagThink(cmd.a))
               n == Len(layers)
               c == cmd.think
               says == {i \in DOMAIN layers : \E k \in {"think", "budget", "effort"} : layers[i][k] # None}
               shows == {i \in DOMAIN layers : layers[i].show # None}
    <2>1. layers \in Seq(Overrides \cup {Error}) /\ c = ResolveThink(layers) /\ c # Error
        BY LayersType DEF Settled, ThinkOf
    <2>2. layers = ThinkLayers(cmd.w, IF Given("think") THEN cmd.a["think"] ELSE NoOverrides)
        BY Zenon DEF Given, FlagThink
    <2> HIDE DEF layers, c
    <2>3. Decided(layers, n, c)
        BY <2>1, ResolvedDecided
    <2>4. n \in Nat /\ DOMAIN layers = 1..n
        BY <2>1
    <2> HIDE DEF n
    <2>5. \A i \in DOMAIN layers : Clear(layers[i]) /\ layers[i] # Error
        BY <2>3, <2>4 DEF Decided, Clear
    <2>6. \A i \in DOMAIN layers : i \in says <=> Says(layers[i])
        BY DEF Says
    <2>7. says \in SUBSET (1..n) /\ shows \in SUBSET (1..n)
        BY <2>4
    <2>8. \A i \in DOMAIN layers : i \in shows <=> layers[i].show # None
        OBVIOUS
    <2> HIDE DEF says, shows
    <2>9. c.show = (shows # {} /\ layers[Max(shows)].show)
        <3>1. CASE shows = {}
            <4>1. c.show = FALSE
                BY <2>3, <2>4, <2>8, <3>1 DEF Decided
            <4> QED
                BY <3>1, <4>1
        <3>2. CASE shows # {}
            <4> DEFINE m == Max(shows)
            <4>1. m \in shows /\ \A j \in shows : m >= j
                BY <2>4, <2>7, <3>2, UpperMax
            <4> HIDE DEF m
            <4>2. m \in 1..n /\ \A k \in m + 1..n : k \in 1..n /\ k \notin shows
                BY <2>4, <2>7, <4>1
            <4>3. LastShow(layers, n, m)
                BY <2>4, <2>8, <4>1, <4>2 DEF LastShow
            <4>4. c.show = layers[m].show
                BY <2>3, <4>2, <4>3 DEF Decided
            <4>5. layers[m].show \in BOOLEAN
                BY <2>1, <2>4, <2>5, <2>8, <4>1, <4>2 DEF Overrides
            <4>6. layers[m].show = (shows # {} /\ layers[m].show)
                BY <3>2, <4>5
            <4> QED
                BY <4>4, <4>6 DEF m
        <3> QED
            BY <3>1, <3>2
    <2>10. IF says = {} THEN c.mode = "off" ELSE ModeBy(c, layers[Max(says)])
        <3>1. CASE says = {}
            BY <2>3, <2>4, <2>6, <3>1 DEF Decided
        <3>2. CASE says # {}
            <4> DEFINE m == Max(says)
            <4>1. m \in says /\ \A j \in says : m >= j
                BY <2>4, <2>7, <3>2, UpperMax
            <4> HIDE DEF m
            <4>2. m \in 1..n /\ \A k \in m + 1..n : k \in 1..n /\ k \notin says
                BY <2>4, <2>7, <4>1
            <4>3. LastSays(layers, n, m)
                BY <2>4, <2>6, <4>1, <4>2 DEF LastSays
            <4>4. ModeBy(c, layers[m])
                BY <2>3, <4>2, <4>3 DEF Decided
            <4> QED
                BY <3>2, <4>4 DEF m
        <3> QED
            BY <3>1, <3>2
    <2> QED
        BY <2>2, <2>5, <2>9, <2>10, Zenon DEF ThinkAsAsked, Clear, ModeBy, says, shows, c
<1> QED
    BY <1>1, SettledAlways, PTL

\* system_load_warnings and preflight_grow, for every machine, model and flag:
\* the percent that a warning names silences it for this run, unless it is 100,
\* and no smaller limit does.
THEOREM LimitAlwaysSuffices == Spec => []LimitSuffices
<1>1. SettledInv => LimitSuffices
    <2> DEFINE About(kind, limit) ==
            \E x \in LoadWarnings(cmd.w.snap, IF kind = "demand" THEN RunDemand ELSE 0, cmd.threads, limit) : x.kind = kind
    <2> SUFFICES ASSUME cmd # None, Settled(cmd), NEW x \in cmd.warned
                 PROVE  /\ x.percent = 100 \/ ~About(x.kind, x.percent)
                        /\ \A limit \in 1..x.percent - 1 : About(x.kind, limit)
        BY Zenon DEF LimitSuffices, SettledInv
    <2> DEFINE demand == IF x.kind = "demand" THEN Demand(cmd) ELSE 0
    <2>1. RunDemand = Demand(cmd)
        BY Zenon DEF RunDemand, Demand, FileBytes, LoraBytes, RunKv, Given
    <2>2. demand \in Nat
        BY DemandNat DEF Settled
    <2>3. PICK limit \in 1..100 : x \in LoadWarnings(cmd.w.snap, demand, cmd.threads, limit)
        BY DEF Settled, Warned
    <2>4. \A l : About(x.kind, l) <=> \E y \in LoadWarnings(cmd.w.snap, demand, cmd.threads, l) : y.kind = x.kind
        BY <2>1, Zenon
    <2>5. cmd.w.snap \in [total : Nat, avail : Nat, cpus : Nat] /\ (cmd.threads = None \/ cmd.threads \in Nat)
        BY DEF Settled, MachineOK
    <2> HIDE DEF demand, About
    <2>6. NamesLimit(cmd.w.snap, demand, cmd.threads, x)
        BY <2>2, <2>3, <2>5, LimitNamed
    <2> QED
        BY <2>4, <2>6, Zenon DEF NamesLimit
<1> QED
    BY <1>1, SettledAlways, PTL

-----------------------------------------------------------------------------
(* The planner: bytes of sets of tensors.                                  *)

\* A sum of weights over the subsets of S, as a fold takes it.
FoldsTo(f, S, weight) ==
    f = [s \in SUBSET S |-> IF s = {} THEN 0
                            ELSE f[s \ {CHOOSE x \in s : TRUE}] + weight[CHOOSE x \in s : TRUE]]

Weighs(S, weight) == IsFiniteSet(S) /\ \A t \in S : weight[t] \in Nat

\* The same for the bytes of tensors.
Sums(f, S) ==
    f = [s \in SUBSET S |-> IF s = {} THEN 0
                            ELSE f[s \ {CHOOSE x \in s : TRUE}] + (CHOOSE x \in s : TRUE).bytes]

Counted(S) == IsFiniteSet(S) /\ \A t \in S : t.bytes \in Nat

\* One element less.
LEMMA OneLess ==
    ASSUME NEW s, IsFiniteSet(s), s # {}, NEW x, x = CHOOSE y \in s : TRUE
    PROVE  /\ x \in s /\ IsFiniteSet(s \ {x}) /\ Cardinality(s \ {x}) = Cardinality(s) - 1
           /\ Cardinality(s) \in Nat \ {0}
<1>1. x \in s
    OBVIOUS
<1>2. Cardinality(s) \in Nat /\ Cardinality(s) # 0
    BY FS_CardinalityType, FS_EmptySet
<1> QED
    BY <1>1, <1>2, FS_RemoveElement

LEMMA FoldExists ==
    ASSUME NEW S, NEW weight, Weighs(S, weight)
    PROVE  \E f \in [SUBSET S -> Nat] : FoldsTo(f, S, weight)
<1> DEFINE n == Cardinality(S)
           Level(k) == {s \in SUBSET S : Cardinality(s) <= k}
           Body(f, s) == IF s = {} THEN 0 ELSE f[s \ {CHOOSE x \in s : TRUE}] + weight[CHOOSE x \in s : TRUE]
           Good(k) == \E f \in [Level(k) -> Nat] : \A s \in Level(k) : f[s] = Body(f, s)
           T == {k \in 0..n : Good(k)}
<1>1. n \in Nat
    BY FS_CardinalityType DEF Weighs
<1>2. \A s \in SUBSET S : IsFiniteSet(s) /\ Cardinality(s) <= n /\ Cardinality(s) \in Nat
    BY FS_Subset, FS_CardinalityType DEF Weighs
<1>3. ASSUME NEW k \in Nat, NEW s \in Level(k + 1), s # {}
      PROVE  LET x == CHOOSE y \in s : TRUE IN x \in S /\ weight[x] \in Nat /\ s \ {x} \in Level(k)
    <2> DEFINE x == CHOOSE y \in s : TRUE
    <2>1. x \in s /\ Cardinality(s \ {x}) = Cardinality(s) - 1 /\ Cardinality(s) \in Nat
        BY <1>2, <1>3, OneLess
    <2> HIDE DEF x
    <2>2. s \ {x} \in SUBSET S /\ x \in S
        BY <2>1
    <2>3. Cardinality(s \ {x}) <= k
        BY <2>1
    <2>4. weight[x] \in Nat
        BY <2>2 DEF Weighs
    <2>5. s \ {x} \in Level(k)
        BY <2>2, <2>3
    <2> QED
        BY <2>2, <2>4, <2>5 DEF x
<1>4. 0 \in T
    <2> DEFINE f == [s \in Level(0) |-> 0]
    <2>1. \A s \in Level(0) : s = {}
        BY <1>2, FS_EmptySet
    <2>2. Good(0)
        <3>1. f \in [Level(0) -> Nat]
            OBVIOUS
        <3>2. \A s \in Level(0) : f[s] = Body(f, s)
            BY <2>1
        <3> QED
            BY <3>1, <3>2
    <2> HIDE DEF Good
    <2> QED
        BY <1>1, <2>2
<1>5. ASSUME NEW k \in 0..n - 1, k \in T PROVE k + 1 \in T
    <2>0. k \in Nat /\ k + 1 \in 0..n
        BY <1>1
    <2>1. PICK f \in [Level(k) -> Nat] : \A s \in Level(k) : f[s] = Body(f, s)
        BY <1>5
    <2> DEFINE g == [s \in Level(k + 1) |-> Body(f, s)]
    <2>2. \A s \in Level(k + 1) : Body(f, s) \in Nat
        <3> SUFFICES ASSUME NEW s \in Level(k + 1), s # {} PROVE Body(f, s) \in Nat
            OBVIOUS
        <3> DEFINE x == CHOOSE y \in s : TRUE
        <3>1. weight[x] \in Nat /\ s \ {x} \in Level(k)
            BY <1>3, <2>0
        <3> HIDE DEF x, Level
        <3>2. f[s \ {x}] + weight[x] \in Nat
            BY <2>1, <3>1
        <3> QED
            BY <3>2 DEF x
    <2>3. g \in [Level(k + 1) -> Nat]
        BY <2>2
    <2>4. \A s \in Level(k) : s \in Level(k + 1)
        BY <1>2, <2>0
    <2>5. \A s \in Level(k) : g[s] = f[s]
        BY <2>1, <2>4
    <2>6. ASSUME NEW s \in Level(k + 1) PROVE g[s] = Body(g, s)
        <3>1. CASE s = {}
            BY <3>1
        <3>2. CASE s # {}
            <4> DEFINE x == CHOOSE y \in s : TRUE
            <4>1. s \ {x} \in Level(k)
                BY <1>3, <2>0, <3>2
            <4>2. g[s] = f[s \ {x}] + weight[x]
                BY <3>2
            <4> HIDE DEF g, Level
            <4>3. g[s \ {x}] = f[s \ {x}]
                BY <2>5, <4>1
            <4> QED
                BY <3>2, <4>2, <4>3
        <3> QED
            BY <3>1, <3>2
    <2> HIDE DEF g, Level, Body
    <2>7. Good(k + 1)
        BY <2>3, <2>6
    <2> QED
        BY <2>0, <2>7
<1>6. Good(n)
    <2>1. n \in 0..n
        BY <1>1
    <2> HIDE DEF T
    <2>2. n \in T
        BY <1>1, <1>4, <1>5, <2>1, UpTo
    <2> QED
        BY <2>2 DEF T
<1>7. Level(n) = SUBSET S
    BY <1>2
<1>8. PICK f \in [SUBSET S -> Nat] : \A s \in SUBSET S : f[s] = Body(f, s)
    BY <1>6, <1>7
<1>9. f = [s \in SUBSET S |-> Body(f, s)]
    BY <1>8
<1> QED
    BY <1>8, <1>9, Zenon DEF FoldsTo

\* There is one sum.
LEMMA FoldUnique ==
    ASSUME NEW S, NEW weight, Weighs(S, weight), NEW T \in SUBSET S, NEW f, FoldsTo(f, S, weight), NEW g, FoldsTo(g, T, weight)
    PROVE  \A s \in SUBSET T : g[s] = f[s]
<1> DEFINE Bad == {s \in SUBSET T : g[s] # f[s]}
           K == {Cardinality(s) : s \in Bad}
<1> SUFFICES ASSUME Bad # {} PROVE FALSE
    OBVIOUS
<1>1. \A s \in SUBSET T : s \in SUBSET S /\ IsFiniteSet(s) /\ Cardinality(s) \in Nat
    BY FS_Subset, FS_CardinalityType DEF Weighs
<1>2. K \in SUBSET Nat /\ K # {}
    BY <1>1
<1>3. PICK m \in K : \A k \in K : m <= k
    <2> HIDE DEF K
    <2> QED
        BY <1>2, NatMin
<1>4. PICK s \in Bad : m = Cardinality(s)
    OBVIOUS
<1> DEFINE x == CHOOSE y \in s : TRUE
<1>5. s \in SUBSET T /\ s \in SUBSET S /\ g[s] # f[s]
    BY <1>1
<1>6. s # {}
    <2>1. {} \in SUBSET T /\ {} \in SUBSET S
        OBVIOUS
    <2>2. f[{}] = 0 /\ g[{}] = 0
        BY <2>1 DEF FoldsTo
    <2> QED
        BY <1>5, <2>2
<1>7. x \in s /\ Cardinality(s \ {x}) = m - 1 /\ m \in Nat \ {0}
    BY <1>1, <1>4, <1>5, <1>6, OneLess
<1>8. f[s] = f[s \ {x}] + weight[x] /\ g[s] = g[s \ {x}] + weight[x]
    BY <1>5, <1>6 DEF FoldsTo
<1>9. s \ {x} \in Bad
    BY <1>5, <1>8
<1>10. m <= m - 1
    BY <1>3, <1>7, <1>9
<1> QED
    BY <1>7, <1>10


\* Weighed is that sum.
LEMMA WeighedIs ==
    ASSUME NEW S, NEW weight, Weighs(S, weight), NEW f, FoldsTo(f, S, weight), NEW T \in SUBSET S
    PROVE  Weighed(T, weight) = f[T]
<1> DEFINE iter == CHOOSE g : FoldsTo(g, T, weight)
<1>1. Weighed(T, weight) = iter[T]
    BY DEF Weighed, FoldSet, MapThenFoldSet, FoldsTo
<1>2. Weighs(T, weight)
    BY FS_Subset DEF Weighs
<1>3. FoldsTo(iter, T, weight)
    BY <1>2, FoldExists, Zenon
<1> HIDE DEF iter
<1>4. \A s \in SUBSET T : iter[s] = f[s]
    BY <1>3, FoldUnique
<1> QED
    BY <1>1, <1>4

LEMMA WeighedNat ==
    ASSUME NEW S, NEW weight, Weighs(S, weight), NEW T \in SUBSET S
    PROVE  Weighed(T, weight) \in Nat
<1>1. PICK f \in [SUBSET S -> Nat] : FoldsTo(f, S, weight)
    BY FoldExists
<1> QED
    BY <1>1, WeighedIs

\* Bytes are a weight.
LEMMA BytesWeigh ==
    ASSUME NEW S, Counted(S), NEW weight, weight = [t \in S |-> t.bytes], NEW T \in SUBSET S
    PROVE  Weighs(S, weight) /\ \A f : FoldsTo(f, T, weight) <=> Sums(f, T)
<1>1. Weighs(S, weight)
    BY DEF Counted, Weighs
<1>2. ASSUME NEW f
      PROVE  [s \in SUBSET T |-> IF s = {} THEN 0 ELSE f[s \ {CHOOSE x \in s : TRUE}] + weight[CHOOSE x \in s : TRUE]]
             = [s \in SUBSET T |-> IF s = {} THEN 0
                                   ELSE f[s \ {CHOOSE x \in s : TRUE}] + (CHOOSE x \in s : TRUE).bytes]
    <2>1. ASSUME NEW s \in SUBSET T, s # {}
          PROVE  weight[CHOOSE x \in s : TRUE] = (CHOOSE x \in s : TRUE).bytes
        <3>1. (CHOOSE x \in s : TRUE) \in S
            BY <2>1
        <3> QED
            BY <3>1
    <2> QED
        BY <2>1
<1>3. ASSUME NEW f PROVE FoldsTo(f, T, weight) <=> Sums(f, T)
    BY <1>2, Zenon DEF FoldsTo, Sums
<1> QED
    BY <1>1, <1>3

LEMMA SumExists ==
    ASSUME NEW S, Counted(S)
    PROVE  \E f \in [SUBSET S -> Nat] : Sums(f, S)
<1> DEFINE weight == [t \in S |-> t.bytes]
<1> HIDE DEF weight
<1>1. Weighs(S, weight) /\ \A f : FoldsTo(f, S, weight) <=> Sums(f, S)
    BY BytesWeigh DEF weight
<1> QED
    BY <1>1, FoldExists

\* There is one sum.
LEMMA SumUnique ==
    ASSUME NEW S, Counted(S), NEW T \in SUBSET S, NEW f, Sums(f, S), NEW g, Sums(g, T)
    PROVE  \A s \in SUBSET T : g[s] = f[s]
<1> DEFINE weight == [t \in S |-> t.bytes]
<1> HIDE DEF weight
<1>1. Weighs(S, weight) /\ (FoldsTo(f, S, weight) <=> Sums(f, S)) /\ (FoldsTo(g, T, weight) <=> Sums(g, T))
    BY BytesWeigh DEF weight
<1> QED
    BY <1>1, FoldUnique

\* SumBytes is that sum.
LEMMA SumIs ==
    ASSUME NEW S, Counted(S), NEW f, Sums(f, S), NEW T \in SUBSET S
    PROVE  SumBytes(T) = f[T]
<1> DEFINE iter == CHOOSE g : Sums(g, T)
<1>1. SumBytes(T) = iter[T]
    BY DEF SumBytes, FoldSet, MapThenFoldSet, Sums
<1>2. Counted(T)
    BY FS_Subset DEF Counted
<1>3. Sums(iter, T)
    BY <1>2, SumExists, Zenon
<1> HIDE DEF iter
<1>4. \A s \in SUBSET T : iter[s] = f[s]
    BY <1>3, SumUnique
<1> QED
    BY <1>1, <1>4

LEMMA SumNat ==
    ASSUME NEW S, Counted(S), NEW T \in SUBSET S
    PROVE  SumBytes(T) \in Nat
<1>1. PICK f \in [SUBSET S -> Nat] : Sums(f, S)
    BY SumExists
<1> QED
    BY <1>1, SumIs

LEMMA SumEmpty == SumBytes({}) = 0
<1>1. Counted({})
    BY FS_EmptySet DEF Counted
<1>2. PICK f \in [SUBSET {} -> Nat] : Sums(f, {})
    BY <1>1, SumExists
<1>3. SumBytes({}) = f[{}] /\ f[{}] = 0
    BY <1>1, <1>2, SumIs DEF Sums
<1> QED
    BY <1>3

\* A sum does not depend on the order: whichever tensor comes last counts.
LEMMA SumAdd ==
    ASSUME NEW S, Counted(S), NEW A \in SUBSET S, NEW t \in S \ A
    PROVE  SumBytes(A \cup {t}) = SumBytes(A) + t.bytes
<1>0. PICK f \in [SUBSET S -> Nat] : Sums(f, S)
    BY SumExists
<1> DEFINE Bad == {B \in SUBSET S : \E u \in S \ B : f[B \cup {u}] # f[B] + u.bytes}
           K == {Cardinality(B) : B \in Bad}
<1>1. \A B \in SUBSET S : IsFiniteSet(B) /\ Cardinality(B) \in Nat
    BY FS_Subset, FS_CardinalityType DEF Counted
<1>2. \A u \in S : u.bytes \in Nat
    BY DEF Counted
<1>3. ASSUME Bad # {} PROVE FALSE
    <2>1. K \in SUBSET Nat /\ K # {}
        <3>1. Bad \subseteq SUBSET S
            OBVIOUS
        <3> HIDE DEF Bad
        <3> QED
            BY <1>1, <1>3, <3>1
    <2>2. PICK m \in K : \A k \in K : m <= k
        <3> HIDE DEF K
        <3> QED
            BY <2>1, NatMin
    <2>3. PICK B \in Bad : m = Cardinality(B)
        OBVIOUS
    <2>4. PICK u \in S \ B : f[B \cup {u}] # f[B] + u.bytes
        OBVIOUS
    <2> DEFINE U == B \cup {u}
               x == CHOOSE y \in U : TRUE
    <2>5. U \in SUBSET S /\ B \in SUBSET S /\ U # {} /\ m \in Nat /\ u \in S /\ u \notin B
        BY <1>1, <2>3, <2>4
    <2>6. x \in U
        BY <2>5
    <2>7. f[U] = f[U \ {x}] + x.bytes
        BY <1>0, <2>5 DEF Sums
    <2> HIDE DEF x
    <2>8. x # u
        <3> SUFFICES ASSUME x = u PROVE FALSE
            OBVIOUS
        <3>1. U \ {x} = B
            BY <2>4
        <3> QED
            BY <2>4, <2>7, <3>1
    <2>9. x \in B
        BY <2>6, <2>8
    <2> DEFINE C == B \ {x}
    <2>10. C \in SUBSET S /\ Cardinality(C) = m - 1 /\ U \ {x} = C \cup {u} /\ C \cup {x} = B /\ u \in S \ C /\ x \in S \ C
        <3>1. Cardinality(C) = m - 1
            BY <1>1, <2>3, <2>5, <2>9, FS_RemoveElement
        <3> QED
            BY <2>4, <2>5, <2>8, <2>9, <3>1
    <2>11. C \notin Bad
        <3> SUFFICES ASSUME C \in Bad PROVE FALSE
            OBVIOUS
        <3>1. Cardinality(C) \in K
            OBVIOUS
        <3>2. m <= m - 1
            BY <2>2, <2>10, <3>1
        <3> QED
            BY <2>5, <3>2
    <2>12. f[C \cup {u}] = f[C] + u.bytes /\ f[C \cup {x}] = f[C] + x.bytes
        BY <2>10, <2>11
    <2>13. f[C] \in Nat /\ u.bytes \in Nat /\ x.bytes \in Nat
        BY <1>0, <1>2, <2>5, <2>9, <2>10
    <2>14. f[U] = f[C] + u.bytes + x.bytes /\ f[B] = f[C] + x.bytes
        BY <2>7, <2>10, <2>12
    <2>15. f[U] = f[B] + u.bytes
        BY <2>13, <2>14
    <2> QED
        BY <2>4, <2>15
<1>4. f[A \cup {t}] = f[A] + t.bytes
    BY <1>3
<1> QED
    BY <1>0, <1>4, SumIs

\* What is on one side is not on the other.
LEMMA SumSplit ==
    ASSUME NEW S, Counted(S), NEW A \in SUBSET S
    PROVE  SumBytes(A) + SumBytes(S \ A) = SumBytes(S)
<1> DEFINE Bad == {B \in SUBSET S : SumBytes(B) + SumBytes(S \ B) # SumBytes(S)}
           K == {Cardinality(B) : B \in Bad}
<1>1. \A B \in SUBSET S : IsFiniteSet(B) /\ Cardinality(B) \in Nat
    BY FS_Subset, FS_CardinalityType DEF Counted
<1>2. \A B \in SUBSET S : SumBytes(B) \in Nat
    BY SumNat
<1> SUFFICES ASSUME Bad # {} PROVE FALSE
    OBVIOUS
<1>3. K \in SUBSET Nat /\ K # {}
    BY <1>1
<1>4. PICK m \in K : \A k \in K : m <= k
    <2> HIDE DEF K
    <2> QED
        BY <1>3, NatMin
<1>5. PICK B \in Bad : m = Cardinality(B)
    OBVIOUS
<1>6. B \in SUBSET S /\ m \in Nat /\ SumBytes(B) + SumBytes(S \ B) # SumBytes(S)
    BY <1>1, <1>5
<1>7. B # {}
    <2> SUFFICES ASSUME B = {} PROVE FALSE
        OBVIOUS
    <2>1. SumBytes(B) = 0 /\ S \ B = S /\ SumBytes(S) \in Nat
        BY <1>2, SumEmpty
    <2> QED
        BY <1>6, <2>1
<1>8. PICK x \in B : TRUE
    BY <1>7
<1> DEFINE C == B \ {x}
<1>9. C \in SUBSET S /\ Cardinality(C) = m - 1 /\ C \cup {x} = B /\ x \in S \ C
    <2>1. Cardinality(C) = m - 1
        BY <1>1, <1>5, <1>6, <1>8, FS_RemoveElement
    <2> QED
        BY <1>6, <1>8, <2>1
<1>10. (S \ B) \cup {x} = S \ C /\ x \in S \ (S \ B) /\ S \ B \in SUBSET S /\ S \ C \in SUBSET S
    BY <1>6, <1>8
<1>11. C \notin Bad
    <2> SUFFICES ASSUME C \in Bad PROVE FALSE
        OBVIOUS
    <2>1. Cardinality(C) \in K
        OBVIOUS
    <2>2. m <= m - 1
        BY <1>4, <1>9, <2>1
    <2> QED
        BY <1>6, <2>2
<1>12. SumBytes(C) + SumBytes(S \ C) = SumBytes(S)
    BY <1>9, <1>11
<1>13. SumBytes(B) = SumBytes(C) + x.bytes
    BY <1>9, SumAdd
<1>14. SumBytes(S \ C) = SumBytes(S \ B) + x.bytes
    BY <1>10, SumAdd
<1>15. x.bytes \in Nat /\ SumBytes(C) \in Nat /\ SumBytes(S \ B) \in Nat
    BY <1>2, <1>9, <1>10 DEF Counted
<1>16. SumBytes(B) + SumBytes(S \ B) = SumBytes(S)
    BY <1>12, <1>13, <1>14, <1>15
<1> QED
    BY <1>6, <1>16

-----------------------------------------------------------------------------
(* The planner: what the GPU takes.                                        *)

\* The tensors on the GPU after each one of the order, within a budget.
Packing(g, order, ts, budget) ==
    /\ g \in [0..Len(order) -> SUBSET ts] /\ g[0] = {}
    /\ \A i \in 1..Len(order) : g[i] = Fill(g[i - 1], order[i], budget)

LEMMA OrderIs ==
    ASSUME NEW ts, Counted(ts), NEW order \in PackingOrders(ts)
    PROVE  /\ order \in Seq(ts)
           /\ \A i, j \in 1..Len(order) : i # j => order[i] # order[j]
           /\ \A t \in ts : \E i \in 1..Len(order) : order[i] = t
<1> DEFINE n == Cardinality(ts)
<1>1. n \in Nat
    BY FS_CardinalityType DEF Counted
<1>2. order \in [1..n -> ts] /\ \A i, j \in 1..n : i # j => order[i] # order[j]
    BY DEF PackingOrders, SetToSeqs
<1>3. order \in Seq(ts) /\ Len(order) = n
    BY <1>1, <1>2
<1>4. order \in Injection(1..n, ts)
    BY <1>2 DEF Injection, IsInjective
<1>5. IsFiniteSet(1..n) /\ Cardinality(1..n) = n
    BY <1>1, FS_Interval
<1>6. order \in Surjection(1..n, ts)
    BY <1>4, <1>5, FS_Injection DEF Counted
<1>7. \A t \in ts : \E i \in 1..n : order[i] = t
    BY <1>6 DEF Surjection
<1> QED
    BY <1>2, <1>3, <1>7

LEMMA PackIs ==
    ASSUME NEW ts, NEW order \in Seq(ts), NEW budget
    PROVE  \E g : Packing(g, order, ts, budget) /\ Pack(order, budget) = g[Len(order)]
<1> DEFINE n == Len(order)
           V == SUBSET ts
           Is(f) == f = [i \in 0..n |-> IF i = 0 THEN {} ELSE Fill(f[i - 1], order[i], budget)]
           f0 == CHOOSE f : Is(f)
           step == [p \in (1..n) \X V |-> Fill(p[2], order[p[1]], budget)]
<1>1. n \in Nat /\ {} \in V /\ \A i \in 1..n : order[i] \in ts
    OBVIOUS
<1>2. Pack(order, budget) = f0[n]
    BY Zenon DEF Pack
<1> HIDE DEF n
<1>t. ASSUME NEW gpu \in V, NEW t \in ts PROVE Fill(gpu, t, budget) \in V
    BY DEF Fill
<1> HIDE DEF V
<1>3. step \in [(1..n) \X V -> V]
    BY <1>1, <1>t
<1>4. \A i \in 1..n, x \in V : step[<<i, x>>] = Fill(x, order[i], budget)
    OBVIOUS
<1> HIDE DEF step
<1>5. PICK g \in [0..n -> V] : Recursion(g, n, {}, step)
    BY <1>1, <1>3, RecExists
<1>6. Is(g)
    <2>1. ASSUME NEW i \in 0..n PROVE g[i] = IF i = 0 THEN {} ELSE Fill(g[i - 1], order[i], budget)
        <3>1. CASE i = 0
            BY <1>5, <3>1 DEF Recursion
        <3>2. CASE i # 0
            <4>1. i \in 1..n /\ i - 1 \in 0..n
                BY <1>1, <3>2
            <4>2. g[i - 1] \in V /\ g[i] = step[<<i, g[i - 1]>>]
                BY <1>5, <4>1 DEF Recursion
            <4> QED
                BY <1>4, <3>2, <4>1, <4>2
        <3> QED
            BY <3>1, <3>2
    <2>2. g = [i \in 0..n |-> g[i]]
        OBVIOUS
    <2> QED
        BY <2>1, <2>2
<1>7. Is(f0)
    <2> HIDE DEF Is
    <2> QED
        BY <1>6
<1> HIDE DEF f0
<1>8. f0[0] = {} /\ f0 = [i \in 0..n |-> f0[i]]
    BY <1>1, <1>7
<1>9. ASSUME NEW i \in 1..n PROVE f0[i] = Fill(f0[i - 1], order[i], budget)
    <2>1. i \in 0..n /\ i # 0
        BY <1>1
    <2> QED
        BY <1>7, <2>1
<1> DEFINE T == {i \in 0..n : f0[i] \in V}
<1>10. 0 \in T
    BY <1>1, <1>8
<1>11. ASSUME NEW i \in 0..n - 1, i \in T PROVE i + 1 \in T
    <2>1. i + 1 \in 0..n /\ i + 1 # 0 /\ (i + 1) - 1 = i /\ i + 1 \in 1..n
        BY <1>1
    <2>2. f0[i + 1] = Fill(f0[i], order[i + 1], budget)
        BY <1>9, <2>1
    <2> QED
        BY <1>1, <1>11, <1>t, <2>1, <2>2
<1>12. \A i \in 0..n : i \in T
    <2> HIDE DEF T
    <2> QED
        BY <1>1, <1>10, <1>11, UpTo
<1>13. f0 \in [0..n -> V]
    BY <1>8, <1>12
<1>14. Packing(f0, order, ts, budget)
    BY <1>8, <1>9, <1>13 DEF Packing, n, V
<1> QED
    BY <1>2, <1>14 DEF n

\* The prefix that has been looked at, and what is on the GPU then: no more than
\* the budget, more and more of it, and what is left out did not fit.
LEMMA PackingRuns ==
    ASSUME NEW ts, Counted(ts), NEW order \in PackingOrders(ts), NEW budget \in Nat,
           NEW g, Packing(g, order, ts, budget), NEW n, n = Len(order)
    PROVE  /\ n \in Nat
           /\ \A i \in 0..n : g[i] \in SUBSET ts /\ SumBytes(g[i]) \in Nat /\ SumBytes(g[i]) <= budget
           /\ \A i \in 1..n : /\ order[i] \in ts /\ order[i].bytes \in Nat /\ order[i] \notin g[i - 1]
                              /\ IF SumBytes(g[i - 1]) + order[i].bytes <= budget
                                 THEN g[i] = g[i - 1] \cup {order[i]} /\ SumBytes(g[i]) = SumBytes(g[i - 1]) + order[i].bytes
                                 ELSE g[i] = g[i - 1]
<1>1. /\ order \in Seq(ts) /\ n \in Nat /\ \A i \in 1..n : order[i] \in ts /\ order[i].bytes \in Nat
      /\ \A i, j \in 1..n : i # j => order[i] # order[j]
    BY OrderIs DEF Counted
<1>2. /\ \A i \in 0..n : g[i] \in SUBSET ts
      /\ g[0] = {} /\ \A i \in 1..n : g[i] = Fill(g[i - 1], order[i], budget)
    BY DEF Packing
<1>3. \A i \in 0..n : SumBytes(g[i]) \in Nat
    BY <1>2, SumNat
<1> DEFINE T == {i \in 0..n : SumBytes(g[i]) <= budget /\ \A k \in i + 1..n : order[k] \notin g[i]}
<1>4. 0 \in T
    <2>1. SumBytes(g[0]) <= budget /\ 0 \in 0..n
        BY <1>1, <1>2, SumEmpty
    <2>2. \A k \in 0 + 1..n : order[k] \notin g[0]
        BY <1>2
    <2> QED
        BY <2>1, <2>2
<1>5. ASSUME NEW i \in 0..n - 1, i \in T
      PROVE  /\ i + 1 \in T /\ order[i + 1] \notin g[i]
             /\ IF SumBytes(g[i]) + order[i + 1].bytes <= budget
                THEN g[i + 1] = g[i] \cup {order[i + 1]} /\ SumBytes(g[i + 1]) = SumBytes(g[i]) + order[i + 1].bytes
                ELSE g[i + 1] = g[i]
    <2>1. i + 1 \in 1..n /\ i + 1 \in 0..n /\ i \in 0..n /\ (i + 1) - 1 = i /\ i + 1 \in i + 1..n
        BY <1>1
    <2>2. g[i + 1] = Fill(g[i], order[i + 1], budget) /\ order[i + 1] \notin g[i]
        BY <1>2, <1>5, <2>1
    <2>3. IF SumBytes(g[i]) + order[i + 1].bytes <= budget
          THEN g[i + 1] = g[i] \cup {order[i + 1]} /\ SumBytes(g[i + 1]) = SumBytes(g[i]) + order[i + 1].bytes
          ELSE g[i + 1] = g[i]
        <3>0. g[i] \in SUBSET ts /\ order[i + 1] \in ts \ g[i]
            BY <1>1, <1>2, <2>1, <2>2
        <3>1. SumBytes(g[i] \cup {order[i + 1]}) = SumBytes(g[i]) + order[i + 1].bytes
            BY <3>0, SumAdd
        <3> QED
            BY <2>2, <3>1 DEF Fill
    <2>4. SumBytes(g[i + 1]) <= budget
        BY <1>5, <2>3
    <2>5. ASSUME NEW k \in (i + 1) + 1..n PROVE order[k] \notin g[i + 1]
        <3>1. k \in 1..n /\ k \in i + 1..n /\ k # i + 1
            BY <1>1, <2>1
        <3>2. order[k] # order[i + 1] /\ order[k] \notin g[i]
            BY <1>1, <1>5, <2>1, <3>1
        <3> QED
            BY <2>3, <3>2
    <2>6. i + 1 \in T
        BY <2>1, <2>4, <2>5
    <2> QED
        BY <2>2, <2>3, <2>6
<1>6. \A i \in 0..n : i \in T
    <2> HIDE DEF T
    <2> QED
        BY <1>1, <1>4, <1>5, UpTo
<1>7. ASSUME NEW i \in 1..n
      PROVE  /\ order[i] \notin g[i - 1]
             /\ IF SumBytes(g[i - 1]) + order[i].bytes <= budget
                THEN g[i] = g[i - 1] \cup {order[i]} /\ SumBytes(g[i]) = SumBytes(g[i - 1]) + order[i].bytes
                ELSE g[i] = g[i - 1]
    <2> DEFINE j == i - 1
    <2>1. j \in 0..n - 1 /\ j \in 0..n /\ j + 1 = i
        BY <1>1
    <2>2. j \in T
        BY <1>6, <2>1
    <2> HIDE DEF j, T
    <2> QED
        BY <1>5, <2>1, <2>2 DEF j
<1> QED
    BY <1>1, <1>2, <1>3, <1>6, <1>7

\* What a budget takes, and what it leaves.
LEMMA PackSound ==
    ASSUME NEW ts, Counted(ts), NEW order \in PackingOrders(ts), NEW budget \in Nat,
           NEW gpu, gpu = Pack(order, budget)
    PROVE  /\ gpu \in SUBSET ts /\ SumBytes(gpu) \in Nat /\ SumBytes(gpu) <= budget
           /\ \A t \in ts \ gpu : SumBytes(gpu) + t.bytes > budget
<1> DEFINE n == Len(order)
<1>1. order \in Seq(ts)
    BY OrderIs
<1>2. PICK g : Packing(g, order, ts, budget) /\ gpu = g[n]
    BY <1>1, PackIs
<1>3. /\ n \in Nat
      /\ \A i \in 0..n : g[i] \in SUBSET ts /\ SumBytes(g[i]) \in Nat /\ SumBytes(g[i]) <= budget
      /\ \A i \in 1..n : /\ order[i] \in ts /\ order[i].bytes \in Nat /\ order[i] \notin g[i - 1]
                         /\ IF SumBytes(g[i - 1]) + order[i].bytes <= budget
                            THEN g[i] = g[i - 1] \cup {order[i]} /\ SumBytes(g[i]) = SumBytes(g[i - 1]) + order[i].bytes
                            ELSE g[i] = g[i - 1]
    BY <1>2, PackingRuns
<1>s. \A t \in ts : \E i \in 1..n : order[i] = t
    BY OrderIs
<1> HIDE DEF n
<1> DEFINE T == {i \in 0..n : \A k \in 1..i : order[k] \in g[i] \/ SumBytes(g[i]) + order[k].bytes > budget}
<1>4. 0 \in T
    BY <1>3
<1>5. ASSUME NEW i \in 0..n - 1, i \in T PROVE i + 1 \in T
    <2>1. i + 1 \in 1..n /\ i + 1 \in 0..n /\ i \in 0..n /\ (i + 1) - 1 = i
        BY <1>3
    <2>2. /\ order[i + 1].bytes \in Nat
          /\ IF SumBytes(g[i]) + order[i + 1].bytes <= budget
             THEN g[i + 1] = g[i] \cup {order[i + 1]} /\ SumBytes(g[i + 1]) = SumBytes(g[i]) + order[i + 1].bytes
             ELSE g[i + 1] = g[i]
        BY <1>3, <2>1
    <2>3. SumBytes(g[i]) \in Nat /\ SumBytes(g[i + 1]) \in Nat /\ SumBytes(g[i]) <= SumBytes(g[i + 1]) /\ g[i] \subseteq g[i + 1]
        BY <1>3, <2>1, <2>2
    <2>4. ASSUME NEW k \in 1..i + 1 PROVE order[k] \in g[i + 1] \/ SumBytes(g[i + 1]) + order[k].bytes > budget
        <3>1. CASE k = i + 1
            BY <2>2, <2>3, <3>1
        <3>2. CASE k \in 1..i
            <4>1. order[k].bytes \in Nat
                BY <1>3, <2>1, <3>2
            <4>2. order[k] \in g[i] \/ SumBytes(g[i]) + order[k].bytes > budget
                BY <1>5, <3>2
            <4> QED
                BY <2>3, <4>1, <4>2
        <3> QED
            BY <2>1, <3>1, <3>2
    <2> QED
        BY <2>1, <2>4
<1>6. n \in T
    <2>1. n \in 0..n
        BY <1>3
    <2> HIDE DEF T
    <2> QED
        BY <1>3, <1>4, <1>5, <2>1, UpTo
<1>7. n \in 0..n
    BY <1>3
<1> QED
    BY <1>2, <1>3, <1>6, <1>7, <1>s

\* One more byte of budget: up to the first tensor that only the larger budget
\* takes both are equal, and that tensor fills it.
LEMMA PackRicher ==
    ASSUME NEW ts, Counted(ts), NEW order \in PackingOrders(ts), NEW budget \in Nat
    PROVE  SumBytes(Pack(order, budget)) <= SumBytes(Pack(order, budget + 1))
<1> DEFINE n == Len(order)
<1>1. order \in Seq(ts) /\ budget + 1 \in Nat
    BY OrderIs
<1>2. PICK g : Packing(g, order, ts, budget) /\ Pack(order, budget) = g[n]
    BY <1>1, PackIs
<1>3. PICK h : Packing(h, order, ts, budget + 1) /\ Pack(order, budget + 1) = h[n]
    BY <1>1, PackIs
<1>4. /\ n \in Nat
      /\ \A i \in 0..n : SumBytes(g[i]) \in Nat /\ SumBytes(g[i]) <= budget
      /\ \A i \in 1..n : /\ order[i].bytes \in Nat
                         /\ IF SumBytes(g[i - 1]) + order[i].bytes <= budget
                            THEN g[i] = g[i - 1] \cup {order[i]}
                            ELSE g[i] = g[i - 1]
    BY <1>2, PackingRuns
<1>5. /\ \A i \in 0..n : SumBytes(h[i]) \in Nat /\ SumBytes(h[i]) <= budget + 1
      /\ \A i \in 1..n : IF SumBytes(h[i - 1]) + order[i].bytes <= budget + 1
                         THEN h[i] = h[i - 1] \cup {order[i]} /\ SumBytes(h[i]) = SumBytes(h[i - 1]) + order[i].bytes
                         ELSE h[i] = h[i - 1]
    BY <1>1, <1>3, PackingRuns
<1>6. g[0] = h[0]
    BY <1>2, <1>3 DEF Packing
<1> HIDE DEF n
<1> DEFINE T == {i \in 0..n : h[i] = g[i] \/ SumBytes(h[i]) = budget + 1}
<1>7. 0 \in T
    BY <1>4, <1>6
<1>8. ASSUME NEW i \in 0..n - 1, i \in T PROVE i + 1 \in T
    <2>1. i + 1 \in 1..n /\ i + 1 \in 0..n /\ i \in 0..n /\ (i + 1) - 1 = i
        BY <1>4
    <2> DEFINE b == order[i + 1].bytes
    <2>2. /\ b \in Nat /\ SumBytes(g[i]) \in Nat /\ SumBytes(h[i]) \in Nat
          /\ IF SumBytes(g[i]) + b <= budget THEN g[i + 1] = g[i] \cup {order[i + 1]} ELSE g[i + 1] = g[i]
        BY <1>4, <1>5, <2>1
    <2>3. IF SumBytes(h[i]) + b <= budget + 1
          THEN h[i + 1] = h[i] \cup {order[i + 1]} /\ SumBytes(h[i + 1]) = SumBytes(h[i]) + b
          ELSE h[i + 1] = h[i]
        BY <1>5, <2>1
    <2> HIDE DEF b
    <2>4. CASE h[i] = g[i]
        <3>1. CASE SumBytes(g[i]) + b <= budget
            <4>1. SumBytes(h[i]) + b <= budget + 1
                BY <2>2, <2>4, <3>1
            <4>2. h[i + 1] = g[i + 1]
                BY <2>2, <2>3, <2>4, <3>1, <4>1
            <4> QED
                BY <2>1, <4>2
        <3>2. CASE SumBytes(g[i]) + b = budget + 1
            BY <2>1, <2>2, <2>3, <2>4, <3>2
        <3>3. CASE SumBytes(g[i]) + b > budget + 1
            BY <2>1, <2>2, <2>3, <2>4, <3>3
        <3> QED
            BY <2>2, <3>1, <3>2, <3>3
    <2>5. CASE SumBytes(h[i]) = budget + 1
        <3>1. SumBytes(h[i + 1]) = budget + 1
            BY <2>2, <2>3, <2>5
        <3> QED
            BY <2>1, <3>1
    <2> QED
        BY <1>8, <2>4, <2>5
<1>9. n \in T
    <2>1. n \in 0..n
        BY <1>4
    <2> HIDE DEF T
    <2> QED
        BY <1>4, <1>7, <1>8, <2>1, UpTo
<1>10. SumBytes(g[n]) <= SumBytes(h[n])
    <2>1. n \in 0..n
        BY <1>4
    <2> QED
        BY <1>4, <1>5, <1>9, <2>1
<1> QED
    BY <1>2, <1>3, <1>10

-----------------------------------------------------------------------------
(* The planner: the plan of a run.                                         *)

\* What a plan says of the tensors, the margin and the memory.
PlanGood(p, ts, vram, ram, reserved) ==
    /\ p.gpu \cup p.cpu = ts /\ p.gpu \cap p.cpu = {}
    /\ p.gpuTotal - p.gpuBytes = reserved
    /\ p.gpuBytes > 0 => p.gpuTotal + Margin <= vram
    /\ \A t \in p.cpu : vram - Margin - reserved >= 0 => p.gpuBytes + t.bytes > vram - Margin - reserved
    /\ p.fits => SumBytes(p.cpu) <= ram

LEMMA Positive == ASSUME NEW x \in Int PROVE Max({0, x}) = IF x > 0 THEN x ELSE 0
<1>1. \A y, z \in {0, x} : (\A v \in {0, x} : y >= v) /\ (\A v \in {0, x} : z >= v) => y = z
    OBVIOUS
<1>2. \A v \in {0, x} : (IF x > 0 THEN x ELSE 0) >= v
    OBVIOUS
<1> QED
    BY <1>1, <1>2 DEF Max

LEMMA BudgetIs ==
    ASSUME NEW d, NEW c, c.vram \in Nat, NEW R \in Nat, R = Reserved(d, c), NEW room, room = c.vram - Margin - R
    PROVE  Margin \in Nat /\ room \in Int /\ WeightBudget(d, c) = IF room > 0 THEN room ELSE 0
<1> DEFINE x == c.vram - Margin
           y == Max({0, x})
<1>1. Margin \in Nat /\ x \in Int /\ room = x - R
    BY FitAssumption
<1>2. WeightBudget(d, c) = Max({0, y - R})
    BY Zenon DEF WeightBudget
<1> HIDE DEF x
<1>3. y = IF x > 0 THEN x ELSE 0
    BY <1>1, Positive
<1> HIDE DEF y
<1>4. y - R \in Int
    BY <1>1, <1>3
<1>5. Max({0, y - R}) = IF y - R > 0 THEN y - R ELSE 0
    BY <1>4, Positive
<1> QED
    BY <1>1, <1>2, <1>3, <1>5

\* The fields of a plan for budget B that reserves R.
PlanOf(p, order, ts, B, R, vram, ram) ==
    /\ p.gpu = Pack(order, B) /\ p.cpu = ts \ p.gpu
    /\ p.gpuBytes = SumBytes(p.gpu) /\ p.gpuTotal = p.gpuBytes + R
    /\ p.fits <=> /\ p.gpuBytes = 0 \/ p.gpuBytes + R <= vram
                  /\ SumBytes(p.cpu) + (IF p.gpuBytes = 0 THEN R ELSE 0) <= ram

LEMMA PlanIs ==
    ASSUME NEW d, NEW c, NEW order, NEW p, p = PlanPlacement(order, d, c)
    PROVE  PlanOf(p, order, d.tensors, WeightBudget(d, c), Reserved(d, c), c.vram, c.ram)
BY DEF PlanPlacement, PlanOf

LEMMA PlanIsGood ==
    ASSUME NEW d, Counted(d.tensors), NEW c, c.vram \in Nat, c.ram \in Nat, NEW R \in Nat, R = Reserved(d, c),
           NEW order \in PackingOrders(d.tensors), NEW p, p = PlanPlacement(order, d, c)
    PROVE  PlanGood(p, d.tensors, c.vram, c.ram, R)
<1> DEFINE B == WeightBudget(d, c)
           room == c.vram - Margin - R
<1>1. Margin \in Nat /\ room \in Int /\ B = IF room > 0 THEN room ELSE 0
    BY FitAssumption, BudgetIs
<1>2. B \in Nat
    BY <1>1
<1>0. PlanOf(p, order, d.tensors, B, R, c.vram, c.ram)
    BY PlanIs
<1>3. /\ p.gpu = Pack(order, B) /\ p.cpu = d.tensors \ p.gpu
      /\ p.gpuBytes = SumBytes(p.gpu) /\ p.gpuTotal = p.gpuBytes + R
      /\ p.fits <=> /\ p.gpuBytes = 0 \/ p.gpuBytes + R <= c.vram
                    /\ SumBytes(p.cpu) + (IF p.gpuBytes = 0 THEN R ELSE 0) <= c.ram
    BY <1>0 DEF PlanOf
<1> HIDE DEF B
<1>4. /\ p.gpu \in SUBSET d.tensors /\ p.gpuBytes \in Nat /\ p.gpuBytes <= B
      /\ \A t \in p.cpu : p.gpuBytes + t.bytes > B
    BY <1>2, <1>3, PackSound
<1>5. \A t \in p.cpu : t.bytes \in Nat
    BY <1>3 DEF Counted
<1>6. SumBytes(p.cpu) \in Nat
    BY <1>3, SumNat
<1>7. p.gpu \cup p.cpu = d.tensors /\ p.gpu \cap p.cpu = {}
    BY <1>3, <1>4
<1>8. p.gpuTotal - p.gpuBytes = R
    BY <1>3, <1>4
<1>9. p.gpuBytes > 0 => p.gpuTotal + Margin <= c.vram
    BY <1>1, <1>3, <1>4
<1>10. \A t \in p.cpu : room >= 0 => p.gpuBytes + t.bytes > room
    BY <1>1, <1>4, <1>5
<1>11. p.fits => SumBytes(p.cpu) <= c.ram
    BY <1>3, <1>4, <1>6
<1> QED
    BY <1>7, <1>8, <1>9, <1>10, <1>11 DEF PlanGood

\* With one more byte of VRAM the same order puts no less on the GPU, and what
\* fitted still does.
LEMMA PlanRicher ==
    ASSUME NEW d, Counted(d.tensors), NEW c, c.vram \in Nat, c.ram \in Nat, NEW R \in Nat, R = Reserved(d, c),
           NEW e, e.vram = c.vram + 1, e.ram = c.ram, R = Reserved(d, e),
           NEW order \in PackingOrders(d.tensors), NEW p, p = PlanPlacement(order, d, c),
           NEW q, q = PlanPlacement(order, d, e)
    PROVE  q.gpuBytes >= p.gpuBytes /\ (p.fits => q.fits)
<1> DEFINE B == WeightBudget(d, c)
           B2 == WeightBudget(d, e)
           room == c.vram - Margin - R
<1>1. Margin \in Nat /\ room \in Int /\ B = IF room > 0 THEN room ELSE 0
    BY FitAssumption, BudgetIs
<1>2. e.vram \in Nat /\ e.ram \in Nat /\ e.vram - Margin - R = room + 1
    BY <1>1
<1>3. B2 = IF room + 1 > 0 THEN room + 1 ELSE 0
    BY <1>1, <1>2, BudgetIs
<1>4. B \in Nat /\ (B2 = B \/ B2 = B + 1) /\ B2 \in Nat
    BY <1>1, <1>3
<1>5. PlanOf(p, order, d.tensors, B, R, c.vram, c.ram)
    BY PlanIs
<1>6. PlanOf(q, order, d.tensors, B2, R, e.vram, e.ram)
    BY PlanIs
<1> HIDE DEF B, B2
<1>7. /\ p.gpu \in SUBSET d.tensors /\ p.gpuBytes \in Nat /\ p.gpuBytes <= B
      /\ q.gpu \in SUBSET d.tensors /\ q.gpuBytes \in Nat /\ q.gpuBytes <= B2
    BY <1>4, <1>5, <1>6, PackSound DEF PlanOf
<1>8. p.gpuBytes <= q.gpuBytes
    BY <1>4, <1>5, <1>6, <1>7, PackRicher DEF PlanOf
<1>9. SumBytes(p.cpu) \in Nat /\ SumBytes(q.cpu) \in Nat /\ SumBytes(d.tensors) \in Nat
    BY <1>5, <1>6, SumNat DEF PlanOf
<1>10. p.gpuBytes + SumBytes(p.cpu) = SumBytes(d.tensors) /\ q.gpuBytes + SumBytes(q.cpu) = SumBytes(d.tensors)
    BY <1>5, <1>6, <1>7, SumSplit DEF PlanOf
<1>11. SumBytes(q.cpu) <= SumBytes(p.cpu)
    BY <1>7, <1>8, <1>9, <1>10
<1>12. q.gpuBytes = 0 \/ q.gpuBytes + R <= e.vram
    BY <1>1, <1>2, <1>3, <1>7
<1>13. p.fits => SumBytes(q.cpu) + (IF q.gpuBytes = 0 THEN R ELSE 0) <= e.ram
    BY <1>2, <1>5, <1>7, <1>8, <1>9, <1>11 DEF PlanOf
<1> QED
    BY <1>6, <1>7, <1>8, <1>12, <1>13 DEF PlanOf

\* A plan is made once, when the adapters are settled, and stays.
PlanInv(c) ==
    /\ c.pc \in Unplaced => c.plan = None
    /\ c.plan # None => HasHeader(c) /\ Planned(c)

LEMMA PlanStep ==
    ASSUME NEW c, Settled(c), PlanInv(c), NEW d,
           Stops(c, d) \/ Settles(c, d) \/ GoesOn(c, d) \/ Adapts(c, d) \/ Measures(c, d)
    PROVE  PlanInv(d)
<1>1. ASSUME d.a = c.a, d.w = c.w, d.loras = c.loras, d.plan = c.plan, c.plan # None
      PROVE  HasHeader(d) /\ Planned(d)
    <2>1. PlannerConfig(d) = PlannerConfig(c)
        BY <1>1 DEF PlannerConfig
    <2> QED
        BY <1>1, <2>1 DEF PlanInv, HasHeader, Planned
<1>2. CASE Stops(c, d)
    BY <1>1, <1>2 DEF PlanInv, Stops, Kept, Unplaced
<1>3. CASE Settles(c, d)
    BY <1>1, <1>3 DEF PlanInv, Settles, Unplaced
<1>4. CASE GoesOn(c, d)
    BY <1>1, <1>4 DEF PlanInv, GoesOn, Kept
<1>5. CASE Measures(c, d)
    BY <1>1, <1>5 DEF PlanInv, Measures, Unplaced
<1>6. CASE Adapts(c, d)
    <2>1. c.plan = None /\ HasHeader(c)
        BY <1>6 DEF PlanInv, Adapts, Unplaced, Settled, Headed
    <2>2. HasHeader(d) /\ d.pc \notin Unplaced
        BY <1>6, <2>1 DEF Adapts, Kept, HasHeader, Unplaced
    <2> QED
        BY <1>6, <2>1, <2>2 DEF PlanInv, Adapts
<1> QED
    BY <1>2, <1>3, <1>4, <1>5, <1>6

LEMMA PlanAlways == Spec => [](cmd # None => PlanInv(cmd))
<1> DEFINE I == cmd # None => PlanInv(cmd)
<1>1. CliInit => I
    BY DEF CliInit
<1>2. RunInv /\ SettledInv /\ I /\ [Next]_cliVars => I'
    <2> SUFFICES ASSUME RunInv, SettledInv, I, [Next]_cliVars PROVE I'
        OBVIOUS
    <2>1. CASE UNCHANGED cmd
        BY <2>1
    <2>2. CASE StartRun
        <3>1. PICK i \in Invocations :
                LET inline == \E n \in DOMAIN ConfigFiles(i.w) : ConfigFiles(i.w)[n].exists /\ ConfigFiles(i.w)[n].secret
                IN  cmd' = [Command(i.a, i.w) EXCEPT !.pc = IF inline THEN "failed" ELSE @]
            BY <2>2 DEF StartRun
        <3>2. cmd'.plan = None
            BY <3>1 DEF Command
        <3> QED
            BY <3>2 DEF PlanInv
    <2>3. CASE cmd # None /\ RunStep
        <3>1. DOMAIN cmd = CmdFields /\ Settled(cmd) /\ PlanInv(cmd)
            BY <2>3 DEF RunInv, SettledInv
        <3>2. PlanInv(cmd')
            BY <2>3, <3>1, RunMoves, PlanStep
        <3> QED
            BY <3>2
    <2> QED
        BY <2>1, <2>2, <2>3 DEF Next, Recommend, StartSession, cliVars
<1> QED
    BY <1>1, <1>2, RunAlways, SettledAlways, PTL DEF Spec

\* plan_placement, for every model, machine and order of equal tensors: what is
\* on the GPU leaves the margin free, nothing left to the CPU would still have
\* fitted, a plan that fits keeps both sides within their memory, and one more
\* byte of VRAM does not put less on the GPU.
THEOREM PlanAlwaysSound == Spec => []PlanSound
<1>1. SettledInv /\ (cmd # None => PlanInv(cmd)) => PlanSound
    <2> SUFFICES ASSUME cmd # None, cmd.plan # None, Settled(cmd), PlanInv(cmd) PROVE PlanSound
        BY Zenon DEF PlanSound, SettledInv
    <2> DEFINE h == Header[cmd.a.model]
               d == Descriptor(h)
               c == PlannerConfig(cmd)
               p == cmd.plan
               kv == PlannerKv(Or(cmd.a["kv_k"], cmd.a["kv"]), Or(cmd.a["kv_v"], cmd.a["kv"]))
               comp == EstimateCompute(d, Ubatch)
               cache == EstimateKv(d, cmd.a.ctx, kv)
               R == Reserved(d, c)
    <2>1. HasHeader(cmd) /\ CommandOK(cmd.a) /\ MachineOK(cmd.w) /\ cmd.loras \in Loras
        BY DEF PlanInv, Settled
    <2>2. h \in Headers /\ IsFiniteSet(h.tensors) /\ cmd.a.ctx \in Nat /\ cmd.w.file \in Nat
          /\ cmd.w.vram \in Nat /\ cmd.w.ram \in Nat
        BY <2>1 DEF HasHeader, CommandOK, MachineOK
    <2>3. d.tensors = h.tensors /\ d.embd = h.embd
        BY DEF Descriptor
    <2>4. Counted(d.tensors) /\ d.embd \in Nat
        BY <2>2, <2>3 DEF Counted, Headers
    <2>5. comp \in Nat /\ cache \in Nat
        BY <2>2, DescriptorMeasured, EstimatesNat
    <2>6. /\ c.vram = cmd.w.vram /\ c.ram = cmd.w.ram /\ c.ctx = cmd.a.ctx /\ c.kv = kv /\ c.frames = 0
          /\ c.mmproj = (IF cmd.a["mmproj"] # None \/ cmd.w.sibling THEN cmd.w.file ELSE 0)
                        + (IF cmd.a["draft"] # None THEN cmd.w.file ELSE 0)
          /\ c.lora = Len(cmd.loras) * cmd.w.file
        BY DEF PlannerConfig, MachineConfig
    <2>7. PICK order \in PackingOrders(d.tensors) : p = PlanPlacement(order, d, c)
        BY <2>3 DEF PlanInv, Planned
    <2>8. c.mmproj \in Nat /\ c.lora \in Nat
        BY <2>1, <2>2, <2>6, DemandNat
    <2> HIDE DEF h, d, c, p, kv
    <2>9. EstimateEncoder(d, 0) = 0
        BY <2>4 DEF EstimateEncoder
    <2>10. R = comp + cache + c.mmproj + c.lora /\ R \in Nat
        <3>1. R = comp + cache + c.mmproj + c.lora + EstimateEncoder(d, 0)
            BY <2>6 DEF Reserved
        <3> HIDE DEF comp, cache, R
        <3> QED
            BY <2>5, <2>8, <2>9, <3>1
    <2> DEFINE e == [ctx |-> cmd.a.ctx, kv |-> RunKv, vram |-> cmd.w.vram + 1, ram |-> cmd.w.ram,
                     mmproj |-> p.gpuTotal - p.gpuBytes - comp - EstimateKv(d, cmd.a.ctx, RunKv),
                     lora |-> 0, frames |-> 0]
               q == PlanPlacement(order, d, e)
    <2>11. PlanGood(p, d.tensors, cmd.w.vram, cmd.w.ram, R)
        BY <2>2, <2>4, <2>6, <2>7, <2>10, PlanIsGood
    <2>12. RunKv = kv
        BY DEF RunKv, kv
    <2>13. /\ e.vram = cmd.w.vram + 1 /\ e.ram = cmd.w.ram /\ e.ctx = cmd.a.ctx /\ e.kv = kv /\ e.frames = 0 /\ e.lora = 0
           /\ e.mmproj = R - comp - cache
        BY <2>11, <2>12 DEF PlanGood
    <2>14. R = Reserved(d, e)
        <3>1. Reserved(d, e) = comp + cache + e.mmproj + e.lora + EstimateEncoder(d, 0)
            BY <2>13 DEF Reserved
        <3> HIDE DEF comp, cache, R, e
        <3> QED
            BY <2>5, <2>9, <2>10, <2>13, <3>1
    <2> HIDE DEF e, R
    <2>15. q.gpuBytes >= p.gpuBytes /\ (p.fits => q.fits)
        BY <2>2, <2>4, <2>6, <2>7, <2>10, <2>13, <2>14, PlanRicher DEF R
    <2>16. p.gpuTotal - p.gpuBytes = R
        BY <2>11 DEF PlanGood
    <2> QED
        BY <2>7, <2>11, <2>15, <2>16, Zenon DEF PlanSound, PlanGood, d, h, p, e, q, comp
<1> QED
    BY <1>1, SettledAlways, PlanAlways, PTL

-----------------------------------------------------------------------------
(* Sequences put together.                                                 *)

\* What FlattenSeq passes through: g[i] is the first i sequences put together.
Flattens(g, ss) == g[0] = <<>> /\ \A i \in 1..Len(ss) : g[i] = g[i - 1] \o ss[i]

\* FlattenSeq puts one after the other.
LEMMA FlattenRec ==
    ASSUME NEW S, NEW ss \in Seq(Seq(S))
    PROVE  \E g \in [0..Len(ss) -> Seq(S)] : Flattens(g, ss) /\ FlattenSeq(ss) = g[Len(ss)]
<1> DEFINE n == Len(ss)
           V == Seq(S)
           Is(f) == f = [i \in 1..n |-> IF i = 1 THEN ss[i] ELSE f[i - 1] \o ss[i]]
<1>0. n \in Nat /\ n = Len(ss)
    OBVIOUS
<1>a. \A i \in 1..n : ss[i] \in V
    OBVIOUS
<1>b. <<>> \in V /\ \A x, y \in V : x \o y \in V /\ <<>> \o y = y
    OBVIOUS
<1>c. FlattenSeq(ss) = IF n = 0 THEN ss ELSE LET f == CHOOSE f : Is(f) IN f[n]
    BY Zenon DEF FlattenSeq
<1>d. n = 0 => ss = <<>>
    OBVIOUS
<1> HIDE DEF n, V
<1>1. PICK g \in [0..n -> V] : g[0] = <<>> /\ \A i \in 1..n : g[i] = g[i - 1] \o ss[i]
    <2> DEFINE step == [p \in (1..n) \X V |-> p[2] \o ss[p[1]]]
    <2>1. step \in [(1..n) \X V -> V]
        BY <1>a, <1>b
    <2>2. \A i \in 1..n, x \in V : step[<<i, x>>] = x \o ss[i]
        OBVIOUS
    <2> HIDE DEF step
    <2>4. PICK g \in [0..n -> V] : Recursion(g, n, <<>>, step)
        BY <1>0, <1>b, <2>1, RecExists
    <2>5. \A i \in 1..n : i - 1 \in 0..n
        BY <1>0
    <2>6. \A i \in 1..n : g[i - 1] \in V
        BY <2>5
    <2>7. \A i \in 1..n : g[i] = g[i - 1] \o ss[i]
        BY <2>2, <2>4, <2>6 DEF Recursion
    <2> QED
        BY <2>4, <2>7 DEF Recursion
<1>2. CASE n = 0
    BY <1>0, <1>1, <1>2, <1>c, <1>d DEF Flattens, V
<1>3. CASE n # 0
    <2> DEFINE h == [i \in 1..n |-> g[i]]
    <2>1. Is(h)
        <3>1. \A i \in 1..n : h[i] = IF i = 1 THEN ss[i] ELSE h[i - 1] \o ss[i]
            <4> SUFFICES ASSUME NEW i \in 1..n PROVE h[i] = IF i = 1 THEN ss[i] ELSE h[i - 1] \o ss[i]
                OBVIOUS
            <4>1. h[i] = g[i - 1] \o ss[i]
                BY <1>1
            <4>2. i = 1 => g[i - 1] \o ss[i] = ss[i]
                <5>1. i = 1 => g[i - 1] = <<>>
                    BY <1>1
                <5> QED
                    BY <5>1, <1>a, <1>b
            <4>3. i # 1 => h[i - 1] = g[i - 1]
                BY <1>0
            <4> HIDE DEF h
            <4> QED
                BY <4>1, <4>2, <4>3
        <3>2. h = [i \in 1..n |-> h[i]]
            OBVIOUS
        <3> HIDE DEF h
        <3> QED
            BY <3>1, <3>2
    <2>2. Is(CHOOSE f : Is(f))
        <3> HIDE DEF h, Is
        <3> QED
            BY <2>1
    <2> DEFINE f == CHOOSE f : Is(f)
    <2>3. FlattenSeq(ss) = f[n]
        BY <1>3, <1>c, ZenonT(40)
    <2> HIDE DEF f
    <2>4. Is(f)
        BY <2>2, Zenon DEF f
    <2>5. \A i \in 1..n : f[i] = IF i = 1 THEN ss[i] ELSE f[i - 1] \o ss[i]
        BY <2>4
    <2> DEFINE T == {i \in 0..n : i = 0 \/ f[i] = g[i]}
    <2>6. ASSUME NEW i \in 0..n - 1, i \in T PROVE i + 1 \in T
        <3>1. i + 1 \in 1..n /\ (i + 1) - 1 = i /\ i + 1 \in 0..n
            BY <1>0
        <3>2. g[i + 1] = g[i] \o ss[i + 1] /\ ss[i + 1] \in V
            BY <1>1, <1>a, <3>1
        <3>3. f[i + 1] = g[i + 1]
            <4>1. CASE i = 0
                <5>1. f[i + 1] = ss[i + 1]
                    BY <2>5, <3>1, <4>1
                <5>2. g[i + 1] = ss[i + 1]
                    BY <1>1, <1>b, <3>2, <4>1
                <5> QED
                    BY <5>1, <5>2
            <4>2. CASE i # 0
                <5>0. i + 1 # 1
                    BY <4>2
                <5>1. f[i + 1] = f[i] \o ss[i + 1]
                    BY <2>5, <3>1, <5>0
                <5> QED
                    BY <2>6, <3>2, <4>2, <5>1
            <4> QED
                BY <4>1, <4>2
        <3> QED
            BY <3>1, <3>3
    <2>7. \A i \in 0..n : i \in T
        <3>1. 0 \in T
            BY <1>0
        <3> HIDE DEF T
        <3> QED
            BY <1>0, <2>6, <3>1, UpTo
    <2>8. n \in 0..n
        BY <1>0
    <2>9. f[n] = g[n]
        BY <1>3, <2>7, <2>8
    <2> QED
        BY <1>0, <1>1, <2>3, <2>9 DEF Flattens, V
<1> QED
    BY <1>2, <1>3

\* Whatever is built up like that is FlattenSeq.
LEMMA FlattenIs ==
    ASSUME NEW S, NEW ss \in Seq(Seq(S)), NEW g, Flattens(g, ss)
    PROVE  FlattenSeq(ss) = g[Len(ss)] /\ FlattenSeq(ss) \in Seq(S)
<1> DEFINE n == Len(ss)
<1>1. PICK h \in [0..n -> Seq(S)] : Flattens(h, ss) /\ FlattenSeq(ss) = h[n]
    BY FlattenRec
<1>2. n \in Nat /\ n = Len(ss)
    OBVIOUS
<1> HIDE DEF n
<1> DEFINE T == {i \in 0..n : g[i] = h[i]}
<1>3. 0 \in T
    BY <1>1, <1>2 DEF Flattens
<1>4. ASSUME NEW i \in 0..n - 1, i \in T PROVE i + 1 \in T
    <2>1. i + 1 \in 1..n /\ (i + 1) - 1 = i /\ i + 1 \in 0..n
        BY <1>2
    <2>2. g[i + 1] = g[i] \o ss[i + 1] /\ h[i + 1] = h[i] \o ss[i + 1]
        BY <1>1, <1>2, <2>1 DEF Flattens
    <2> QED
        BY <1>4, <2>1, <2>2
<1>5. \A i \in 0..n : i \in T
    <2> HIDE DEF T
    <2> QED
        BY <1>2, <1>3, <1>4, UpTo
<1>6. n \in 0..n
    BY <1>2
<1> QED
    BY <1>1, <1>2, <1>5, <1>6

LEMMA FlattenType ==
    ASSUME NEW S, NEW ss \in Seq(Seq(S)) PROVE FlattenSeq(ss) \in Seq(S)
<1>1. PICK g \in [0..Len(ss) -> Seq(S)] : Flattens(g, ss) /\ FlattenSeq(ss) = g[Len(ss)]
    BY FlattenRec
<1>2. Len(ss) \in 0..Len(ss)
    OBVIOUS
<1> QED
    BY <1>1, <1>2

LEMMA FlattenEmpty == FlattenSeq(<<>>) = <<>>
BY DEF FlattenSeq

LEMMA FlattenConcat ==
    ASSUME NEW S, NEW ss \in Seq(Seq(S)), NEW tt \in Seq(Seq(S))
    PROVE  FlattenSeq(ss \o tt) = FlattenSeq(ss) \o FlattenSeq(tt)
<1> DEFINE n == Len(ss)
           m == Len(tt)
<1>1. PICK g \in [0..n -> Seq(S)] : Flattens(g, ss) /\ FlattenSeq(ss) = g[n]
    BY FlattenRec
<1>2. PICK h \in [0..m -> Seq(S)] : Flattens(h, tt) /\ FlattenSeq(tt) = h[m]
    BY FlattenRec
<1>3. n \in Nat /\ m \in Nat /\ ss \o tt \in Seq(Seq(S)) /\ Len(ss \o tt) = n + m
    OBVIOUS
<1>4. \A i \in 1..n + m : (ss \o tt)[i] = IF i <= n THEN ss[i] ELSE tt[i - n]
    OBVIOUS
<1>5. \A i \in 1..m : tt[i] \in Seq(S)
    OBVIOUS
<1>6. n = Len(ss) /\ m = Len(tt)
    OBVIOUS
<1> HIDE DEF n, m
<1> DEFINE f == [i \in 0..n + m |-> IF i <= n THEN g[i] ELSE g[n] \o h[i - n]]
<1>7. Flattens(f, ss \o tt)
    <2>1. f[0] = <<>>
        BY <1>1, <1>3 DEF Flattens
    <2>2. ASSUME NEW i \in 1..n + m PROVE f[i] = f[i - 1] \o (ss \o tt)[i]
        <3>1. CASE i <= n
            <4>1. i \in 1..n /\ i - 1 \in 0..n + m /\ i - 1 <= n /\ i \in 0..n + m
                BY <1>3, <3>1
            <4>2. f[i] = g[i] /\ f[i - 1] = g[i - 1] /\ (ss \o tt)[i] = ss[i]
                BY <1>4, <3>1, <4>1
            <4> QED
                BY <1>1, <1>6, <4>1, <4>2 DEF Flattens
        <3>2. CASE i > n
            <4>1. i - n \in 1..m /\ i - 1 \in 0..n + m /\ i \in 0..n + m /\ n \in 0..n /\ i - n - 1 \in 0..m
                BY <1>3, <3>2
            <4>2. (ss \o tt)[i] = tt[i - n] /\ f[i] = g[n] \o h[i - n]
                BY <1>3, <1>4, <3>2, <4>1
            <4>3. h[i - n] = h[i - n - 1] \o tt[i - n]
                BY <1>2, <1>6, <4>1 DEF Flattens
            <4>4. f[i - 1] = g[n] \o h[i - n - 1]
                <5>1. CASE i - 1 > n
                    <6>1. (i - 1) - n = i - n - 1 /\ ~(i - 1 <= n)
                        BY <1>3, <5>1
                    <6> QED
                        BY <4>1, <6>1
                <5>2. CASE i - 1 <= n
                    <6>1. i - 1 = n /\ i - n - 1 = 0 /\ h[0] = <<>> /\ g[n] \in Seq(S)
                        BY <1>2, <1>3, <3>2, <4>1, <5>2 DEF Flattens
                    <6>2. f[i - 1] = g[n]
                        BY <1>3, <4>1, <6>1
                    <6>3. g[n] \o <<>> = g[n]
                        BY <6>1
                    <6> HIDE DEF f
                    <6> QED
                        BY <6>1, <6>2, <6>3
                <5>3. i - 1 > n \/ i - 1 <= n
                    BY <1>3
                <5> HIDE DEF f
                <5> QED
                    BY <5>1, <5>2, <5>3
            <4>5. g[n] \in Seq(S) /\ h[i - n - 1] \in Seq(S) /\ tt[i - n] \in Seq(S)
                BY <1>5, <4>1
            <4> HIDE DEF f
            <4>6. g[n] \o (h[i - n - 1] \o tt[i - n]) = (g[n] \o h[i - n - 1]) \o tt[i - n]
                <5> DEFINE x == h[i - n - 1]
                           y == tt[i - n]
                           z == g[n]
                <5>1. z \in Seq(S) /\ x \in Seq(S) /\ y \in Seq(S)
                    BY <4>5
                <5> HIDE DEF x, y, z
                <5>2. z \o (x \o y) = (z \o x) \o y
                    BY <5>1, ConcatAssociative
                <5> QED
                    BY <5>2 DEF x, y, z
            <4> QED
                BY <4>2, <4>3, <4>4, <4>6
        <3>3. i <= n \/ i > n
            BY <1>3
        <3> HIDE DEF f
        <3> QED
            BY <3>1, <3>2, <3>3
    <2> HIDE DEF f
    <2> QED
        BY <1>3, <2>1, <2>2 DEF Flattens
<1>8. FlattenSeq(ss \o tt) = f[n + m]
    <2> HIDE DEF f
    <2> QED
        BY <1>3, <1>7, FlattenIs
<1>9. f[n + m] = g[n] \o h[m]
    <2>1. CASE m = 0
        <3>1. h[m] = <<>> /\ g[n] \in Seq(S) /\ f[n + m] = g[n]
            BY <1>2, <1>3, <2>1 DEF Flattens
        <3> QED
            BY <3>1
    <2>2. CASE m # 0
        <3>1. n + m \in 0..n + m /\ ~(n + m <= n) /\ (n + m) - n = m
            BY <1>3, <2>2
        <3> QED
            BY <3>1
    <2> QED
        BY <2>1, <2>2
<1> QED
    BY <1>1, <1>2, <1>8, <1>9

LEMMA FlattenOne == ASSUME NEW S, NEW s \in Seq(S) PROVE FlattenSeq(<<s>>) = s
<1> DEFINE g == [i \in 0..1 |-> IF i = 0 THEN <<>> ELSE s]
           ss == <<s>>
<1>1. ss \in Seq(Seq(S)) /\ Len(ss) = 1 /\ ss[1] = s
    OBVIOUS
<1>2. g[0] = <<>> /\ g[1] = s /\ <<>> \o s = s
    OBVIOUS
<1> HIDE DEF g, ss
<1>3. Flattens(g, ss)
    BY <1>1, <1>2 DEF Flattens
<1>4. FlattenSeq(ss) = s
    BY <1>1, <1>2, <1>3, FlattenIs
<1> QED
    BY <1>4 DEF ss

-----------------------------------------------------------------------------
(* runa chat: what is remembered of what was said.                         *)

\* The text of each message, as Voice puts them together.
Texts(h) == [k \in DOMAIN h |-> IF h[k].role = "assistant" THEN h[k].content ELSE <<>>]

LEMMA TextsType ==
    ASSUME NEW h \in History
    PROVE  /\ Texts(h) \in Seq(Seq(Piece)) /\ Len(Texts(h)) = Len(h) /\ Len(h) \in Nat
           /\ \A k \in 1..Len(h) : Texts(h)[k] = IF h[k].role = "assistant" THEN h[k].content ELSE <<>>
           /\ Voice(h) = FlattenSeq(Texts(h)) /\ Voice(h) \in Seq(Piece)
<1>1. DOMAIN h = 1..Len(h) /\ Len(h) \in Nat /\ \A k \in 1..Len(h) : h[k] \in Message
    BY MessageParts
<1>2. \A m \in Message : m.content \in Seq(Piece)
    BY DEF Message
<1>3. <<>> \in Seq(Piece)
    OBVIOUS
<1>4. Texts(h) \in [1..Len(h) -> Seq(Piece)]
    BY <1>1, <1>2, <1>3 DEF Texts
<1>5. Texts(h) \in Seq(Seq(Piece)) /\ Len(Texts(h)) = Len(h)
    BY <1>1, <1>4
<1>6. \A k \in 1..Len(h) : Texts(h)[k] = IF h[k].role = "assistant" THEN h[k].content ELSE <<>>
    BY <1>1 DEF Texts
<1>7. Voice(h) = FlattenSeq(Texts(h))
    BY DEF Voice, Texts
<1> QED
    BY <1>1, <1>5, <1>6, <1>7, FlattenType

LEMMA VoiceConcat ==
    ASSUME NEW x \in History, NEW y \in History
    PROVE  x \o y \in History /\ Voice(x \o y) = Voice(x) \o Voice(y)
<1> DEFINE z == x \o y
<1>1. /\ z \in History /\ Len(z) = Len(x) + Len(y) /\ Len(x) \in Nat /\ Len(y) \in Nat
      /\ \A k \in 1..Len(x) + Len(y) : z[k] = IF k <= Len(x) THEN x[k] ELSE y[k - Len(x)]
    BY ConcatProperties DEF History
<1> HIDE DEF z
<1>2. /\ Texts(x) \in Seq(Seq(Piece)) /\ Len(Texts(x)) = Len(x)
      /\ \A k \in 1..Len(x) : Texts(x)[k] = IF x[k].role = "assistant" THEN x[k].content ELSE <<>>
    BY TextsType
<1>3. /\ Texts(y) \in Seq(Seq(Piece)) /\ Len(Texts(y)) = Len(y)
      /\ \A k \in 1..Len(y) : Texts(y)[k] = IF y[k].role = "assistant" THEN y[k].content ELSE <<>>
    BY TextsType
<1>4. /\ Texts(z) \in Seq(Seq(Piece)) /\ Len(Texts(z)) = Len(z)
      /\ \A k \in 1..Len(z) : Texts(z)[k] = IF z[k].role = "assistant" THEN z[k].content ELSE <<>>
    BY <1>1, TextsType
<1> DEFINE a == Texts(x)
           b == Texts(y)
           c == Texts(z)
<1>5. /\ a \o b \in Seq(Seq(Piece)) /\ Len(a \o b) = Len(x) + Len(y)
      /\ \A k \in 1..Len(x) + Len(y) : (a \o b)[k] = IF k <= Len(x) THEN a[k] ELSE b[k - Len(x)]
    <2> HIDE DEF a, b
    <2>1. a \in Seq(Seq(Piece)) /\ b \in Seq(Seq(Piece)) /\ Len(a) = Len(x) /\ Len(b) = Len(y)
        BY <1>2, <1>3 DEF a, b
    <2>2. /\ a \o b \in Seq(Seq(Piece)) /\ Len(a \o b) = Len(a) + Len(b)
          /\ \A k \in 1..Len(a) + Len(b) : (a \o b)[k] = IF k <= Len(a) THEN a[k] ELSE b[k - Len(a)]
        BY <2>1, ConcatProperties, Zenon
    <2> QED
        BY <2>1, <2>2
<1>6. c = a \o b
    <2>1. ASSUME NEW k \in 1..Len(x) + Len(y) PROVE c[k] = (a \o b)[k]
        <3>1. CASE k <= Len(x)
            <4>1. k \in 1..Len(x) /\ z[k] = x[k] /\ k \in 1..Len(z)
                BY <1>1, <3>1
            <4>2. c[k] = a[k]
                BY <1>2, <1>4, <4>1
            <4> QED
                BY <1>5, <3>1, <4>2
        <3>2. CASE ~(k <= Len(x))
            <4>1. k - Len(x) \in 1..Len(y) /\ z[k] = y[k - Len(x)] /\ k \in 1..Len(z)
                BY <1>1, <3>2
            <4>2. c[k] = b[k - Len(x)]
                BY <1>3, <1>4, <4>1
            <4> QED
                BY <1>5, <3>2, <4>2
        <3> QED
            BY <3>1, <3>2
    <2>2. c \in Seq(Seq(Piece)) /\ Len(c) = Len(x) + Len(y)
        BY <1>1, <1>4
    <2> HIDE DEF a, b, c
    <2>3. Len(c) = Len(a \o b) /\ \A k \in 1..Len(c) : c[k] = (a \o b)[k]
        BY <1>5, <2>1, <2>2
    <2> DEFINE ab == a \o b
    <2>4. ab \in Seq(Seq(Piece)) /\ Len(c) = Len(ab) /\ \A k \in 1..Len(c) : c[k] = ab[k]
        BY <1>5, <2>3
    <2> HIDE DEF ab
    <2>5. c = ab
        BY <2>2, <2>4, SeqEqual
    <2> QED
        BY <2>5 DEF ab
<1>7. FlattenSeq(a \o b) = FlattenSeq(a) \o FlattenSeq(b)
    <2>1. a \in Seq(Seq(Piece)) /\ b \in Seq(Seq(Piece))
        BY <1>2, <1>3
    <2> HIDE DEF a, b
    <2> QED
        BY <2>1, FlattenConcat
<1>8. Voice(x) = FlattenSeq(a) /\ Voice(y) = FlattenSeq(b) /\ Voice(z) = FlattenSeq(c)
    BY DEF Voice, Texts
<1> HIDE DEF a, b, c
<1>9. Voice(z) = Voice(x) \o Voice(y)
    BY <1>6, <1>7, <1>8
<1> QED
    BY <1>1, <1>9 DEF z

\* Who is not the assistant says nothing.
LEMMA VoiceNone ==
    ASSUME NEW h \in History, \A k \in 1..Len(h) : h[k].role # "assistant" \/ h[k].content = <<>>
    PROVE  Voice(h) = <<>>
<1> DEFINE t == Texts(h)
           g == [i \in 0..Len(h) |-> <<>>]
<1>1. t \in Seq(Seq(Piece)) /\ Len(t) = Len(h) /\ Len(h) \in Nat /\ Voice(h) = FlattenSeq(t)
    BY TextsType
<1>2. \A k \in 1..Len(h) : t[k] = <<>>
    BY TextsType
<1>3. <<>> \o <<>> = <<>> /\ g[0] = <<>> /\ \A i \in 1..Len(h) : g[i] = <<>> /\ g[i - 1] = <<>>
    BY <1>1
<1>4. g[Len(h)] = <<>>
    BY <1>1
<1> HIDE DEF t, g
<1>5. Flattens(g, t)
    BY <1>1, <1>2, <1>3 DEF Flattens
<1>6. FlattenSeq(t) = g[Len(t)]
    BY <1>1, <1>5, FlattenIs
<1> QED
    BY <1>1, <1>4, <1>6

\* One message more.
LEMMA VoiceAppend ==
    ASSUME NEW h \in History, NEW m \in Message
    PROVE  /\ Append(h, m) \in History
           /\ Voice(Append(h, m)) = Voice(h) \o IF m.role = "assistant" THEN m.content ELSE <<>>
<1> DEFINE one == <<m>>
           text == IF m.role = "assistant" THEN m.content ELSE <<>>
<1>1. one \in History /\ Len(one) = 1 /\ one[1] = m /\ Append(h, m) = h \o one /\ Append(h, m) \in History
    BY DEF History
<1>2. text \in Seq(Piece)
    BY DEF Message
<1> HIDE DEF one, text
<1>3. Voice(one) = text
    <2>0. /\ Texts(one) \in Seq(Seq(Piece)) /\ Len(Texts(one)) = Len(one) /\ Voice(one) = FlattenSeq(Texts(one))
          /\ \A k \in 1..Len(one) : Texts(one)[k] = IF one[k].role = "assistant" THEN one[k].content ELSE <<>>
        BY <1>1, TextsType
    <2>1. Texts(one) \in Seq(Seq(Piece)) /\ Len(Texts(one)) = 1 /\ Texts(one)[1] = text /\ Voice(one) = FlattenSeq(Texts(one))
        BY <1>1, <2>0 DEF text
    <2> DEFINE t == Texts(one)
    <2> HIDE DEF t
    <2>2. t = <<text>>
        BY <2>1 DEF t
    <2>3. FlattenSeq(<<text>>) = text
        BY <1>2, FlattenOne
    <2> QED
        BY <2>1, <2>2, <2>3 DEF t
<1>4. Voice(h \o one) = Voice(h) \o Voice(one)
    BY <1>1, VoiceConcat
<1> QED
    BY <1>1, <1>3, <1>4 DEF text

\* The reply to message i ends at e.
Ends(h, i, e) ==
    /\ e \in i..Len(h) /\ \A k \in i + 1..e : h[k].role # "user"
    /\ e < Len(h) => h[e + 1].role = "user"

LEMMA PromptsIn ==
    ASSUME NEW h \in History
    PROVE  /\ Prompts(h) \subseteq 1..Len(h) /\ Len(h) \in Nat
           /\ \A i \in 1..Len(h) : i \in Prompts(h) <=> h[i].role = "user"
           /\ \A i \in Int : /\ IsFiniteSet({u \in Prompts(h) : u >= i})
                             /\ Cardinality({u \in Prompts(h) : u >= i}) \in Nat
<1>1. DOMAIN h = 1..Len(h) /\ Len(h) \in Nat
    BY MessageParts
<1>2. Prompts(h) \subseteq 1..Len(h) /\ \A i \in 1..Len(h) : i \in Prompts(h) <=> h[i].role = "user"
    BY <1>1 DEF Prompts
<1>3. IsFiniteSet(1..Len(h))
    BY <1>1, FS_Interval
<1>4. ASSUME NEW i \in Int
      PROVE  IsFiniteSet({u \in Prompts(h) : u >= i}) /\ Cardinality({u \in Prompts(h) : u >= i}) \in Nat
    <2> DEFINE T == {u \in Prompts(h) : u >= i}
    <2>1. T \subseteq 1..Len(h)
        BY <1>2
    <2> HIDE DEF T
    <2>2. IsFiniteSet(T) /\ Cardinality(T) \in Nat
        BY <1>3, <2>1, FS_Subset, FS_CardinalityType
    <2> QED
        BY <2>2 DEF T
<1> QED
    BY <1>1, <1>2, <1>4

LEMMA EndExists ==
    ASSUME NEW h \in History, NEW i \in Prompts(h)
    PROVE  \E e \in Nat : Ends(h, i, e) /\ ReplyTo(h, i) = SubSeq(h, i + 1, e)
<1> DEFINE later == {j \in Prompts(h) : j > i}
<1>1. i \in 1..Len(h) /\ Len(h) \in Nat /\ later \in SUBSET Nat /\ later \subseteq 1..Len(h)
    BY PromptsIn
<1>2. ReplyTo(h, i) = SubSeq(h, i + 1, IF later = {} THEN Len(h) ELSE Min(later) - 1)
    BY DEF ReplyTo
<1>3. \A k \in 1..Len(h) : h[k].role = "user" /\ k > i => k \in later
    BY PromptsIn
<1>4. \A k \in later : k > i /\ h[k].role = "user"
    BY PromptsIn
<1> HIDE DEF later
<1>5. CASE later = {}
    <2>1. Ends(h, i, Len(h))
        BY <1>1, <1>3, <1>5 DEF Ends
    <2> QED
        BY <1>1, <1>2, <1>5, <2>1
<1>6. CASE later # {}
    <2>1. PICK m \in later : m = Min(later) /\ \A n \in later : m <= n
        BY <1>1, <1>6, NatMin DEF Min
    <2>2. m \in 1..Len(h) /\ m > i /\ h[m].role = "user"
        BY <1>1, <1>4
    <2>3. ASSUME NEW k \in i + 1..m - 1 PROVE h[k].role # "user"
        <3>1. k \in 1..Len(h) /\ k > i /\ ~(m <= k)
            BY <1>1, <2>2
        <3> QED
            BY <1>3, <2>1, <3>1
    <2>4. Ends(h, i, m - 1) /\ m - 1 \in Nat
        BY <1>1, <2>2, <2>3 DEF Ends
    <2>5. ReplyTo(h, i) = SubSeq(h, i + 1, m - 1)
        BY <1>2, <1>6, <2>1
    <2> QED
        BY <2>4, <2>5
<1> QED
    BY <1>5, <1>6

\* A reply has one end.
LEMMA EndUnique ==
    ASSUME NEW h \in History, NEW i \in 1..Len(h), NEW d \in Nat, NEW e \in Nat, Ends(h, i, d), Ends(h, i, e)
    PROVE  d = e
<1>1. Len(h) \in Nat
    BY MessageParts
<1>2. ~(d < e)
    <2> SUFFICES ASSUME d < e PROVE FALSE
        OBVIOUS
    <2>1. d + 1 \in i + 1..e /\ d < Len(h)
        BY <1>1 DEF Ends
    <2> QED
        BY <2>1 DEF Ends
<1>3. ~(e < d)
    <2> SUFFICES ASSUME e < d PROVE FALSE
        OBVIOUS
    <2>1. e + 1 \in i + 1..d /\ e < Len(h)
        BY <1>1 DEF Ends
    <2> QED
        BY <2>1 DEF Ends
<1> QED
    BY <1>2, <1>3

\* A part of a history, wherever the same messages stand.
LEMMA SamePart ==
    ASSUME NEW g \in History, NEW h \in History, NEW i \in Nat \ {0}, NEW e \in Nat, NEW c \in Nat,
           e <= Len(g), i <= e + 1, c + e <= Len(h), \A k \in i..e : g[k] = h[c + k]
    PROVE  SubSeq(h, c + i, c + e) = SubSeq(g, i, e)
<1>1. Len(g) \in Nat /\ Len(h) \in Nat
    BY MessageParts
<1> DEFINE s == SubSeq(g, i, e)
           t == SubSeq(h, c + i, c + e)
<1>2. /\ s \in History /\ Len(s) = e - i + 1 /\ \A k \in 1..e - i + 1 : s[k] = g[i + k - 1]
    <2>1. i \in 1..Len(g) + 1 /\ e \in i - 1..Len(g)
        BY <1>1
    <2>2. /\ SubSeq(g, i, e) \in Seq(Message) /\ Len(SubSeq(g, i, e)) = IF i <= e THEN e - i + 1 ELSE 0
          /\ \A k \in 1..e - i + 1 : SubSeq(g, i, e)[k] = g[i + k - 1]
        <3>1. \A k \in i..e : g[k] \in Message
            BY <1>1, MessageParts
        <3> QED
            BY <3>1, SubSeqProperties
    <2> QED
        BY <2>1, <2>2 DEF History
<1>3. /\ t \in History /\ Len(t) = e - i + 1 /\ \A k \in 1..e - i + 1 : t[k] = h[c + i + k - 1]
    <2>1. c + i \in 1..Len(h) + 1 /\ c + e \in c + i - 1..Len(h)
        BY <1>1
    <2>2. /\ SubSeq(h, c + i, c + e) \in Seq(Message)
          /\ Len(SubSeq(h, c + i, c + e)) = IF c + i <= c + e THEN (c + e) - (c + i) + 1 ELSE 0
          /\ \A k \in 1..(c + e) - (c + i) + 1 : SubSeq(h, c + i, c + e)[k] = h[c + i + k - 1]
        <3>1. \A k \in c + i..c + e : h[k] \in Message
            BY <1>1, MessageParts
        <3> QED
            BY <3>1, SubSeqProperties
    <2> QED
        BY <2>1, <2>2 DEF History
<1>4. \A k \in 1..e - i + 1 : i + k - 1 \in i..e /\ c + (i + k - 1) = c + i + k - 1
    OBVIOUS
<1>5. \A k \in 1..e - i + 1 : t[k] = s[k]
    BY <1>2, <1>3, <1>4
<1> HIDE DEF s, t
<1>6. t = s
    BY <1>2, <1>3, <1>5, SeqEqual DEF History
<1> QED
    BY <1>6 DEF s, t

\* A turn that ends is remembered, with all that came before.
LEMMA RememberTurn ==
    ASSUME NEW S, NEW turns \in Seq(S), NEW e \in S, NEW path, NEW g \in History, NEW m \in Message, NEW x \in History,
           Remembers(g, turns, path), m.role = "user", m.content[1][1] = e.input,
           \A k \in 1..Len(x) : x[k].role # "user",
           Voice(x) = Told(e), e.model = path
    PROVE  Remembers(Append(g, m) \o x, Append(turns, e), path)
<1> DEFINE h == Append(g, m) \o x
           n == Len(g)
           more == Append(turns, e)
<1>1. n \in Nat /\ n = Len(g) /\ Len(x) \in Nat
    BY MessageParts
<1>2. /\ h \in History /\ Len(h) = n + 1 + Len(x) /\ h[n + 1] = m
      /\ \A k \in 1..n : h[k] = g[k]
      /\ \A k \in 1..Len(x) : h[n + 1 + k] = x[k]
    <2> DEFINE gm == Append(g, m)
    <2>1. gm \in History /\ Len(gm) = n + 1 /\ gm[n + 1] = m /\ \A k \in 1..n : gm[k] = g[k]
        BY DEF History
    <2> HIDE DEF gm, n
    <2>2. /\ gm \o x \in History /\ Len(gm \o x) = Len(gm) + Len(x)
          /\ \A k \in 1..Len(gm) + Len(x) : (gm \o x)[k] = IF k <= Len(gm) THEN gm[k] ELSE x[k - Len(gm)]
        BY <2>1, ConcatProperties, Zenon DEF History
    <2> DEFINE gx == gm \o x
    <2>3. gx = h
        BY DEF gm
    <2>4. \A k \in 1..n + 1 + Len(x) : gx[k] = IF k <= n + 1 THEN gm[k] ELSE x[k - (n + 1)]
        BY <2>1, <2>2
    <2>5. \A k \in 1..Len(x) : n + 1 + k \in 1..n + 1 + Len(x) /\ ~(n + 1 + k <= n + 1) /\ (n + 1 + k) - (n + 1) = k
        BY <1>1
    <2>6. \A k \in 1..n + 1 : k \in 1..n + 1 + Len(x) /\ k <= n + 1
        BY <1>1
    <2>7. gx \in History /\ Len(gx) = n + 1 + Len(x)
        BY <2>1, <2>2
    <2> HIDE DEF gx, h
    <2>8. \A k \in 1..n + 1 : gx[k] = gm[k]
        BY <2>4, <2>6
    <2>9. \A k \in 1..Len(x) : gx[n + 1 + k] = x[k]
        BY <2>4, <2>5
    <2>10. n + 1 \in 1..n + 1 /\ \A k \in 1..n : k \in 1..n + 1
        BY <1>1
    <2> QED
        BY <2>1, <2>3, <2>7, <2>8, <2>9, <2>10
<1>3. /\ Len(turns) \in Nat /\ DOMAIN turns = 1..Len(turns) /\ DOMAIN more = 1..Len(turns) + 1 /\ Len(more) = Len(turns) + 1
      /\ more[Len(turns) + 1] = e /\ \A t \in 1..Len(turns) : more[t] = turns[t]
    OBVIOUS
<1> HIDE DEF h, n, more
<1>4. Prompts(h) = Prompts(g) \cup {n + 1} /\ Prompts(g) \subseteq 1..n
    <2>1. \A k \in 1..Len(h) : k \in 1..n \/ k = n + 1 \/ (k - (n + 1) \in 1..Len(x) /\ n + 1 + (k - (n + 1)) = k)
        BY <1>1, <1>2
    <2>0. Prompts(g) \subseteq 1..n /\ \A k \in 1..n : k \in Prompts(g) <=> g[k].role = "user"
        BY <1>1, PromptsIn
    <2>2. ASSUME NEW k \in 1..Len(h) PROVE h[k].role = "user" <=> (k \in Prompts(g) \/ k = n + 1)
        <3>1. CASE k \in 1..n
            BY <1>1, <1>2, <2>0, <3>1
        <3>2. CASE k = n + 1
            BY <1>2, <3>2
        <3>3. CASE k - (n + 1) \in 1..Len(x) /\ n + 1 + (k - (n + 1)) = k
            <4>1. h[k].role # "user"
                BY <1>2, <3>3
            <4>2. k # n + 1 /\ k \notin 1..n
                BY <1>1, <3>3
            <4> QED
                BY <2>0, <4>1, <4>2
        <3> QED
            BY <2>1, <3>1, <3>2, <3>3
    <2>3. Prompts(g) \cup {n + 1} \subseteq 1..Len(h) /\ Prompts(g) \subseteq 1..n
        BY <1>1, <1>2, PromptsIn
    <2> QED
        BY <1>2, <2>2, <2>3, PromptsIn
<1> DEFINE Said(i, t) ==
        /\ h[i].content[1][1] = more[t].input
        /\ Voice(ReplyTo(h, i)) = Told(more[t])
        /\ more[t].model = path
<1>5. ASSUME NEW i \in Prompts(g)
      PROVE  LET t == Len(more) + 1 - Cardinality({u \in Prompts(h) : u >= i}) IN t \in DOMAIN more /\ Said(i, t)
    <2> DEFINE A == {u \in Prompts(g) : u >= i}
               B == {u \in Prompts(h) : u >= i}
               t == Len(turns) + 1 - Cardinality(A)
    <2>0. i \in 1..n /\ i \in Int
        BY <1>4
    <2>1. i \in 1..n /\ IsFiniteSet(A) /\ Cardinality(A) \in Nat
        BY <2>0, PromptsIn, Zenon
    <2>2. B = A \cup {n + 1} /\ n + 1 \notin A
        BY <1>1, <1>4, <2>1
    <2>3. /\ t \in DOMAIN turns /\ g[i].content[1][1] = turns[t].input
          /\ Voice(ReplyTo(g, i)) = Told(turns[t]) /\ turns[t].model = path
        BY DEF Remembers
    <2> HIDE DEF A, B
    <2>4. Cardinality(B) = Cardinality(A) + 1
        BY <2>1, <2>2, FS_AddElement
    <2>5. Len(more) + 1 - Cardinality(B) = t
        BY <1>3, <2>1, <2>4
    <2>6. PICK d \in Nat : Ends(g, i, d) /\ ReplyTo(g, i) = SubSeq(g, i + 1, d)
        BY EndExists
    <2>7. d \in i..n /\ (\A k \in i + 1..d : g[k].role # "user") /\ (d < n => g[d + 1].role = "user")
        BY <1>1, <2>6 DEF Ends
    <2>8. Ends(h, i, d)
        <3>1. d \in i..Len(h) /\ d < Len(h)
            BY <1>1, <1>2, <2>1, <2>7
        <3>2. \A k \in i + 1..d : k \in 1..n
            BY <1>1, <2>1, <2>7
        <3>3. \A k \in i + 1..d : h[k].role # "user"
            BY <1>2, <2>7, <3>2
        <3>4. h[d + 1].role = "user"
            <4>1. CASE d < n
                <5>1. d + 1 \in 1..n
                    BY <1>1, <2>1, <2>7, <4>1
                <5> QED
                    BY <1>2, <2>7, <4>1, <5>1
            <4>2. CASE d = n
                BY <1>2, <4>2
            <4> QED
                BY <1>1, <2>7, <4>1, <4>2
        <3> QED
            BY <3>1, <3>3, <3>4 DEF Ends
    <2>9. i \in Prompts(h) /\ i \in 1..Len(h)
        BY <1>1, <1>2, <1>4, <2>1
    <2>10. PICK b \in Nat : Ends(h, i, b) /\ ReplyTo(h, i) = SubSeq(h, i + 1, b)
        BY <1>2, <2>9, EndExists
    <2>11. ReplyTo(h, i) = SubSeq(h, i + 1, d)
        BY <1>2, <2>8, <2>9, <2>10, EndUnique
    <2>12. SubSeq(h, 0 + (i + 1), 0 + d) = SubSeq(g, i + 1, d)
        <3>1. i + 1 \in Nat \ {0} /\ d <= Len(g) /\ i + 1 <= d + 1 /\ 0 + d <= Len(h)
            BY <1>1, <1>2, <2>1, <2>7
        <3>2. \A k \in i + 1..d : g[k] = h[0 + k]
            BY <1>1, <1>2, <2>1, <2>7
        <3>3. d \in Nat /\ 0 \in Nat /\ g \in History /\ h \in History
            BY <1>2
        <3> DEFINE j == i + 1
        <3> HIDE DEF j
        <3>4. /\ j \in Nat \ {0} /\ d <= Len(g) /\ j <= d + 1 /\ 0 + d <= Len(h)
              /\ \A k \in j..d : g[k] = h[0 + k]
            BY <3>1, <3>2 DEF j
        <3>5. SubSeq(h, 0 + j, 0 + d) = SubSeq(g, j, d)
            BY <3>3, <3>4, SamePart, SMTT(60)
        <3> QED
            BY <3>5 DEF j
    <2>13. Voice(ReplyTo(h, i)) = Told(turns[t])
        <3>1. 0 + (i + 1) = i + 1 /\ 0 + d = d
            BY <2>1
        <3> QED
            BY <2>3, <2>6, <2>11, <2>12, <3>1
    <2>14. t \in 1..Len(turns)
        BY <1>3, <2>3
    <2> HIDE DEF t
    <2>15. t \in DOMAIN more /\ Said(i, t)
        BY <1>2, <1>3, <2>1, <2>3, <2>13, <2>14
    <2> HIDE DEF Said
    <2> QED
        BY <2>5, <2>15 DEF B
<1>6. LET t == Len(more) + 1 - Cardinality({u \in Prompts(h) : u >= n + 1}) IN t \in DOMAIN more /\ Said(n + 1, t)
    <2> DEFINE B == {u \in Prompts(h) : u >= n + 1}
    <2>1. B = {n + 1}
        BY <1>1, <1>4
    <2>2. Cardinality(B) = 1
        BY <2>1, FS_Singleton
    <2> HIDE DEF B
    <2>3. Len(more) + 1 - Cardinality(B) = Len(turns) + 1
        BY <1>3, <2>2
    <2>4. n + 1 \in Prompts(h) /\ n + 1 \in 1..Len(h)
        BY <1>1, <1>2, <1>4
    <2>5. Ends(h, n + 1, Len(h)) /\ Len(h) \in Nat
        <3>0. Len(h) = n + 1 + Len(x)
            BY <1>2
        <3>1. ASSUME NEW k \in (n + 1) + 1..Len(h) PROVE k - (n + 1) \in 1..Len(x) /\ n + 1 + (k - (n + 1)) = k
            BY <1>1, <3>0
        <3>2. \A k \in (n + 1) + 1..Len(h) : h[k].role # "user"
            BY <1>2, <3>1
        <3> QED
            BY <1>1, <1>2, <2>4, <3>2 DEF Ends
    <2>6. PICK b \in Nat : Ends(h, n + 1, b) /\ ReplyTo(h, n + 1) = SubSeq(h, n + 1 + 1, b)
        BY <1>2, <2>4, EndExists
    <2>7. b = Len(h)
        BY <1>2, <2>4, <2>5, <2>6, EndUnique
    <2>8. SubSeq(h, (n + 1) + 1, (n + 1) + Len(x)) = SubSeq(x, 1, Len(x))
        <3>1. n + 1 \in Nat /\ 1 \in Nat \ {0} /\ Len(x) <= Len(x) /\ 1 <= Len(x) + 1 /\ (n + 1) + Len(x) <= Len(h)
            BY <1>1, <1>2
        <3>2. \A k \in 1..Len(x) : x[k] = h[n + 1 + k]
            BY <1>2
        <3> DEFINE c == n + 1
        <3>3. c \in Nat /\ c + Len(x) <= Len(h) /\ \A k \in 1..Len(x) : x[k] = h[c + k]
            BY <3>1, <3>2
        <3> HIDE DEF c
        <3>4. SubSeq(h, c + 1, c + Len(x)) = SubSeq(x, 1, Len(x))
            BY <1>1, <1>2, <3>1, <3>3, SamePart
        <3> QED
            BY <3>4 DEF c
    <2>9. SubSeq(x, 1, Len(x)) = x
        BY SubSeqFull DEF History
    <2>10. ReplyTo(h, n + 1) = x
        BY <1>1, <1>2, <2>6, <2>7, <2>8, <2>9
    <2>11. Len(turns) + 1 \in DOMAIN more /\ Said(n + 1, Len(turns) + 1)
        BY <1>2, <1>3, <2>10
    <2> HIDE DEF Said
    <2> QED
        BY <2>3, <2>11 DEF B
<1> QED
    BY <1>4, <1>5, <1>6 DEF Remembers, h, more

\* The end of a history is remembered as it was.
LEMMA RememberSuffix ==
    ASSUME NEW turns, Len(turns) \in Nat, NEW path, NEW h \in History, Remembers(h, turns, path), NEW c \in 1..Len(h)
    PROVE  Remembers(SubSeq(h, c, Len(h)), turns, path)
<1> DEFINE g == SubSeq(h, c, Len(h))
           b == c - 1
<1>1. /\ g \in History /\ Len(g) = Len(h) - b /\ Len(h) \in Nat /\ b \in Nat /\ b < Len(h)
      /\ \A k \in 1..Len(h) - b : g[k] = h[b + k]
    <2>1. DOMAIN h = 1..Len(h) /\ Len(h) \in Nat /\ \A k \in c..Len(h) : h[k] \in Message
        BY MessageParts
    <2>2. /\ g \in Seq(Message) /\ Len(g) = IF c <= Len(h) THEN Len(h) - c + 1 ELSE 0
          /\ \A k \in 1..Len(h) - c + 1 : g[k] = h[c + k - 1]
        BY <2>1, SubSeqProperties
    <2>3. \A k \in 1..Len(h) - b : k \in 1..Len(h) - c + 1 /\ c + k - 1 = b + k
        BY <2>1
    <2> HIDE DEF g
    <2>4. Len(g) = Len(h) - b /\ b \in Nat /\ b < Len(h)
        BY <2>1, <2>2
    <2> QED
        BY <2>1, <2>2, <2>3, <2>4 DEF History
<1> HIDE DEF g, b
<1>2. \A k \in 1..Len(g) : k \in Prompts(g) <=> b + k \in Prompts(h)
    <2>1. \A k \in 1..Len(g) : b + k \in 1..Len(h)
        BY <1>1
    <2> QED
        BY <1>1, <2>1, PromptsIn
<1>3. Prompts(g) \subseteq 1..Len(g) /\ Prompts(h) \subseteq 1..Len(h)
    BY <1>1, PromptsIn
<1>4. ASSUME NEW i \in Prompts(g)
      PROVE  LET t == Len(turns) + 1 - Cardinality({u \in Prompts(g) : u >= i}) IN
             /\ t \in DOMAIN turns /\ g[i].content[1][1] = turns[t].input
             /\ Voice(ReplyTo(g, i)) = Told(turns[t]) /\ turns[t].model = path
    <2> DEFINE A == {u \in Prompts(g) : u >= i}
               B == {u \in Prompts(h) : u >= b + i}
    <2>1. i \in 1..Len(g) /\ i \in Int /\ b + i \in Prompts(h) /\ b + i \in 1..Len(h) /\ b + i \in Int
        BY <1>1, <1>2, <1>3
    <2>2. Cardinality(A) = Cardinality(B)
        <3> DEFINE f == [u \in A |-> b + u]
        <3>0. IsFiniteSet(A)
            BY <1>1, <2>1, PromptsIn, Zenon
        <3>1. \A u \in A : u \in 1..Len(g) /\ u >= i /\ b + u \in B
            BY <1>1, <1>2, <1>3, <2>1
        <3>2. \A v \in B : v - b \in A /\ b + (v - b) = v
            <4> SUFFICES ASSUME NEW v \in B PROVE v - b \in A /\ b + (v - b) = v
                OBVIOUS
            <4>1. v \in 1..Len(h) /\ v \in Prompts(h) /\ v >= b + i
                BY <1>3
            <4>2. v - b \in 1..Len(g) /\ v - b >= i /\ b + (v - b) = v
                BY <1>1, <2>1, <4>1
            <4> QED
                BY <1>2, <4>1, <4>2
        <3> HIDE DEF A, B
        <3>3. f \in [A -> B] /\ \A u, v \in A : f[u] = f[v] => u = v
            BY <1>1, <3>1
        <3>4. \A v \in B : \E u \in A : f[u] = v
            <4> SUFFICES ASSUME NEW v \in B PROVE \E u \in A : f[u] = v
                OBVIOUS
            <4>1. v - b \in A /\ f[v - b] = v
                BY <3>2
            <4> HIDE DEF f
            <4> QED
                BY <4>1
        <3> HIDE DEF f
        <3>5. f \in Bijection(A, B)
            BY <3>3, <3>4 DEF Bijection, Injection, Surjection, IsInjective
        <3> QED
            BY <3>0, <3>5, FS_Bijection DEF ExistsBijection
    <2>3. LET t == Len(turns) + 1 - Cardinality(B) IN
          /\ t \in DOMAIN turns /\ h[b + i].content[1][1] = turns[t].input
          /\ Voice(ReplyTo(h, b + i)) = Told(turns[t]) /\ turns[t].model = path
        BY <2>1, Zenon DEF Remembers
    <2> HIDE DEF A, B
    <2>4. PICK d \in Nat : Ends(g, i, d) /\ ReplyTo(g, i) = SubSeq(g, i + 1, d)
        BY <1>1, EndExists
    <2>5. d \in i..Len(g) /\ (\A k \in i + 1..d : g[k].role # "user") /\ (d < Len(g) => g[d + 1].role = "user")
        BY <2>4 DEF Ends
    <2>6. Ends(h, b + i, b + d) /\ b + d \in Nat
        <3>1. b + d \in b + i..Len(h) /\ b + d \in Nat
            BY <1>1, <2>1, <2>5
        <3>2. ASSUME NEW k \in (b + i) + 1..b + d PROVE h[k].role # "user"
            <4>1. k - b \in i + 1..d /\ k - b \in 1..Len(h) - b /\ b + (k - b) = k
                BY <1>1, <2>1, <2>5
            <4> QED
                BY <1>1, <2>5, <4>1
        <3>3. ASSUME b + d < Len(h) PROVE h[(b + d) + 1].role = "user"
            <4>1. d < Len(g) /\ d + 1 \in 1..Len(h) - b /\ b + (d + 1) = (b + d) + 1
                BY <1>1, <2>1, <2>5, <3>3
            <4> QED
                BY <1>1, <2>5, <4>1
        <3> QED
            BY <3>1, <3>2, <3>3 DEF Ends
    <2>7. PICK a \in Nat : Ends(h, b + i, a) /\ ReplyTo(h, b + i) = SubSeq(h, (b + i) + 1, a)
        BY <2>1, EndExists
    <2>8. a = b + d
        BY <2>1, <2>6, <2>7, EndUnique
    <2>9. SubSeq(h, b + (i + 1), b + d) = SubSeq(g, i + 1, d)
        <3>1. i + 1 \in Nat \ {0} /\ d <= Len(g) /\ i + 1 <= d + 1 /\ b + d <= Len(h)
            BY <1>1, <2>1, <2>5
        <3>2. \A k \in i + 1..d : g[k] = h[b + k]
            BY <1>1, <2>1, <2>5
        <3> DEFINE j == i + 1
        <3>3. j \in Nat \ {0} /\ j <= d + 1 /\ \A k \in j..d : g[k] = h[b + k]
            BY <3>1, <3>2
        <3> HIDE DEF j
        <3>4. SubSeq(h, b + j, b + d) = SubSeq(g, j, d)
            BY <1>1, <3>1, <3>3, SamePart
        <3> QED
            BY <3>4 DEF j
    <2>10. ReplyTo(g, i) = ReplyTo(h, b + i)
        <3>1. b + (i + 1) = (b + i) + 1
            BY <1>1, <2>1
        <3> QED
            BY <2>4, <2>7, <2>8, <2>9, <3>1
    <2>11. g[i] = h[b + i]
        BY <1>1, <2>1
    <2> QED
        BY <2>2, <2>3, <2>10, <2>11 DEF A
<1> QED
    BY <1>4 DEF Remembers, g

LEMMA RememberNothing == ASSUME NEW turns, NEW path PROVE Remembers(<<>>, turns, path)
BY DEF Remembers, Prompts

\* The record of a turn, and the models that may have answered.
Names == Paths \cup {f.path : f \in ChatFlags}
TurnRecord == [input : Int, shown : Seq(Piece), answered : BOOLEAN, model : Names]

\* The running turn: its message m stands behind the history g of the turns on
\* record, and what the engine is sent next has x behind it.  The REPL has the
\* texts of the rounds in x; the TUI keeps them for the answer.
Unfolds(g, m, x) ==
    /\ g \in History /\ m \in Message /\ x \in History
    /\ m.role = "user" /\ m.content[1][1] = inputs
    /\ Remembers(g, log, session.path)
    /\ session.history = Append(g, m)
    /\ PushResults(turn.messages, turn.results) = Append(g, m) \o x
    /\ \A k \in 1..Len(x) : x[k].role # "user"
    /\ turn.shown \in Seq(Piece)
    /\ session.ui = "repl" => Voice(x) = turn.shown
    /\ session.ui = "tui" => Voice(x) = <<>> /\ turn.answer = turn.shown
    /\ engine.where = "daemon" => x = <<>>

RecallInv ==
    /\ log \in Seq(TurnRecord)
    /\ chat \in {"prompt", "turn"} => session.path \in Names
    /\ chat = "prompt" => Remembers(session.history, log, session.path)
    /\ chat = "turn" => \E g, m, x : Unfolds(g, m, x)

LEMMA VoiceEmpty == <<>> \in History /\ Voice(<<>>) = <<>>
<1>1. <<>> \in History /\ Len(<<>>) = 0
    BY DEF History
<1> QED
    BY <1>1, VoiceNone

\* Histories put together.
LEMMA HistoryJoins ==
    /\ \A s, t \in History, m \in Message : Append(s \o t, m) = s \o Append(t, m)
    /\ \A s, t, u \in History : (s \o t) \o u = s \o (t \o u)
<1>1. ASSUME NEW s \in Seq(Message), NEW t \in Seq(Message), NEW u \in Seq(Message) PROVE (s \o t) \o u = s \o (t \o u)
    BY ConcatAssociative
<1>2. ASSUME NEW s \in Seq(Message), NEW t \in Seq(Message), NEW m \in Message PROVE Append(s \o t, m) = s \o Append(t, m)
    <2> DEFINE one == <<m>>
               st == s \o t
    <2>1. one \in Seq(Message) /\ st \in Seq(Message)
        OBVIOUS
    <2>2. Append(st, m) = st \o one /\ Append(t, m) = t \o one
        BY <2>1, AppendIsConcat
    <2> HIDE DEF one
    <2>3. (s \o t) \o one = s \o (t \o one)
        BY <2>1, ConcatAssociative
    <2> QED
        BY <2>2, <2>3
<1> QED
    BY <1>1, <1>2 DEF History

\* A turn ends.
LEMMA RecallEnds ==
    ASSUME EngineInv, HistoryInv, RecallInv, chat = "turn", NEW g, NEW m, NEW x, Unfolds(g, m, x),
           NEW y \in History, \A k \in 1..Len(y) : y[k].role # "user",
           NEW shown \in Seq(Piece), NEW ok \in BOOLEAN, Voice(y) = IF ok THEN shown ELSE <<>>,
           EndTurn(Append(g, m) \o y, shown, ok)
    PROVE  RecallInv'
<1> DEFINE e == [input |-> inputs, shown |-> shown, answered |-> ok, model |-> session.path]
           h == Append(g, m) \o y
<1>1. /\ chat' = "prompt" /\ log' = Append(log, e) /\ session' = [session EXCEPT !.history = h]
      /\ DOMAIN session = SessionFields /\ inputs \in Int
    BY DEF EndTurn, EngineInv, HistoryInv
<1>2. session'.history = h /\ session'.path = session.path
    BY <1>1 DEF SessionFields
<1>3. shown \in Seq(Piece) /\ session.path \in Names /\ log \in Seq(TurnRecord)
    BY TextsType DEF RecallInv
<1>4. e \in TurnRecord /\ e.input = inputs /\ Told(e) = (IF ok THEN shown ELSE <<>>) /\ e.model = session.path
    BY <1>1, <1>3 DEF TurnRecord, Told
<1> HIDE DEF e
<1>5. Remembers(h, Append(log, e), session.path)
    <2>1. /\ g \in History /\ m \in Message /\ m.role = "user" /\ m.content[1][1] = e.input
          /\ Remembers(g, log, session.path)
        BY <1>4 DEF Unfolds
    <2> QED
        BY <1>3, <1>4, <2>1, RememberTurn
<1>6. Append(log, e) \in Seq(TurnRecord)
    BY <1>3, <1>4
<1> HIDE DEF h
<1> QED
    BY <1>1, <1>2, <1>3, <1>5, <1>6 DEF RecallInv

\* It ends without an answer: the message stays, and nothing of what was shown.
LEMMA RecallFails ==
    ASSUME EngineInv, HistoryInv, RecallInv, chat = "turn", NEW shown \in Seq(Piece),
           EndTurn(session.history, shown, FALSE)
    PROVE  RecallInv'
<1>1. PICK g, m, x : Unfolds(g, m, x)
    BY DEF RecallInv
<1> DEFINE y == <<>>
<1>2. y \in History /\ Voice(y) = <<>> /\ \A k \in 1..Len(y) : y[k].role # "user"
    BY VoiceEmpty
<1>3. session.history = Append(g, m) \o y
    <2>1. session.history = Append(g, m) /\ Append(g, m) \in Seq(Message)
        BY <1>1 DEF Unfolds, History
    <2> QED
        BY <2>1, ConcatEmptySeq
<1> HIDE DEF y
<1>4. EndTurn(Append(g, m) \o y, shown, FALSE)
    BY <1>3
<1> QED
    BY <1>1, <1>2, <1>4, RecallEnds

\* It ends with an answer, unless that is blank.
LEMMA RecallCommits ==
    ASSUME EngineInv, HistoryInv, RecallInv, chat = "turn", NEW g, NEW m, NEW x, Unfolds(g, m, x),
           NEW answer \in Seq(Piece), NEW shown \in Seq(Piece), Voice(x) \o answer = shown,
           EndTurn(CommitHistory(Append(g, m) \o x, answer), shown, TRUE)
    PROVE  RecallInv'
<1> DEFINE a == Msg("assistant", answer, <<>>, None)
           gm == Append(g, m)
<1>1. /\ gm \in History /\ x \in History /\ \A k \in 1..Len(x) : x[k].role # "user"
      /\ Voice(x) \in Seq(Piece)
    BY TextsType DEF Unfolds, History
<1>2. a \in Message /\ a.role = "assistant" /\ a.content = answer
    BY DEF Msg, Message
<1>3. CASE answer = <<>>
    <2>1. Voice(x) = shown
        BY <1>1, <1>3, ConcatEmptySeq
    <2>2. EndTurn(gm \o x, shown, TRUE)
        BY <1>3 DEF CommitHistory
    <2> QED
        BY <1>1, <2>1, <2>2, RecallEnds
<1>4. CASE answer # <<>>
    <2> DEFINE y == Append(x, a)
    <2> HIDE DEF a, gm
    <2>1. y \in History /\ Voice(y) = shown
        BY <1>1, <1>2, VoiceAppend
    <2>2. \A k \in 1..Len(y) : y[k].role # "user"
        BY <1>1, <1>2 DEF History
    <2>3. Append(gm \o x, a) = gm \o y
        BY <1>1, <1>2, HistoryJoins, Zenon
    <2>4. EndTurn(gm \o y, shown, TRUE)
        BY <1>4, <2>3 DEF CommitHistory, a, gm
    <2> HIDE DEF y
    <2> QED
        BY <2>1, <2>2, <2>4, RecallEnds DEF gm
<1> QED
    BY <1>3, <1>4

\* One round of a local turn.  The answer is what is shown in the REPL in this
\* round, and what was shown so far in the TUI.
LEMMA RecallRound ==
    ASSUME EngineInv, HistoryInv, RecallInv, NEW r \in Replies, NEW answer \in Seq(Piece), NEW said \in Seq(Piece),
           Round(r, answer, said), Spoken(r.text) \in Seq(Piece),
           \/ session.ui = "repl" /\ answer = Spoken(r.text) /\ said = Spoken(r.text)
           \/ session.ui = "tui" /\ answer = turn.answer \o Spoken(r.text) /\ said = <<>>
    PROVE  RecallInv'
<1> DEFINE sent == PushResults(turn.messages, turn.results)
           calls == Spoken(r.calls)
           text == Spoken(r.text)
           shown == turn.shown \o text
           a == Msg("assistant", said, calls, None)
<1>1. chat = "turn" /\ TurnInv /\ inputs \in Int /\ turn.round + 1 \in Int /\ engine.where # "daemon"
    BY DEF Round, HistoryInv, TurnInv
<1>2. PICK g, m, x : Unfolds(g, m, x)
    BY <1>1 DEF RecallInv
<1> DEFINE gm == Append(g, m)
<1>3. /\ gm \in History /\ x \in History /\ \A k \in 1..Len(x) : x[k].role # "user"
      /\ sent = gm \o x /\ turn.shown \in Seq(Piece) /\ Voice(x) \in Seq(Piece)
    BY <1>2, TextsType DEF Unfolds, History
<1>4. shown \in Seq(Piece)
    BY <1>3
<1>5. calls \in Seq(Piece) /\ (r.calls # 0 => calls # <<>>)
    <2>1. \A i \in 1..r.calls : <<inputs, turn.round + 1, i>> \in Piece
        BY <1>1, ChatAssumption DEF Piece
    <2>2. calls \in [1..r.calls -> Piece] /\ r.calls \in Nat
        BY <2>1, ChatAssumption DEF Spoken
    <2> HIDE DEF calls
    <2>3. calls \in Seq(Piece) /\ Len(calls) = r.calls
        BY <2>2
    <2> QED
        BY <2>2, <2>3
<1> HIDE DEF calls
<1>6. a \in Message /\ a.role = "assistant" /\ a.content = said /\ a.calls = calls
    BY <1>5 DEF Msg, Message
<1>7. Voice(x) \o answer = shown
    <2> DEFINE v == turn.shown
    <2> HIDE DEF text, v
    <2>0. text \in Seq(Piece) /\ v \in Seq(Piece)
        BY <1>3 DEF text, v
    <2>1. CASE session.ui = "repl" /\ answer = text
        <3>1. Voice(x) = turn.shown
            BY <1>2, <2>1 DEF Unfolds
        <3> QED
            BY <2>1, <3>1
    <2>2. CASE session.ui = "tui" /\ answer = turn.answer \o text
        <3>1. Voice(x) = <<>> /\ turn.answer = v
            BY <1>2, <2>2 DEF Unfolds, v
        <3>2. v \o text \in Seq(Piece)
            BY <2>0
        <3>3. <<>> \o (v \o text) = v \o text
            BY <3>2, ConcatEmptySeq
        <3> QED
            BY <2>2, <3>1, <3>3 DEF v
    <2> QED
        BY <2>1, <2>2 DEF text
<1> HIDE DEF sent, shown, a, text
<1>8. ASSUME EndTurn(CommitHistory(sent, answer), shown, TRUE) PROVE RecallInv'
    <2>1. EndTurn(CommitHistory(Append(g, m) \o x, answer), shown, TRUE)
        BY <1>3, <1>8
    <2> QED
        BY <1>1, <1>2, <1>4, <1>7, <2>1, RecallCommits
<1>9. CASE EndTurn(session.history, shown, FALSE)
    BY <1>1, <1>4, <1>9, RecallFails
<1>10. ASSUME r.calls # 0, UNCHANGED <<chat, session, engine, inputs, log>>,
              turn' = [messages |-> PushCalls(sent, said, calls), results |-> calls,
                       round |-> turn.round + 1, answer |-> answer, shown |-> shown]
       PROVE  RecallInv'
    <2> DEFINE xa == Append(x, a)
               y == PushResults(xa, calls)
    <2> HIDE DEF gm
    <2>1. PushCalls(sent, said, calls) = Append(sent, a)
        BY <1>5, <1>10 DEF PushCalls, a
    <2>2. turn'.messages = Append(sent, a) /\ turn'.results = calls /\ turn'.answer = answer /\ turn'.shown = shown
        BY <1>10, <2>1
    <2>3. xa \in History /\ Len(xa) = Len(x) + 1 /\ xa[Len(x) + 1] = a /\ \A k \in 1..Len(x) : xa[k] = x[k]
        BY <1>3, <1>6 DEF History
    <2>4. Voice(xa) = Voice(x) \o said
        BY <1>3, <1>6, VoiceAppend
    <2> HIDE DEF xa
    <2> DEFINE tools == [i \in DOMAIN calls |-> Msg("tool", <<>>, <<>>, calls[i])]
    <2>5. /\ tools \in History /\ \A k \in 1..Len(tools) : tools[k].role = "tool"
        <3>1. \A p \in Piece : Msg("tool", <<>>, <<>>, p) \in Message /\ Msg("tool", <<>>, <<>>, p).role = "tool"
            BY DEF Msg, Message
        <3>2. DOMAIN calls = 1..Len(calls) /\ Len(calls) \in Nat /\ \A i \in 1..Len(calls) : calls[i] \in Piece
            BY <1>5
        <3>3. tools \in [1..Len(calls) -> Message] /\ \A k \in 1..Len(calls) : tools[k].role = "tool"
            BY <3>1, <3>2
        <3> HIDE DEF tools
        <3> DEFINE n == Len(calls)
        <3> HIDE DEF n
        <3>5. n \in Nat /\ tools \in [1..n -> Message]
            BY <3>2, <3>3 DEF n
        <3>4. tools \in Seq(Message) /\ Len(tools) = n
            BY <3>5
        <3> QED
            BY <3>3, <3>4 DEF History, n
    <2>6. y = xa \o tools /\ PushResults(Append(sent, a), calls) = Append(sent, a) \o tools
        BY DEF PushResults
    <2> HIDE DEF tools, y
    <2>7. Append(sent, a) \o tools = gm \o y
        <3>1. Append(sent, a) = gm \o xa
            BY <1>3, <1>6, HistoryJoins, Zenon DEF xa
        <3>2. (gm \o xa) \o tools = gm \o (xa \o tools)
            BY <1>3, <2>3, <2>5, HistoryJoins, Zenon
        <3> QED
            BY <2>6, <3>1, <3>2
    <2>8. y \in History /\ Voice(y) = Voice(x) \o said
        <3>1. Voice(tools) = <<>>
            BY <2>5, VoiceNone
        <3>2. xa \o tools \in History /\ Voice(xa \o tools) = Voice(xa) \o Voice(tools)
            BY <2>3, <2>5, VoiceConcat
        <3>3. Voice(xa) \in Seq(Piece)
            BY <2>3, TextsType
        <3>4. Voice(xa) \o <<>> = Voice(xa)
            BY <3>3, ConcatEmptySeq
        <3> QED
            BY <2>4, <2>6, <3>1, <3>2, <3>4
    <2>9. ASSUME NEW k \in 1..Len(y) PROVE y[k].role # "user"
        <3>1. /\ xa \in Seq(Message) /\ tools \in Seq(Message) /\ Len(xa) \in Nat /\ Len(tools) \in Nat /\ Len(x) \in Nat
            BY <1>3, <2>3, <2>5 DEF History
        <3>2. /\ Len(y) = Len(xa) + Len(tools)
              /\ \A j \in 1..Len(xa) + Len(tools) : y[j] = IF j <= Len(xa) THEN xa[j] ELSE tools[j - Len(xa)]
            BY <2>6, <3>1, ConcatProperties
        <3>3. CASE k <= Len(x)
            <4>1. k \in 1..Len(x) /\ y[k] = x[k]
                BY <2>3, <3>1, <3>2, <3>3
            <4> QED
                BY <1>3, <4>1
        <3>4. CASE k = Len(x) + 1
            BY <1>6, <2>3, <3>1, <3>2, <3>4
        <3>5. CASE k > Len(x) + 1
            <4>1. k - Len(xa) \in 1..Len(tools) /\ y[k] = tools[k - Len(xa)]
                BY <2>3, <3>1, <3>2, <3>5
            <4> QED
                BY <2>5, <4>1
        <3> QED
            BY <3>1, <3>2, <3>3, <3>4, <3>5
    <2>10. session'.ui = "repl" => Voice(y) = turn'.shown
        BY <1>7, <1>10, <2>2, <2>8
    <2>11. session'.ui = "tui" => Voice(y) = <<>> /\ turn'.answer = turn'.shown
        <3>1. session.ui = "tui" => Voice(x) = <<>> /\ said = <<>> /\ answer = turn.answer \o text /\ turn.answer = turn.shown
            BY <1>2 DEF Unfolds, text
        <3>2. <<>> \o <<>> = <<>>
            OBVIOUS
        <3> QED
            BY <1>10, <2>2, <2>8, <3>1, <3>2 DEF shown
    <2>12. PICK z : z = y
        OBVIOUS
    <2>15. Unfolds(g, m, z)'
        <3>1. /\ g \in History /\ m \in Message /\ m.role = "user" /\ m.content[1][1] = inputs'
              /\ Remembers(g, log', session'.path) /\ session'.history = Append(g, m)
            BY <1>2, <1>10 DEF Unfolds
        <3>2. PushResults(turn'.messages, turn'.results) = Append(g, m) \o z
            BY <2>2, <2>6, <2>7, <2>12 DEF gm
        <3>3. turn'.shown \in Seq(Piece) /\ engine'.where # "daemon"
            BY <1>1, <1>4, <1>10, <2>2
        <3>4. /\ z \in History /\ \A k \in 1..Len(z) : z[k].role # "user"
              /\ session'.ui = "repl" => Voice(z) = turn'.shown
              /\ session'.ui = "tui" => Voice(z) = <<>> /\ turn'.answer = turn'.shown
            BY <2>8, <2>9, <2>10, <2>11, <2>12
        <3> QED
            BY <3>1, <3>2, <3>3, <3>4 DEF Unfolds
    <2>13. \E g1, m1, x1 : Unfolds(g1, m1, x1)'
        BY <2>15
    <2>14. chat' = "turn" /\ session'.path \in Names /\ log' \in Seq(TurnRecord)
        BY <1>1, <1>10 DEF RecallInv
    <2> QED
        BY <2>13, <2>14 DEF RecallInv
<1> QED
    BY <1>8, <1>9, <1>10 DEF Round, sent, calls, shown, text

\* What trim_history_with leaves is the end of the history.
LEMMA TrimCuts ==
    ASSUME NEW e, NEW h \in History, h # <<>>
    PROVE  \E c \in 1..Len(h) : Trim(e, h) = SubSeq(h, c, Len(h))
<1> DEFINE Good(c) == c = Len(h) \/ HistoryTokens(e, SubSeq(h, c, Len(h))) <= HistoryBudget
           S == {c \in Cuts(h) : Good(c)}
<1>1. Len(h) \in Nat \ {0} /\ Cuts(h) \subseteq 1..Len(h) /\ Len(h) \in Cuts(h)
    BY DEF History, Cuts
<1>2. S \in SUBSET Nat /\ Len(h) \in S
    BY <1>1
<1>3. S \subseteq 1..Len(h)
    BY <1>1
<1> HIDE DEF S
<1>4. PICK c \in S : c = Min(S)
    BY <1>2, NatMin DEF Min
<1>5. Trim(e, h) = SubSeq(h, c, Len(h))
    BY <1>4, Zenon DEF Trim, S
<1> QED
    BY <1>3, <1>4, <1>5

\* A new message: what is left of the history is remembered as it was.
LEMMA RecallSubmit ==
    ASSUME EngineInv, HistoryInv, RecallInv, Submit
    PROVE  RecallInv'
<1> DEFINE p == session.history
           m == Msg("user", <<<<inputs + 1, 0>>>>, <<>>, None)
           q == Append(p, m)
           h == Trim(engine, q)
<1>1. /\ chat = "prompt" /\ DOMAIN session = SessionFields /\ inputs \in Nat /\ p \in History
      /\ Remembers(p, log, session.path) /\ session.path \in Names /\ log \in Seq(TurnRecord) /\ Len(log) \in Nat
    BY DEF Submit, Enters, EngineInv, HistoryInv, RecallInv
<1>2. /\ chat' = "turn" /\ engine' = engine /\ inputs' = inputs + 1 /\ log' = log
      /\ session' = [session EXCEPT !.history = h, !.armed = FALSE]
      /\ turn' = [NoTurn EXCEPT !.messages = h]
    BY DEF Submit, Enters
<1>3. m \in Message /\ m.role = "user" /\ m.content[1][1] = inputs + 1
    <2>1. <<inputs + 1, 0>> \in Piece
        BY <1>1 DEF Piece
    <2>2. <<<<inputs + 1, 0>>>> \in Seq(Piece) /\ <<>> \in Seq(Piece)
        BY <2>1
    <2> QED
        BY <2>2 DEF Msg, Message
<1> HIDE DEF m, p
<1>4. /\ q \in History /\ Len(q) = Len(p) + 1 /\ Len(p) \in Nat /\ q[Len(p) + 1] = m
      /\ \A k \in 1..Len(p) : q[k] = p[k]
    BY <1>1, <1>3 DEF History
<1> HIDE DEF q
<1>5. PICK c \in 1..Len(q) : h = SubSeq(q, c, Len(q))
    BY <1>4, TrimCuts
<1> HIDE DEF h
<1>6. /\ session'.history = h /\ session'.path = session.path /\ session'.ui = session.ui
      /\ turn'.messages = h /\ turn'.results = <<>> /\ turn'.answer = <<>> /\ turn'.shown = <<>>
    BY <1>1, <1>2 DEF SessionFields, NoTurn
<1>7. PICK g \in History : h = Append(g, m) /\ Remembers(g, log, session.path)
    <2> DEFINE b == Len(q)
    <2>1. CASE c = Len(p) + 1
        <3>1. /\ h \in Seq(Message) /\ Len(h) = 1 /\ h[1] = m
            BY <1>3, <1>4, <1>5, <2>1, SubSeqProperties
        <3>2. h = <<m>> /\ Append(<<>>, m) = <<m>>
            BY <3>1
        <3> QED
            BY <3>2, RememberNothing, VoiceEmpty
    <2>2. CASE c # Len(p) + 1
        <3> DEFINE g == SubSeq(p, c, Len(p))
        <3>1. c \in 1..Len(p)
            BY <1>4, <2>2
        <3>2. Remembers(g, log, session.path)
            BY <1>1, <3>1, RememberSuffix
        <3>3. \A k \in c..Len(p) : p[k] \in Message
            BY <1>1, <1>4, <3>1, MessageParts
        <3>4. /\ g \in Seq(Message) /\ Len(g) = Len(p) - c + 1
              /\ \A k \in 1..Len(p) - c + 1 : g[k] = p[c + k - 1]
            BY <1>4, <3>1, <3>3, SubSeqProperties
        <3>5. \A k \in c..Len(q) : q[k] \in Message
            BY <1>4, <3>1, MessageParts
        <3>6. /\ h \in Seq(Message) /\ Len(h) = Len(q) - c + 1
              /\ \A k \in 1..Len(q) - c + 1 : h[k] = q[c + k - 1]
            BY <1>4, <1>5, <3>1, <3>5, SubSeqProperties
        <3> HIDE DEF g
        <3> DEFINE gm == Append(g, m)
        <3>7. /\ gm \in Seq(Message) /\ Len(gm) = Len(g) + 1 /\ gm[Len(g) + 1] = m /\ Len(g) \in Nat
              /\ \A k \in 1..Len(g) : gm[k] = g[k]
            <4>1. g \in Seq(Message) /\ m \in Message /\ Len(g) \in Nat
                BY <1>3, <3>4
            <4> QED
                BY <4>1, AppendProperties
        <3> HIDE DEF gm
        <3>8. Len(h) = Len(gm)
            BY <1>4, <3>1, <3>4, <3>6, <3>7
        <3>9. ASSUME NEW k \in 1..Len(h) PROVE h[k] = gm[k]
            <4>1. CASE k = Len(g) + 1
                <5>1. k \in 1..Len(q) - c + 1 /\ c + k - 1 = Len(p) + 1
                    BY <1>4, <3>1, <3>4, <3>6, <3>7, <3>8, <4>1
                <5> QED
                    BY <1>4, <3>6, <3>7, <4>1, <5>1
            <4>2. CASE k # Len(g) + 1
                <5>0. /\ Len(g) = Len(p) - c + 1 /\ Len(q) = Len(p) + 1 /\ Len(h) = Len(g) + 1 /\ Len(g) \in Nat
                      /\ Len(p) \in Nat
                    BY <1>4, <3>4, <3>7, <3>8
                <5>1. k \in 1..Len(g) /\ k \in 1..Len(p) - c + 1 /\ k \in 1..Len(q) - c + 1 /\ c + k - 1 \in 1..Len(p)
                    BY <3>1, <4>2, <5>0
                <5>2. h[k] = q[c + k - 1] /\ gm[k] = g[k] /\ g[k] = p[c + k - 1]
                    BY <3>4, <3>6, <3>7, <5>1
                <5> QED
                    BY <1>4, <5>1, <5>2
            <4> QED
                BY <4>1, <4>2
        <3>10. h = gm
            BY <3>6, <3>7, <3>8, <3>9, SeqEqual
        <3> QED
            BY <3>2, <3>4, <3>10 DEF gm, History
    <2> QED
        BY <2>1, <2>2
<1>8. PICK n : n = m
    OBVIOUS
<1>9. Unfolds(g, n, <<>>)'
    <2>1. Append(g, n) \in Seq(Message) /\ h = Append(g, n)
        BY <1>3, <1>7, <1>8 DEF History
    <2>2. Append(g, n) \o <<>> = Append(g, n)
        BY <2>1, ConcatEmptySeq
    <2>3. PushResults(h, <<>>) = h
        <3>1. h \in History /\ <<>> \in Seq(Piece)
            BY <2>1 DEF History
        <3> QED
            BY <3>1, ResultMessages, Zenon
    <2>4. PushResults(turn'.messages, turn'.results) = Append(g, n) \o <<>>
        BY <1>6, <2>1, <2>2, <2>3
    <2>5. <<>> \in History /\ Voice(<<>>) = <<>> /\ <<>> \in Seq(Piece) /\ \A k \in 1..Len(<<>>) : <<>>[k].role # "user"
        BY VoiceEmpty
    <2>6. g \in History /\ n \in Message /\ n.role = "user" /\ n.content[1][1] = inputs' /\ Remembers(g, log', session'.path)
        BY <1>2, <1>3, <1>6, <1>7, <1>8
    <2>7. session'.history = Append(g, n)
        BY <1>6, <2>1
    <2> QED
        BY <1>6, <2>4, <2>5, <2>6, <2>7, Zenon DEF Unfolds
<1>10. \E g1, m1, x1 : Unfolds(g1, m1, x1)'
    BY <1>9
<1> QED
    BY <1>1, <1>2, <1>6, <1>10 DEF RecallInv

\* Every step of a session.
LEMMA RecallStep ==
    ASSUME EngineInv, HistoryInv, RecallInv, ChatNext
    PROVE  RecallInv'
<1>p. ASSUME NEW n \in Nat, NEW x \in Int, NEW y \in Int
      PROVE  [i \in 1..n |-> <<x, y, i>>] \in Seq(Piece)
    <2>1. \A i \in 1..n : <<x, y, i>> \in Piece
        BY DEF Piece
    <2>2. [i \in 1..n |-> <<x, y, i>>] \in [1..n -> Piece]
        BY <2>1
    <2> QED
        BY <2>2
<1>1. ASSUME NEW r \in Replies, chat = "turn", ReplRound(r) \/ TuiRound(r) PROVE RecallInv'
    <2> DEFINE text == Spoken(r.text)
    <2>1. r.text \in Nat /\ inputs \in Int /\ turn.round + 1 \in Int /\ turn.answer \in Seq(Piece)
        BY <1>1, ChatAssumption DEF HistoryInv, TurnInv
    <2>2. text \in Seq(Piece)
        BY <1>p, <2>1 DEF Spoken
    <2>3. turn.answer \o text \in Seq(Piece) /\ <<>> \in Seq(Piece)
        BY <2>1, <2>2
    <2>4. CASE ReplRound(r)
        BY <2>2, <2>4, RecallRound DEF ReplRound
    <2>5. CASE TuiRound(r)
        BY <2>2, <2>3, <2>5, RecallRound DEF TuiRound
    <2> QED
        BY <1>1, <2>4, <2>5
<1>2. ASSUME NEW r \in Replies, DaemonTurn(r) PROVE RecallInv'
    <2> DEFINE text == [i \in 1..r.text |-> <<inputs, 1, i>>]
    <2>1. chat = "turn" /\ TurnInv /\ inputs \in Int /\ engine.where = "daemon"
        BY <1>2 DEF DaemonTurn, HistoryInv
    <2>2. text \in Seq(Piece)
        <3>1. r.text \in Nat /\ 1 \in Int
            BY ChatAssumption
        <3> QED
            BY <1>p, <2>1, <3>1, Zenon
    <2>3. EndTurn(CommitHistory(turn.messages, text), text, TRUE)
        BY <1>2 DEF DaemonTurn
    <2> HIDE DEF text
    <2>4. turn.results = <<>> /\ PushResults(turn.messages, turn.results) = turn.messages
        BY <2>1, ResultMessages DEF TurnInv
    <2> QED
        <3>1. PICK g, m, x : Unfolds(g, m, x)
            BY <2>1 DEF RecallInv
        <3>2. x = <<>> /\ turn.messages = Append(g, m) \o x
            BY <2>1, <2>4, <3>1 DEF Unfolds
        <3>3. Voice(x) = <<>>
            BY <3>2, VoiceEmpty
        <3>4. Voice(x) \o text = text
            BY <2>2, <3>3, ConcatEmptySeq
        <3>5. EndTurn(CommitHistory(Append(g, m) \o x, text), text, TRUE)
            BY <2>3, <3>2
        <3> QED
            BY <2>1, <2>2, <3>1, <3>4, <3>5, RecallCommits
<1>3. CASE Submit
    BY <1>3, RecallSubmit
<1>4. ASSUME NEW r \in Replies, RoundFails(r) PROVE RecallInv'
    <2> DEFINE text == Spoken(r.text)
    <2>1. chat = "turn" /\ r.text \in Nat /\ inputs \in Int /\ turn.round + 1 \in Int
        BY <1>4, ChatAssumption DEF RoundFails, HistoryInv, TurnInv
    <2>2. text \in Seq(Piece)
        BY <1>p, <2>1 DEF Spoken
    <2>3. EndTurn(session.history, turn.shown \o text, FALSE)
        BY <1>4 DEF RoundFails
    <2> HIDE DEF text
    <2>4. turn.shown \in Seq(Piece)
        BY <2>1 DEF RecallInv, Unfolds
    <2>5. turn.shown \o text \in Seq(Piece)
        BY <2>2, <2>4
    <2> QED
        BY <2>1, <2>3, <2>5, RecallFails
<1>7. CASE DaemonFails
    <2>1. chat = "turn" /\ TurnInv /\ engine.where = "daemon" /\ <<>> \in Seq(Piece)
        BY <1>7 DEF DaemonFails, HistoryInv
    <2>2. turn.messages = session.history
        <3>1. PICK g, m, x : Unfolds(g, m, x)
            BY <2>1 DEF RecallInv
        <3>2. PushResults(turn.messages, turn.results) = turn.messages
            BY <2>1, ResultMessages DEF TurnInv
        <3>3. x = <<>> /\ Append(g, m) \in Seq(Message) /\ turn.messages = Append(g, m) \o x /\ session.history = Append(g, m)
            BY <2>1, <3>1, <3>2 DEF Unfolds, History
        <3> QED
            BY <3>3, ConcatEmptySeq
    <2>3. EndTurn(session.history, <<>>, FALSE)
        BY <1>7, <2>2 DEF DaemonFails, CommitHistory
    <2> QED
        BY <2>1, <2>3, RecallFails
<1>5. ASSUME NEW line \in Lines, Slash(line) PROVE RecallInv'
    <2>1. /\ chat = "prompt" /\ log' = log
          /\ chat' = "ended" \/ (chat' = "prompt" /\ Follows(session', session))
        BY <1>5, SlashKeeps
    <2>2. CASE session'.history = session.history /\ session'.path = session.path
        BY <2>1, <2>2 DEF RecallInv
    <2>3. CASE session'.history = <<>> /\ session'.path \in Paths \cup {session.path}
        <3>1. session'.path \in Names
            BY <2>1, <2>3 DEF RecallInv, Names
        <3>2. Remembers(session'.history, log', session'.path)
            BY <2>3, RememberNothing
        <3> QED
            BY <2>1, <3>1, <3>2 DEF RecallInv
    <2>4. CASE chat' = "ended"
        BY <2>1, <2>4 DEF RecallInv
    <2> QED
        BY <2>1, <2>2, <2>3, <2>4 DEF Follows
<1>6. ASSUME NEW k \in {"ctrl_c", "ctrl_d", "other"}, Key(k) PROVE RecallInv'
    <2>1. chat = "prompt" /\ DOMAIN session = SessionFields /\ log' = log
        BY <1>6 DEF Key, EngineInv
    <2>2. EndChat \/ (session' = [session EXCEPT !.armed = (k = "ctrl_c")] /\ UNCHANGED <<chat, engine>>)
        BY <1>6 DEF Key
    <2>3. session' = [session EXCEPT !.armed = (k = "ctrl_c")] =>
              session'.history = session.history /\ session'.path = session.path
        BY <2>1 DEF SessionFields
    <2> QED
        BY <2>1, <2>2, <2>3 DEF EndChat, RecallInv
<1> QED
    BY <1>1, <1>2, <1>3, <1>4, <1>5, <1>6, <1>7 DEF ChatNext

\* A session starts with nothing to remember.
LEMMA RecallStart ==
    ASSUME RecallInv, NEW f \in ChatFlags, NEW up, StartChat(f, up)
    PROVE  RecallInv'
<1> DEFINE mcp == f.mcp \/ f.mcpConfig
           s == [ui |-> f.ui, path |-> f.path, backend |-> f.backend, mode |-> f.mode, threads |-> f.threads,
                 history |-> <<>>, think |-> f.think, hub |-> mcp, loras |-> f.loras, rpc |-> f.rpc,
                 armed |-> FALSE]
<1>1. s.history = <<>> /\ s.path = f.path /\ f.path \in Names
    BY DEF Names
<1>2. log' = log /\ (EndChat \/ \E where, models : Serve(s, where, models))
    BY Zenon DEF StartChat
<1> HIDE DEF s
<1>3. CASE EndChat
    BY <1>2, <1>3 DEF EndChat, RecallInv
<1>4. ASSUME NEW where, NEW models, Serve(s, where, models) PROVE RecallInv'
    <2>1. EndChat \/ (chat' = "prompt" /\ session' = s)
        BY <1>4 DEF Serve
    <2>2. Remembers(s.history, log', s.path)
        BY <1>1, RememberNothing
    <2> QED
        BY <1>1, <1>2, <1>3, <2>1, <2>2 DEF RecallInv
<1> QED
    BY <1>2, <1>3, <1>4

\* What was said is remembered, for any replies, tool rounds, commands, context
\* and engine: the prompts of the history are those of the last turns, each with
\* the texts that its turn showed if it was answered, in the REPL and in the TUI,
\* and with nothing if it failed after showing any, and all come from the model
\* of the session.
THEOREM SaidAlwaysRemembered == Spec => []SaidIsRemembered
<1>1. CliInit => RecallInv
    BY DEF CliInit, ChatInit, RecallInv
<1>2. EngineInv /\ HistoryInv /\ RecallInv /\ [Next]_cliVars => RecallInv'
    <2> SUFFICES ASSUME EngineInv, HistoryInv, RecallInv, [Next]_cliVars PROVE RecallInv'
        OBVIOUS
    <2>1. CASE UNCHANGED chatVars
        <3>1. UNCHANGED <<chat, session, engine, turn, inputs, log>>
            BY <2>1 DEF chatVars
        <3> QED
            BY <3>1 DEF RecallInv, Unfolds
    <2>2. CASE StartSession
        BY <2>2, RecallStart DEF StartSession
    <2>3. CASE ChatNext
        BY <2>3, RecallStep
    <2> QED
        BY <2>1, <2>2, <2>3 DEF Next, StartRun, Recommend, cliVars
<1>3. RecallInv => SaidIsRemembered
    BY DEF RecallInv, SaidIsRemembered
<1> QED
    BY <1>1, <1>2, <1>3, HistoryAlways, PTL DEF Spec
==============================================================================
