----------------------------- MODULE EngineLoad ------------------------------
(***************************************************************************)
(* What a load asks of llama.cpp: crates/runa-engine/src/placement.rs and  *)
(* load.rs, and the choice of a backend (runa-core/src/backend.rs,         *)
(* crates/runa/src/engine.rs).  A path is a record of what is there.       *)
(***************************************************************************)
EXTENDS Integers, Sequences, FiniteSets

CONSTANTS
    HasMistral,     \* the build has the mistralrs feature
    HasRpc,         \* the build has the rpc feature
    Devices,        \* number of ggml devices of the machine
    Failed          \* a load that did not succeed

All == 256          \* more layers than any model has; the code writes u32::MAX

\* Placement::new and the modes; `experts` is the override that keeps the
\* expert tensors of that many layers on the CPU.
Placed(layers, experts) ==
    [layers |-> layers, experts |-> experts, devices |-> <<>>, split |-> <<>>, rpc |-> FALSE]
FromMode(mode) ==
    CASE mode = "cpu" -> Placed(0, 0) [] mode = "gpu" -> Placed(All, 0)
      [] mode = "hybrid" -> Placed(All, All)
WithNCpuMoe(p, n) == [p EXCEPT !.experts = IF n >= 256 THEN All ELSE n]

\* resolve_backend and ensure_backend_available, on the kind of thing at the
\* path: "gguf", "snapshot" (with a config.json), "dir", "file" or "nothing".
Backend(requested, kind) ==
    CASE requested \in {"auto", "gguf"} /\ kind = "gguf" -> "gguf"
      [] requested \in {"auto", "mistral"} /\ kind = "snapshot" /\ HasMistral -> "mistral"
      [] OTHER -> "error"

\* resolve_device_spec: an index in range, or a name that is known.
ResolveDevice(spec) == spec \in 0..Devices - 1

\* load: what it refuses before llama.cpp sees the file.
Refused(kind, p, c) ==
    \/ kind \in {"nothing", "dir", "snapshot"}
    \/ \E i \in DOMAIN c.loras : ~c.loras[i].exists
    \/ p.layers = 0 /\ (p.split # <<>> \/ p.devices # <<>>)
    \/ p.rpc /\ (~HasRpc \/ p.devices = <<>>)
    \/ \E i \in DOMAIN p.devices : ~ResolveDevice(p.devices[i])
    \/ Len(p.split) > (IF Devices > 1 THEN Devices ELSE 1)

\* The split mode that llama.cpp is told.
SplitMode(p) ==
    CASE Len(p.devices) = 1 -> "none"
      [] Len(p.devices) > 1 \/ Len(p.split) > 1 -> "layer"
      [] OTHER -> "default"

\* context_params and the adapters that load and reset_context attach to a
\* fresh context.
Context(c) == [ctx |-> c.ctx, threads |-> c.threads, kv |-> c.kv, loras |-> c.loras]

Loaded(path, p, c) == [path |-> path, placement |-> p, config |-> c, context |-> Context(c),
                        split |-> SplitMode(p), cache |-> FALSE]

\* LocalEngine::load for gguf, and load: what can come of it.  A file that is
\* not refused may still fail in llama.cpp.
LoadOutcomes(path, kind, p, c) ==
    {Loaded(path, p, c) : x \in IF Refused(kind, p, c) \/ kind # "gguf" THEN {} ELSE {0}} \cup {Failed}

\* Mutant: the adapters are not attached again.
MutResetContext(m) == [m EXCEPT !.context = [Context(m.config) EXCEPT !.loras = <<>>]]

\* reset_context: a new context with the same parameters and adapters, or the
\* old one if that fails.
ResetContext(m) == [m EXCEPT !.context = Context(m.config)]

\* attach_prompt_cache: a missing cache is an error only if it was named.
AttachOutcomes(m, disabled, named) ==
    IF disabled THEN {m} ELSE {[m EXCEPT !.cache = TRUE]} \cup (IF named THEN {Failed} ELSE {m})
==============================================================================
