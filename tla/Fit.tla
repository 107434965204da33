--------------------------------- MODULE Fit ---------------------------------
(***************************************************************************)
(* Does a model fit this machine: crates/runa-fit (descriptor, kv, compute,*)
(* planner, verdict, speed, recommend) and the commands that ask it        *)
(* (crates/runa/src/fit.rs).  Bytes are small numbers; a header is the set *)
(* of its tensors with the few numbers that the estimates use.             *)
(***************************************************************************)
EXTENDS Integers, Sequences, SequencesExt, FiniteSetsExt, TLC

CONSTANTS
    Margin,         \* vram_margin
    Ubatch,         \* n_ubatch
    TokensPerFrame

ASSUME FitAssumption == Margin \in Nat /\ Ubatch \in Nat

\* classify_tensor, on what the name says.
WeightGroup(t) ==
    CASE t.name = "exps" -> "expert" [] t.name \in {"embd", "output", "norm"} -> "embed_out"
      [] OTHER -> "dense"

SumBytes(ts) == FoldSet(LAMBDA t, n : n + t.bytes, 0, ts)
Weighed(S, weight) == FoldSet(LAMBDA x, n : n + weight[x], 0, S)
GroupBytes(ts, g) == SumBytes({t \in ts : WeightGroup(t) = g})

\* Descriptor::from_reader: the head dimension is derived unless it is given.
Descriptor(h) ==
    [tensors |-> h.tensors, layers |-> h.layers, embd |-> h.embd, heads |-> h.heads, headsKv |-> h.headsKv,
     headDim |-> h.embd \div h.heads, vocab |-> h.vocab, window |-> h.window, mla |-> h.mla,
     experts |-> h.experts, expertsUsed |-> h.expertsUsed,
     dense |-> GroupBytes(h.tensors, "dense"), expert |-> GroupBytes(h.tensors, "expert"),
     embedOut |-> GroupBytes(h.tensors, "embed_out"), total |-> SumBytes(h.tensors)]

\* kv_bytes_per_element, in 32nds of a byte.
KvElement(kv) ==
    CASE kv = "f32" -> 128 [] kv \in {"f16", "bf16"} -> 64 [] kv = "q8_0" -> 34
      [] kv \in {"q4_0", "iq4_nl"} -> 18 [] kv = "q4_1" -> 20 [] OTHER -> 0

EstimateKv(d, ctx, kv) ==
    LET seen == IF d.mla = 0 /\ d.window > 0 /\ d.window < ctx THEN d.window ELSE ctx
        elements == IF d.mla > 0 THEN 2 * (d.mla + d.headDim) ELSE 2 * d.headsKv * d.headDim
    IN  d.layers * ((seen * elements * KvElement(kv)) \div 32)

EstimateCompute(d, n) ==
    LET raw == n * d.embd * 4 + n * d.embd * 4 * d.layers + n * d.heads * d.headDim * 2 * d.layers
               + n * d.embd * 8 * d.layers + (n * d.vocab * 2) \div d.embd
    IN  (raw * 115) \div 100

EstimateEncoder(d, frames) == frames * d.embd * 32

MediaTokens(c) == c.frames * TokensPerFrame

-----------------------------------------------------------------------------
(* The planner.                                                            *)

EvictionPriority(t) ==
    CASE WeightGroup(t) = "expert" -> 0 [] WeightGroup(t) = "embed_out" -> 1 [] OTHER -> 2

\* The tensors come out of a hash map: equal ones in any order.
Before(a, b) ==
    \/ EvictionPriority(a) > EvictionPriority(b)
    \/ EvictionPriority(a) = EvictionPriority(b) /\ a.bytes >= b.bytes
PackingOrders(ts) ==
    {s \in SetToSeqs(ts) : \A i \in 1..Len(s) - 1 : Before(s[i], s[i + 1])}

\* Mutant: the last tensor is not counted.
MutFill(gpu, t, budget) == IF SumBytes(gpu) <= budget THEN gpu \cup {t} ELSE gpu

\* Fill the GPU with what still fits.
Fill(gpu, t, budget) == IF SumBytes(gpu) + t.bytes <= budget THEN gpu \cup {t} ELSE gpu
Pack(order, budget) ==
    LET gpu[n \in 0..Len(order)] == IF n = 0 THEN {} ELSE Fill(gpu[n - 1], order[n], budget)
    IN  gpu[Len(order)]

Reserved(d, c) ==
    EstimateCompute(d, Ubatch) + EstimateKv(d, c.ctx, c.kv) + c.mmproj + c.lora + EstimateEncoder(d, c.frames)

WeightBudget(d, c) == Max({0, Max({0, c.vram - Margin}) - Reserved(d, c)})

PlanPlacement(order, d, c) ==
    LET gpu == Pack(order, WeightBudget(d, c))
        cpu == d.tensors \ gpu
        gpuBytes == SumBytes(gpu)
        need == SumBytes(cpu) + IF gpuBytes = 0 THEN Reserved(d, c) ELSE 0
        first == {t \in d.tensors : t.block = 0}
    IN  [gpu |-> gpu, cpu |-> cpu, gpuBytes |-> gpuBytes, gpuTotal |-> gpuBytes + Reserved(d, c), cpuNeed |-> need,
         gpuLayers |-> IF first # {} /\ first \subseteq gpu THEN d.layers ELSE 0,
         allOnGpu |-> cpu = {},
         fits |-> (gpuBytes = 0 \/ gpuBytes + Reserved(d, c) <= c.vram) /\ need <= c.ram]

-----------------------------------------------------------------------------
(* The verdict, and what is done about it.                                 *)

\* check_fit: media that overflows the context never fits.
Verdict(d, c, p) ==
    CASE MediaTokens(c) > c.ctx \/ ~p.fits -> "no_fit"
      [] p.fits /\ p.allOnGpu -> "gpu"
      [] p.fits /\ ~p.allOnGpu /\ p.gpuLayers > 0 -> "hybrid"
      [] OTHER -> "cpu"

\* active_weight_bytes, and the reads of one token as the speed model counts
\* them: the time of a token is bytes over bandwidth, on each side.
ActiveBytes(d) ==
    IF d.experts = 0 THEN d.total
    ELSE d.dense + (d.expert * d.expertsUsed) \div d.experts + d.embedOut
BytesPerToken(d, c) == ActiveBytes(d) + EstimateKv(d, c.ctx, c.kv) \div 2

\* hybrid_gpu_fraction, as the pair of its terms.
GpuShare(d, p) ==
    LET read == [t \in d.tensors |-> IF WeightGroup(t) = "expert"
                                      THEN (t.bytes * d.expertsUsed) \div d.experts ELSE t.bytes]
        Active(ts) == Weighed(ts, read)
        moe == d.experts > 0 /\ d.expertsUsed > 0 /\ d.tensors # {}
    IN  IF moe /\ Active(p.gpu) + Active(p.cpu) > 0
        THEN <<Active(p.gpu), Active(p.gpu) + Active(p.cpu)>>
        ELSE <<p.gpuBytes, Max({1, p.gpuBytes + SumBytes(p.cpu)})>>

\* decode_for, as tokens per thousand time units: estimate_speed_single or
\* estimate_speed_hybrid.  hw gives the bandwidth of each side.
Decode(d, c, p, verdict, hw) ==
    LET bytes == BytesPerToken(d, c)
        gpuPart == (bytes * GpuShare(d, p)[1]) \div GpuShare(d, p)[2]
        time == CASE verdict = "gpu" /\ hw.gpu > 0 -> (1000 * bytes) \div hw.gpu
                  [] verdict = "hybrid" /\ hw.gpu > 0 ->
                         (1000 * gpuPart) \div hw.gpu + (1000 * (bytes - gpuPart)) \div hw.cpu
                  [] OTHER -> (1000 * bytes) \div hw.cpu
    IN  IF time = 0 THEN 0 ELSE (1000 * 1000) \div time

\* combine_shard_weights: part one with the sums of all parts.
CombineShards(parts) ==
    LET Total(f) == Weighed(DOMAIN parts, [i \in DOMAIN parts |-> parts[i][f]])
    IN  [parts[1] EXCEPT !.dense = Total("dense"), !.expert = Total("expert"),
                         !.embedOut = Total("embedOut"), !.total = Total("total")]

\* probe_remote over the headers of all the parts.
ProbeRemote(headers, c, hw) ==
    LET d == CombineShards([i \in DOMAIN headers |-> Descriptor(headers[i])])
    IN  {LET p == PlanPlacement(order, d, c) IN
         [verdict |-> Verdict(d, c, p), plan |-> p, decode |-> Decode(d, c, p, Verdict(d, c, p), hw)]
         : order \in PackingOrders(d.tensors)}

\* probe_offline: the sizes of the catalog entry.
ProbeOffline(e, c, hw) ==
    LET kv == (e.kv * c.ctx) \div (CASE c.kv = "q8_0" -> 2 [] c.kv = "q4_0" -> 4 [] OTHER -> 1)
        need == e.size + c.mmproj + kv + e.compute * Ubatch
        onGpu == hw.gpu > 0 /\ need + Margin <= c.vram
        verdict == IF onGpu THEN "gpu" ELSE IF need <= c.ram THEN "cpu" ELSE "no_fit"
        bytes == Max({1, e.active}) + kv \div 2
    IN  [verdict |-> verdict, need |-> need,
         decode |-> CASE verdict = "gpu" -> (1000 * hw.gpu) \div bytes [] verdict = "cpu" -> (1000 * hw.cpu) \div bytes
                      [] OTHER -> 0]

\* calibrate_pick and apply_efficiency: a factor that is not positive is
\* ignored, as is a missing one.  Factors are percents.
Calibrate(decode, eff) == IF eff > 0 THEN (decode * eff) \div 100 ELSE decode

\* recommend: the usable ones first, then by tier, then by speed.
Better(a, b, usable) ==
    LET U(p) == IF p.decode >= usable THEN 1 ELSE 0
    IN  \/ U(a) > U(b)
        \/ U(a) = U(b) /\ a.tier > b.tier
        \/ U(a) = U(b) /\ a.tier = b.tier /\ a.decode > b.decode

\* sort_by is stable: of two equal picks the first one of the catalogue is first.
Leads(picks, usable, i, j) ==
    Better(picks[i], picks[j], usable) \/ (~Better(picks[j], picks[i], usable) /\ i < j)

\* What fits, best first, and no more than asked for.
Ranked(picks, usable, top) ==
    LET fitting == {i \in DOMAIN picks : picks[i].verdict # "no_fit"}
        order == CHOOSE s \in SetToSeqs(fitting) : \A k, l \in DOMAIN s : k < l => Leads(picks, usable, s[k], s[l])
    IN  [k \in 1..Min({top, Len(order)}) |-> picks[order[k]]]
==============================================================================
