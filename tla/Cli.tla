--------------------------------- MODULE Cli ---------------------------------
(***************************************************************************)
(* The commands that a user gives: `runa run`, `runa chat` and             *)
(* `runa fit --recommend`, each from the machine it finds.  One command is *)
(* started; the others stay untouched.                                     *)
(***************************************************************************)
EXTENDS RunCommand, ChatSession

CONSTANTS
    ChatFlags,      \* command lines of runa chat
    Invocations,    \* command lines of runa run, with the machine
    Worlds,         \* machines that runa fit runs on
    Catalogs,       \* catalogues to choose from: headers or sizes, with a tier
    Uses, Kvs,      \* --use, or None, and --kv
    Usable, Top     \* USABLE_TOKS_PER_SEC, --top

ASSUME CliAssumption ==
    \A i \in Invocations : CommandOK(i.a) /\ MachineOK(i.w)

VARIABLE advice     \* what runa fit --recommend printed

cliVars == <<chatVars, cmd, advice>>

CliInit == ChatInit /\ cmd = None /\ advice = None

Idle == chat = "start" /\ cmd = None /\ advice = None

\* main: an inline secret in a file ends every command.
StartRun ==
    /\ Idle
    /\ \E i \in Invocations :
          LET inline == \E n \in DOMAIN ConfigFiles(i.w) : ConfigFiles(i.w)[n].exists /\ ConfigFiles(i.w)[n].secret
          IN  cmd' = [Command(i.a, i.w) EXCEPT !.pc = IF inline THEN "failed" ELSE @]
    /\ UNCHANGED <<chatVars, advice>>

\* calibrate_pick: the measured efficiency of the side that the verdict chose,
\* for the quant of the entry.
Side(verdict) == IF verdict \in {"gpu", "hybrid"} THEN "gpu" ELSE "cpu"
Probes(e, c, hw, offline) ==
    LET Pick(p) == [name |-> e.name, tier |-> e.tier, verdict |-> p.verdict,
                    decode |-> Calibrate(p.decode, hw.eff[Side(p.verdict)][e.quant])]
    IN  IF offline THEN {Pick(ProbeOffline(e, c, hw))} ELSE {Pick(p) : p \in ProbeRemote(e.headers, c, hw)}

\* cmd_recommend: every entry of the asked use is probed, from its headers or
\* from the sizes of the catalogue, with its projector if it is to see, and a
\* probe that fails leaves the others.
Recommend ==
    /\ Idle
    /\ \E catalog \in Catalogs, w \in Worlds, offline \in BOOLEAN, use \in Uses, kv \in Kvs :
        LET wanted == {i \in DOMAIN catalog : use = None \/ use \in catalog[i].uses}
            Config(e) == MachineConfig(w, w.ctx, kv, IF use = "vision" THEN e.mmproj ELSE 0, 0, 0)
            results == [i \in wanted |-> Probes(catalog[i], Config(catalog[i]), w.hw, offline)
                                         \cup (IF offline THEN {} ELSE {None})]
        IN  \E picks \in {f \in [wanted -> UNION {results[i] : i \in wanted}] : \A i \in wanted : f[i] \in results[i]} :
                LET found == [i \in {k \in wanted : picks[k] # None} |-> picks[i]]
                IN  advice' = [found |-> found, ranked |-> Ranked(found, Usable, Top), catalog |-> catalog,
                               w |-> w, offline |-> offline]
    /\ UNCHANGED <<chatVars, cmd>>

StartSession ==
    /\ Idle
    /\ \E f \in ChatFlags, up \in BOOLEAN : StartChat(f, up)
    /\ UNCHANGED <<cmd, advice>>

Next ==
    \/ StartRun \/ Recommend \/ StartSession
    \/ cmd # None /\ RunStep /\ UNCHANGED <<chatVars, advice>>
    \/ chat # "start" /\ ChatNext /\ UNCHANGED <<cmd, advice>>

Spec == CliInit /\ [][Next]_cliVars

\* CatalogEntry.parts: "the probe sums tensor bytes across all part headers".
\* What is said to fit has room for the tensors of all its parts.
ShardsCounted ==
    advice # None /\ ~advice.offline =>
        \A k \in DOMAIN advice.found : advice.found[k].verdict # "no_fit" =>
            LET e == CHOOSE x \in ToSet(advice.catalog) : x.name = advice.found[k].name
            IN  FoldLeft(LAMBDA n, h : n + SumBytes(h.tensors), 0, e.headers) <= advice.w.vram + advice.w.ram
==============================================================================
