---------------------------- MODULE MemoryManager ----------------------------
(***************************************************************************)
(* crates/runa-memory/src/memory.rs.  The manager keeps its backend, load  *)
(* state, granted growth and last activity behind four mutexes and takes   *)
(* them one at a time: every lock/unlock pair below is one step, and other *)
(* threads run in between.  `serve` and `daemon` share one manager between *)
(* the request handlers and the idle ticker; the CLI uses one per thread.  *)
(***************************************************************************)
EXTENDS Integers, FiniteSets

CONSTANTS
    Actors,         \* threads that call the manager
    Demands,        \* demand_mib of grow_for and on_heavy
    MaxDemand,      \* the largest of them
    StartRss,       \* resident set when the manager is made
    FitCeiling,     \* fit_ceiling_mib
    MaxGrowth,      \* policy.max_growth_mib
    Floor,          \* policy.floor_mib
    ModelFloor,     \* FakeBackend.model_floor_mib: the resident weights
    IdleTimeout,    \* policy.idle_timeout_s in clock ticks
    Backends,       \* which to consider: TRUE is SysinfoBackend, FALSE FakeBackend
    MaxRss,         \* bound: the resident set the OS may report (SysinfoBackend)
    MaxGranted      \* bound: granted growth between two idle periods

ASSUME MemoryAssumption ==
    /\ IsFiniteSet(Actors) /\ Actors # {}
    /\ Demands \subseteq Nat
    /\ MaxDemand \in Nat /\ \A d \in Demands : d <= MaxDemand
    /\ StartRss \in Nat /\ FitCeiling \in Nat /\ MaxGrowth \in Nat
    /\ Floor \in Nat /\ ModelFloor \in Nat /\ IdleTimeout \in Nat
    /\ Backends \subseteq BOOLEAN
    /\ MaxRss \in Nat /\ MaxGranted \in Nat

VARIABLES
    rss,        \* backend.rss_mib()
    state,      \* LoadState
    granted,    \* granted_growth_mib
    age,        \* last_activity.elapsed(), saturating at IdleTimeout
    pc,         \* where each thread is between two locks
    demand,     \* its argument
    forced,     \* its shrink is shrink_to_floor, not maybe_idle
    advisory,   \* the backend is SysinfoBackend, whose shrink and grow do nothing
    overlapped  \* ghost: some call began while another was going on

shared == <<rss, state, granted, age>>
vars == <<rss, state, granted, age, pc, demand, forced, advisory, overlapped>>

TypeOK ==
    /\ rss \in Nat
    /\ state \in {"Idle", "Normal", "Heavy"}
    /\ granted \in Nat
    /\ age \in 0..IdleTimeout
    /\ pc \in [Actors -> {"rest", "measure", "grow", "grant", "heavy",
                          "shrink", "idle", "clear", "stamp"}]
    /\ demand \in [Actors -> Nat]
    /\ forced \in [Actors -> BOOLEAN]
    /\ advisory \in BOOLEAN
    /\ overlapped \in BOOLEAN

Init ==
    /\ rss = StartRss /\ state = "Normal" /\ granted = 0 /\ age = 0
    /\ pc = [a \in Actors |-> "rest"]
    /\ demand = [a \in Actors |-> 0]
    /\ forced = [a \in Actors |-> FALSE]
    /\ advisory \in Backends
    /\ overlapped = FALSE

Lesser(x, y) == IF x <= y THEN x ELSE y
Greater(x, y) == IF x >= y THEN x ELSE y

Goto(a, l) == pc' = [pc EXCEPT ![a] = l] /\ UNCHANGED <<advisory, overlapped>>

\* a calls a method, and is at l once it has released its first lock.
Call(a, l) ==
    /\ pc[a] = "rest"
    /\ pc' = [pc EXCEPT ![a] = l]
    /\ overlapped' = (overlapped \/ \E b \in Actors \ {a} : pc[b] # "rest")
    /\ UNCHANGED advisory

\* Mutant: the growth cap alone, without the fit verdict.
MutCeilingNoFit(c) == c + MaxGrowth

\* ceiling_mib
Ceiling(c) == Lesser(FitCeiling, c + MaxGrowth)

-----------------------------------------------------------------------------
\* touch, and the whole of serve's per-request bookkeeping.
Touch(a) ==
    /\ Call(a, "rest")
    /\ age' = 0
    /\ UNCHANGED <<rss, state, granted, demand, forced>>

\* grow_for (on_heavy drops its result): touch ...
GrowFor(a) ==
    /\ Call(a, "measure")
    /\ \E d \in Demands :
          /\ granted + d <= MaxGranted
          /\ demand' = [demand EXCEPT ![a] = d]
    /\ age' = 0
    /\ UNCHANGED <<rss, state, granted, forced>>

\* Mutant: the process must be under the ceiling before it grows, not after.
MutMeasureBefore(a) ==
    /\ pc[a] = "measure"
    /\ Goto(a, IF rss > Ceiling(rss) THEN "rest" ELSE "grow")
    /\ UNCHANGED <<rss, state, granted, age, demand, forced>>

\* ... read the resident set and refuse over the ceiling (OverCeiling) ...
Measure(a) ==
    /\ pc[a] = "measure"
    /\ Goto(a, IF rss + demand[a] > Ceiling(rss) THEN "rest" ELSE "grow")
    /\ UNCHANGED <<rss, state, granted, age, demand, forced>>

\* ... lock the backend again and grow it ...
Grow(a) ==
    /\ pc[a] = "grow"
    /\ rss' = IF advisory THEN rss ELSE rss + demand[a]
    /\ Goto(a, "grant")
    /\ UNCHANGED <<state, granted, age, demand, forced>>

\* Mutant: the grant is overwritten, not added.
MutGrantOverwrites(a) ==
    /\ pc[a] = "grant"
    /\ granted' = demand[a]
    /\ Goto(a, "heavy")
    /\ UNCHANGED <<rss, state, age, demand, forced>>

\* ... account for the grant ...
Grant(a) ==
    /\ pc[a] = "grant"
    /\ granted' = granted + demand[a]
    /\ Goto(a, "heavy")
    /\ UNCHANGED <<rss, state, age, demand, forced>>

\* ... and go Heavy.
SetHeavy(a) ==
    /\ pc[a] = "heavy"
    /\ state' = "Heavy"
    /\ Goto(a, "rest")
    /\ UNCHANGED <<rss, granted, age, demand, forced>>

\* Mutant: > for >=.
MutMaybeIdleStrict(a) ==
    /\ Call(a, "shrink")
    /\ age > IdleTimeout
    /\ forced' = [forced EXCEPT ![a] = FALSE]
    /\ UNCHANGED <<shared, demand>>

\* maybe_idle: the elapsed time is read under the lock, acted on after it.
MaybeIdle(a) ==
    /\ Call(a, "shrink")
    /\ age >= IdleTimeout
    /\ forced' = [forced EXCEPT ![a] = FALSE]
    /\ UNCHANGED <<shared, demand>>

\* shrink_to_floor, the unconditional form.
ShrinkToFloor(a) ==
    /\ Call(a, "shrink")
    /\ forced' = [forced EXCEPT ![a] = TRUE]
    /\ UNCHANGED <<shared, demand>>

\* on_idle and shrink_to_floor: backend.shrink_to(floor) ...
Shrink(a) ==
    /\ pc[a] = "shrink"
    /\ rss' = IF advisory THEN rss ELSE Lesser(Greater(Floor, ModelFloor), rss)
    /\ Goto(a, "idle")
    /\ UNCHANGED <<state, granted, age, demand, forced>>

SetIdle(a) ==
    /\ pc[a] = "idle"
    /\ state' = "Idle"
    /\ Goto(a, "clear")
    /\ UNCHANGED <<rss, granted, age, demand, forced>>

ClearGranted(a) ==
    /\ pc[a] = "clear"
    /\ granted' = 0
    /\ Goto(a, IF forced[a] THEN "rest" ELSE "stamp")
    /\ UNCHANGED <<rss, state, age, demand, forced>>

\* ... and, in on_idle only, a new stamp.
Stamp(a) ==
    /\ pc[a] = "stamp"
    /\ age' = 0
    /\ Goto(a, "rest")
    /\ UNCHANGED <<rss, state, granted, demand, forced>>

\* The clock, and the resident set the OS reports to SysinfoBackend.
Tick ==
    /\ age < IdleTimeout
    /\ age' = age + 1
    /\ UNCHANGED <<rss, state, granted, pc, demand, forced, advisory, overlapped>>

OsMovesRss ==
    /\ advisory
    /\ rss' \in 0..MaxRss
    /\ UNCHANGED <<state, granted, age, pc, demand, forced, advisory, overlapped>>

GrowStep(a) == Measure(a) \/ Grow(a) \/ Grant(a) \/ SetHeavy(a)
IdleStep(a) == Shrink(a) \/ SetIdle(a) \/ ClearGranted(a) \/ Stamp(a)

Next ==
    \/ \E a \in Actors : Touch(a) \/ GrowFor(a) \/ GrowStep(a)
    \/ \E a \in Actors : MaybeIdle(a) \/ ShrinkToFloor(a) \/ IdleStep(a)
    \/ Tick
    \/ OsMovesRss

Spec == Init /\ [][Next]_vars

\* Calls return, the clock runs and the ticker polls; nobody has to call.
FairSpec ==
    /\ Spec
    /\ \A a \in Actors : WF_vars(GrowStep(a)) /\ WF_vars(IdleStep(a))
    /\ WF_vars(\E a \in Actors : MaybeIdle(a))
    /\ WF_vars(Tick)

-----------------------------------------------------------------------------
\* Calls that do not overlap, from one thread or from many: a process that
\* starts under the fit ceiling stays under it, however grow_for, the idle
\* shrink and shrink_to_floor follow each other.
WithinCeiling ==
    ~advisory /\ ~overlapped /\ StartRss <= FitCeiling => rss <= FitCeiling

\* The accounting of the same calls: at rest, what the backend holds beyond its
\* start or its floor is covered by the growth granted since the last shrink.
GrowthLedger ==
    ~advisory /\ ~overlapped /\ (\A a \in Actors : pc[a] = "rest") =>
        rss <= Greater(StartRss, Greater(Floor, ModelFloor)) + granted

\* grow_for checks under one lock and grows under another, so demands that race
\* each other can pass the ceiling, but never by more than one demand of each
\* thread that raced: whatever bursts, shrinks and refusals follow each other,
\* the excess does not add up.
OvershootBounded ==
    ~advisory /\ StartRss <= FitCeiling =>
        rss <= FitCeiling + MaxDemand * (Cardinality(Actors) - 1)

\* M11: once requests stop for good, the manager goes idle and stays there,
\* whatever the last burst and the ticker did to each other.
SilenceReachesIdle ==
    <>[][\A a \in Actors : ~Touch(a) /\ ~GrowFor(a)]_vars => <>[](state = "Idle")
==============================================================================
