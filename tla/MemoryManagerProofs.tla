------------------------- MODULE MemoryManagerProofs -------------------------
(***************************************************************************)
(* What the memory manager guarantees for every policy.  How far racing    *)
(* demands pass the ceiling needs no assumption on the callers.  The       *)
(* ceiling itself and the ledger hold while no two calls have overlapped:  *)
(* what a call saw at its first lock is then still true at its last one.   *)
(***************************************************************************)
EXTENDS MemoryManager, FiniteSetTheorems, TLAPS

-----------------------------------------------------------------------------
\* The policy and the demands are numbers.
LEMMA Policy ==
    /\ Demands \subseteq Nat
    /\ StartRss \in Nat /\ FitCeiling \in Nat /\ MaxGrowth \in Nat
    /\ Floor \in Nat /\ ModelFloor \in Nat /\ IdleTimeout \in Nat
BY MemoryAssumption

\* Every step keeps the types.
LEMMA TypeStep == TypeOK /\ [Next]_vars => TypeOK'
<1> SUFFICES ASSUME TypeOK, [Next]_vars PROVE TypeOK'
    OBVIOUS
<1> USE MemoryAssumption DEF TypeOK, shared, Goto
<1>0. ASSUME NEW a \in Actors, NEW l, Call(a, l)
      PROVE  overlapped' \in BOOLEAN /\ advisory' = advisory
    <2>1. (overlapped \/ \E b \in Actors \ {a} : pc[b] # "rest") \in BOOLEAN
        BY Zenon
    <2> QED
        BY <1>0, <2>1, Zenon DEF Call
<1>1. ASSUME NEW a \in Actors, Touch(a) \/ GrowFor(a) PROVE TypeOK'
    <2>1. CASE Touch(a)
        <3>1. pc' \in [Actors -> {"rest", "measure", "grow", "grant", "heavy",
                                  "shrink", "idle", "clear", "stamp"}]
            BY <2>1 DEF Touch, Call
        <3> QED
            BY <1>0, <2>1, <3>1 DEF Touch
    <2>2. CASE GrowFor(a)
        <3>1. pc' \in [Actors -> {"rest", "measure", "grow", "grant", "heavy",
                                  "shrink", "idle", "clear", "stamp"}]
            BY <2>2 DEF GrowFor, Call
        <3>2. demand' \in [Actors -> Nat]
            BY <2>2 DEF GrowFor
        <3>3. overlapped' \in BOOLEAN /\ advisory' = advisory
            BY <1>0, <2>2 DEF GrowFor
        <3> QED
            BY <2>2, <3>1, <3>2, <3>3 DEF GrowFor
    <2> QED
        BY <1>1, <2>1, <2>2
<1>2. ASSUME NEW a \in Actors, GrowStep(a) PROVE TypeOK'
    BY <1>2 DEF GrowStep, Measure, Grow, Grant, SetHeavy
<1>3. ASSUME NEW a \in Actors, MaybeIdle(a) \/ ShrinkToFloor(a) PROVE TypeOK'
    <2>1. Call(a, "shrink")
        BY <1>3 DEF MaybeIdle, ShrinkToFloor
    <2>2. pc' \in [Actors -> {"rest", "measure", "grow", "grant", "heavy",
                              "shrink", "idle", "clear", "stamp"}]
        BY <2>1 DEF Call
    <2> QED
        BY <1>0, <1>3, <2>1, <2>2 DEF MaybeIdle, ShrinkToFloor
<1>4. ASSUME NEW a \in Actors, IdleStep(a) PROVE TypeOK'
    BY <1>4 DEF IdleStep, Shrink, SetIdle, ClearGranted, Stamp, Lesser, Greater
<1>5. CASE Tick
    BY <1>5 DEF Tick
<1>6. CASE OsMovesRss
    BY <1>6 DEF OsMovesRss
<1>7. CASE UNCHANGED vars
    BY <1>7 DEF vars
<1> QED
    BY <1>1, <1>2, <1>3, <1>4, <1>5, <1>6, <1>7 DEF Next

\* A new manager is well typed.
LEMMA InitType == Init => TypeOK
<1> SUFFICES ASSUME Init PROVE TypeOK
    OBVIOUS
<1>1. advisory \in BOOLEAN /\ overlapped \in BOOLEAN
    BY MemoryAssumption, Zenon DEF Init
<1>2. /\ rss \in Nat /\ state \in {"Idle", "Normal", "Heavy"}
      /\ granted \in Nat /\ age \in 0..IdleTimeout
      /\ demand \in [Actors -> Nat]
    BY MemoryAssumption DEF Init
<1>3. forced \in [Actors -> BOOLEAN]
    BY Zenon DEF Init
<1>4. pc \in [Actors -> {"rest", "measure", "grow", "grant", "heavy",
                         "shrink", "idle", "clear", "stamp"}]
    BY DEF Init
<1> QED
    BY <1>1, <1>2, <1>3, <1>4 DEF TypeOK

\* Type correctness of the manager's four cells and its callers' locals.
THEOREM TypeCorrect == Spec => []TypeOK
<1>1. Init => TypeOK
    BY InitType
<1> QED
    BY <1>1, TypeStep, PTL DEF Spec

-----------------------------------------------------------------------------
\* The race of grow_for: the threads that have passed the check and not grown
\* yet, and how far all of them together can take the process.
Passed == {a \in Actors : pc[a] = "grow"}
Bound == FitCeiling + MaxDemand * (Cardinality(Actors) - 1)

\* The last of the threads in Passed whose check is still worth something: its
\* own demand fits when the others ask for no more than MaxDemand each.
Covers(a) == rss + demand[a] + MaxDemand * (Cardinality(Passed) - 1) <= Bound

RaceInv ==
    ~advisory /\ StartRss <= FitCeiling =>
        /\ Passed = {} => rss <= Bound
        /\ Passed # {} => \E a \in Passed : Covers(a)

\* No call asks for more than MaxDemand.
Modest == \A a \in Actors : demand[a] <= MaxDemand

\* Arithmetic of the bound.
LEMMA OneMore == \A n, k \in Int : n * (k + 1) = n * k + n
    BY SMT

\* A product with a non-negative number is monotone.
LEMMA ProductMonotone == \A n \in Nat : \A k, l \in Int : k <= l => n * k <= n * l
<1> TAKE n \in Nat
<1> TAKE k, l \in Int
<1> HAVE k <= l
<1>1. n * l - n * k = n * (l - k) /\ l - k >= 0
    BY SMT
<1> QED
    BY <1>1, SMT

\* A step that neither measures, grows nor shrinks moves nothing of this, or
\* starts a call that asks for no more than MaxDemand.
LEMMA RaceStep ==
    ASSUME TypeOK, Modest, RaceInv, [Next]_vars PROVE RaceInv' /\ Modest'
<1> DEFINE k == Cardinality(Passed)  N == Cardinality(Actors)
<1>0. /\ IsFiniteSet(Passed) /\ k \in Nat /\ k <= N
      /\ N \in Nat /\ N > 0 /\ (k = 0 <=> Passed = {})
    <2>1. Passed \in SUBSET Actors /\ IsFiniteSet(Actors) /\ Actors # {}
        BY MemoryAssumption DEF Passed
    <2>2. IsFiniteSet(Passed) /\ k <= N
        BY <2>1, FS_Subset
    <2>3. k \in Nat /\ N \in Nat
        BY <2>1, <2>2, FS_CardinalityType
    <2>4. (k = 0 <=> Passed = {}) /\ N # 0
        BY <2>1, <2>2, FS_EmptySet
    <2> QED
        BY <2>2, <2>3, <2>4
<1>A. /\ MaxDemand \in Nat /\ FitCeiling \in Nat /\ rss \in Nat /\ \A a \in Actors : demand[a] \in Nat
      /\ \A d \in Demands : d <= MaxDemand /\ d \in Nat
    BY MemoryAssumption DEF TypeOK
<1>B. Bound = FitCeiling + MaxDemand * (N - 1) /\ Bound \in Int /\ FitCeiling <= Bound
    <2>1. MaxDemand * (N - 1) >= 0 /\ MaxDemand * (N - 1) \in Int
        BY <1>0, <1>A, ProductMonotone, SMT
    <2> QED
        BY <1>A, <2>1 DEF Bound
<1> HIDE DEF k, N
<1>1. Modest'
    <2>1. ASSUME NEW a \in Actors, GrowFor(a) PROVE Modest'
        <3>1. PICK d \in Demands : demand' = [demand EXCEPT ![a] = d]
            BY <2>1 DEF GrowFor
        <3> QED
            BY <1>A, <3>1 DEF Modest, TypeOK
    <2>2. CASE UNCHANGED demand
        BY <2>2 DEF Modest
    <2> QED
        BY <2>1, <2>2 DEF Next, Touch, GrowStep, Measure, Grow, Grant, SetHeavy, MaybeIdle,
           ShrinkToFloor, IdleStep, Shrink, SetIdle, ClearGranted, Stamp, Tick, OsMovesRss, vars, shared
<1>2. ASSUME ~advisory', StartRss <= FitCeiling
      PROVE  (Passed = {} => rss <= Bound)' /\ (Passed # {} => \E a \in Passed : Covers(a))'
    <2>0. ~advisory
        BY <1>2 DEF Next, Touch, GrowFor, GrowStep, Measure, Grow, Grant, SetHeavy, MaybeIdle, Goto, Call,
           ShrinkToFloor, IdleStep, Shrink, SetIdle, ClearGranted, Stamp, Tick, OsMovesRss, vars
    <2> DEFINE Goal == (Passed = {} => rss <= Bound)' /\ (Passed # {} => \E a \in Passed : Covers(a))'
    <2>1. CASE Passed' = Passed /\ rss' \in Nat /\ rss' <= rss /\ \A a \in Passed : demand'[a] = demand[a]
        <3>1. Passed # {} => \E a \in Passed : Covers(a)'
            <4>1. SUFFICES ASSUME Passed # {} PROVE \E a \in Passed : Covers(a)'
                OBVIOUS
            <4>2. PICK a \in Passed : Covers(a)
                BY <1>2, <2>0, <4>1 DEF RaceInv
            <4>3. Covers(a)'
                <5> DEFINE X == MaxDemand * (k - 1)
                <5>1. X \in Int /\ demand[a] \in Nat
                    BY <1>0, <1>A DEF Passed
                <5>2. rss + demand[a] + X <= Bound
                    BY <4>2 DEF Covers, k
                <5>3. Covers(a)' <=> rss' + demand'[a] + X <= Bound
                    BY <2>1 DEF Covers, k, Bound
                <5> HIDE DEF X
                <5> QED
                    BY <1>A, <1>B, <2>1, <5>1, <5>2, <5>3
            <4> QED
                BY <4>3
        <3>2. Passed = {} => rss' <= Bound
            BY <1>A, <1>B, <1>2, <2>0, <2>1 DEF RaceInv
        <3>3. Bound' = Bound
            BY DEF Bound
        <3> QED
            BY <2>1, <3>1, <3>2, <3>3
    <2>2. ASSUME NEW a \in Actors, Measure(a), Passed' = Passed \cup {a}, a \notin Passed PROVE Goal
        <3>1. rss' = rss /\ demand' = demand /\ rss + demand[a] <= FitCeiling
            BY <1>A, <2>2, MemoryAssumption DEF Measure, Goto, Ceiling, Lesser, Passed, TypeOK
        <3>2. Cardinality(Passed') = k + 1
            BY <1>0, <2>2, FS_AddElement DEF k
        <3>3. k + 1 <= N
            <4>1. Passed' \in SUBSET Actors /\ IsFiniteSet(Actors)
                BY MemoryAssumption DEF Passed
            <4> QED
                BY <3>2, <4>1, FS_Subset DEF N
        <3>4. MaxDemand * k <= MaxDemand * (N - 1) /\ MaxDemand * k \in Int
            BY <1>0, <1>A, <3>3, ProductMonotone
        <3>5. rss + demand[a] + MaxDemand * k <= Bound
            BY <1>0, <1>A, <1>B, <3>1, <3>4
        <3>6. Covers(a)'
            BY <1>0, <3>1, <3>2, <3>5 DEF Covers, Bound
        <3> QED
            BY <2>2, <3>6
    <2>3. ASSUME NEW b \in Actors, Grow(b) PROVE Goal
        <3>1. rss' = rss + demand[b] /\ demand' = demand /\ b \in Passed /\ Passed' = Passed \ {b}
            BY <2>0, <2>3 DEF Grow, Goto, Passed, TypeOK
        <3>2. Cardinality(Passed') = k - 1
            BY <1>0, <3>1, FS_RemoveElement DEF k
        <3>3. PICK a \in Passed : Covers(a)
            BY <1>2, <2>0, <3>1 DEF RaceInv
        <3>4. a \in Actors /\ demand[a] \in Nat /\ demand[b] \in Nat /\ demand[a] <= MaxDemand /\ demand[b] <= MaxDemand
            BY <1>A DEF Passed, Modest
        <3> DEFINE Y == MaxDemand * (k - 2)
        <3>5. Y \in Int /\ MaxDemand * (k - 1) = Y + MaxDemand
            <4>1. k - 2 \in Int /\ (k - 2) + 1 = k - 1
                BY <1>0
            <4> QED
                BY <1>A, <4>1, OneMore
        <3>6. rss + demand[a] + (Y + MaxDemand) <= Bound
            BY <3>3, <3>5 DEF Covers, k
        <3>7. \A c \in Passed' : Covers(c)' <=> rss' + demand[c] + Y <= Bound
            BY <1>0, <3>1, <3>2 DEF Covers, Bound
        <3> HIDE DEF Y
        <3>8. CASE Passed' = {}
            <4>1. k = 1
                BY <1>0, <3>2, <3>8, FS_EmptySet
            <4>2. a = b /\ MaxDemand * (k - 1) = 0
                BY <1>A, <3>1, <3>8, <4>1
            <4> QED
                BY <1>A, <1>B, <3>1, <3>4, <3>5, <3>6, <3>8, <4>2 DEF Bound
        <3>9. ASSUME NEW c \in Passed', a = b \/ c = a PROVE Goal
            <4>1. c \in Passed /\ c \in Actors
                BY <3>1 DEF Passed
            <4>2. demand[c] \in Nat /\ demand[c] <= MaxDemand
                BY <1>A, <4>1 DEF Modest
            <4>3. rss' + demand[c] + Y <= Bound
                BY <1>A, <1>B, <3>1, <3>4, <3>5, <3>6, <3>9, <4>2
            <4> QED
                BY <3>7, <4>3
        <3> QED
            BY <3>1, <3>8, <3>9
    <2>4. ASSUME NEW a \in Actors, NEW l, Call(a, l), l # "grow"
          PROVE  Passed' = Passed /\ a \notin Passed
        BY <2>4 DEF Call, Passed, TypeOK
    <2>5. ASSUME NEW a \in Actors, NEW l, Goto(a, l), l # "grow", pc[a] # "grow" PROVE Passed' = Passed
        BY <2>5 DEF Goto, Passed, TypeOK
    <2>6. rss' \in Nat
        BY TypeStep DEF TypeOK
    <2>7. ASSUME NEW a \in Actors, GrowFor(a) PROVE Goal
        <3>1. Passed' = Passed /\ a \notin Passed /\ rss' = rss
            BY <2>4, <2>7 DEF GrowFor
        <3>2. \A c \in Passed : demand'[c] = demand[c]
            BY <2>7, <3>1 DEF GrowFor, Passed, TypeOK
        <3> QED
            BY <1>A, <2>1, <2>6, <3>1, <3>2
    <2>8. ASSUME NEW a \in Actors, Touch(a) \/ MaybeIdle(a) \/ ShrinkToFloor(a) PROVE Goal
        <3>1. Passed' = Passed /\ rss' = rss /\ demand' = demand
            BY <2>4, <2>8 DEF Touch, MaybeIdle, ShrinkToFloor, shared
        <3> QED
            BY <1>A, <2>1, <2>6, <3>1
    <2>9. ASSUME NEW a \in Actors, Grant(a) \/ SetHeavy(a) \/ IdleStep(a) PROVE Goal
        <3>1. Passed' = Passed /\ demand' = demand
            BY <2>5, <2>9 DEF Grant, SetHeavy, IdleStep, Shrink, SetIdle, ClearGranted, Stamp
        <3>2. rss' <= rss
            BY <1>A, <2>9, MemoryAssumption
               DEF Grant, SetHeavy, IdleStep, Shrink, SetIdle, ClearGranted, Stamp, Lesser, Greater, Goto
        <3> QED
            BY <2>1, <2>6, <3>1, <3>2
    <2>10. ASSUME NEW a \in Actors, Measure(a) PROVE Goal
        <3>1. CASE rss + demand[a] > Ceiling(rss)
            <4>1. Passed' = Passed /\ demand' = demand /\ rss' = rss
                BY <2>5, <2>10, <3>1 DEF Measure
            <4> QED
                BY <1>A, <2>1, <2>6, <4>1
        <3>2. CASE ~(rss + demand[a] > Ceiling(rss))
            <4>1. a \notin Passed /\ Passed' = Passed \cup {a}
                BY <2>10, <3>2 DEF Measure, Goto, Passed, TypeOK
            <4> QED
                BY <2>2, <2>10, <4>1
        <3> QED
            BY <3>1, <3>2
    <2>11. CASE Tick \/ OsMovesRss \/ UNCHANGED vars
        <3>1. Passed' = Passed /\ rss' = rss /\ demand' = demand
            BY <2>0, <2>11 DEF Tick, OsMovesRss, vars, Passed
        <3> QED
            BY <1>A, <2>1, <2>6, <3>1
    <2>12. ASSUME NEW a \in Actors, GrowStep(a) PROVE Goal
        BY <2>3, <2>9, <2>10, <2>12 DEF GrowStep
    <2> QED
        BY <2>7, <2>8, <2>9, <2>11, <2>12 DEF Next
<1> QED
    BY <1>1, <1>2 DEF RaceInv

\* grow_for under any interleaving of any number of threads: the ceiling is
\* passed by at most one demand per thread that raced.
THEOREM OvershootHolds == Spec => []OvershootBounded
<1> DEFINE Inv == TypeOK /\ Modest /\ RaceInv
<1>1. Init => Inv
    <2> SUFFICES ASSUME Init PROVE Modest /\ RaceInv
        BY InitType
    <2>1. Modest
        BY MemoryAssumption DEF Init, Modest
    <2>2. Passed = {}
        BY DEF Init, Passed
    <2>3. StartRss <= FitCeiling => rss <= Bound
        <3>1. Cardinality(Actors) \in Nat /\ Cardinality(Actors) # 0
            BY MemoryAssumption, FS_CardinalityType, FS_EmptySet
        <3>2. MaxDemand * 0 <= MaxDemand * (Cardinality(Actors) - 1)
            BY <3>1, MemoryAssumption, ProductMonotone
        <3>3. MaxDemand * 0 = 0 /\ MaxDemand * (Cardinality(Actors) - 1) \in Int
            BY <3>1, MemoryAssumption
        <3> QED
            BY <3>2, <3>3, MemoryAssumption DEF Init, Bound
    <2> QED
        BY <2>1, <2>2, <2>3 DEF RaceInv
<1>2. Inv /\ [Next]_vars => Inv'
    BY TypeStep, RaceStep
<1>3. Inv => OvershootBounded
    <2> SUFFICES ASSUME Inv, ~advisory, StartRss <= FitCeiling PROVE rss <= Bound
        BY DEF OvershootBounded, Bound
    <2>1. CASE Passed = {}
        BY <2>1 DEF RaceInv
    <2>2. ASSUME NEW a \in Passed, Covers(a) PROVE rss <= Bound
        <3>1. IsFiniteSet(Passed) /\ Cardinality(Passed) \in Nat /\ Cardinality(Passed) # 0
            <4>1. Passed \in SUBSET Actors /\ IsFiniteSet(Actors)
                BY MemoryAssumption DEF Passed
            <4>2. IsFiniteSet(Passed)
                BY <4>1, FS_Subset
            <4> QED
                BY <4>2, <2>2, FS_CardinalityType, FS_EmptySet
        <3>2. MaxDemand * 0 <= MaxDemand * (Cardinality(Passed) - 1)
            BY <3>1, MemoryAssumption, ProductMonotone
        <3>3. MaxDemand * 0 = 0 /\ MaxDemand * (Cardinality(Passed) - 1) \in Int
            BY <3>1, MemoryAssumption
        <3>4. rss \in Nat /\ demand[a] \in Nat
            BY DEF TypeOK, Passed
        <3>5. Bound \in Int
            <4>1. Cardinality(Actors) \in Nat
                BY MemoryAssumption, FS_CardinalityType
            <4> QED
                BY <4>1, MemoryAssumption DEF Bound
        <3> QED
            BY <2>2, <3>2, <3>3, <3>4, <3>5 DEF Covers
    <2> QED
        BY <2>1, <2>2 DEF RaceInv
<1> QED
    BY <1>1, <1>2, <1>3, PTL DEF Spec

-----------------------------------------------------------------------------
\* Where a thread is in a call, and what its last look at the shared cells is
\* still worth when no other thread has been inside in the meantime.
Base == Greater(StartRss, Greater(Floor, ModelFloor))

\* The thread that is inside, if any, is alone.
Alone ==
    \A a, b \in Actors : pc[a] # "rest" /\ pc[b] # "rest" => a = b

\* What the thread that is inside still knows.
FreshView ==
    \A a \in Actors :
        /\ pc[a] = "grow" => rss + demand[a] <= FitCeiling
        /\ pc[a] = "grant" => rss <= Base + granted + demand[a]
        /\ pc[a] \in {"idle", "clear", "stamp"} => rss <= Base
        /\ pc[a] \in {"measure", "grow", "heavy", "shrink"} =>
              rss <= Base + granted

\* What holds between calls.
RestView == (\A a \in Actors : pc[a] = "rest") => rss <= Base + granted

\* Calls on the in-memory backend that have not overlapped.
Sequential == ~advisory /\ ~overlapped

SeqView == Alone /\ FreshView /\ RestView /\ (StartRss <= FitCeiling => rss <= FitCeiling)

SeqInv == TypeOK /\ (Sequential => SeqView)

\* A run of calls that has not overlapped after a step had not before it.
LEMMA SequentialBefore == [Next]_vars /\ Sequential' => Sequential
<1> SUFFICES ASSUME [Next]_vars, Sequential' PROVE Sequential
    OBVIOUS
<1> USE DEF Sequential
<1>1. ASSUME NEW a \in Actors, NEW l, Call(a, l) PROVE Sequential
    BY <1>1, Zenon DEF Call
<1>2. ASSUME NEW a \in Actors, NEW l, Goto(a, l) PROVE Sequential
    BY <1>2, Zenon DEF Goto
<1>3. CASE UNCHANGED <<advisory, overlapped>>
    BY <1>3
<1> QED
    BY <1>1, <1>2, <1>3 DEF Next, Touch, GrowFor, GrowStep, Measure, Grow, Grant,
       SetHeavy, MaybeIdle, ShrinkToFloor, IdleStep, Shrink, SetIdle,
       ClearGranted, Stamp, Tick, OsMovesRss, vars

\* SeqInv is inductive.
LEMMA SeqStep == SeqInv /\ [Next]_vars => SeqInv'
<1> SUFFICES ASSUME SeqInv, [Next]_vars, Sequential' PROVE SeqView'
    BY TypeStep DEF SeqInv
<1> USE Policy, SequentialBefore
        DEF SeqInv, TypeOK, SeqView, Alone, FreshView, RestView, Sequential,
            shared, Goto, Call, Base, Lesser, Greater
<1>1. ASSUME NEW a \in Actors, Touch(a) \/ GrowFor(a) PROVE SeqView'
    BY <1>1 DEF Touch, GrowFor
<1>2. ASSUME NEW a \in Actors, GrowStep(a) PROVE SeqView'
    <2>1. CASE Measure(a)
        BY <2>1 DEF Measure, Ceiling
    <2>2. CASE Grow(a)
        BY <2>2 DEF Grow
    <2>3. CASE Grant(a) \/ SetHeavy(a)
        BY <2>3 DEF Grant, SetHeavy
    <2> QED
        BY <1>2, <2>1, <2>2, <2>3 DEF GrowStep
<1>3. ASSUME NEW a \in Actors, MaybeIdle(a) \/ ShrinkToFloor(a) PROVE SeqView'
    BY <1>3 DEF MaybeIdle, ShrinkToFloor
<1>4. ASSUME NEW a \in Actors, IdleStep(a) PROVE SeqView'
    <2>1. CASE Shrink(a)
        BY <2>1 DEF Shrink
    <2>2. CASE SetIdle(a) \/ ClearGranted(a) \/ Stamp(a)
        BY <2>2 DEF SetIdle, ClearGranted, Stamp
    <2> QED
        BY <1>4, <2>1, <2>2 DEF IdleStep
<1>5. CASE Tick
    BY <1>5 DEF Tick
<1>6. CASE OsMovesRss \/ UNCHANGED vars
    BY <1>6 DEF OsMovesRss, vars
<1> QED
    BY <1>1, <1>2, <1>3, <1>4, <1>5, <1>6 DEF Next

\* SeqInv holds throughout.
LEMMA SeqAlways == Spec => []SeqInv
<1>1. Init => SeqInv
    BY MemoryAssumption, InitType DEF Init, SeqInv, SeqView, Alone, FreshView,
       RestView, Base, Greater
<1> QED
    BY <1>1, SeqStep, PTL DEF Spec

\* Calls that do not overlap never grow the process past the fit ceiling.
THEOREM CeilingHolds == Spec => []WithinCeiling
<1>1. SeqInv => WithinCeiling
    BY DEF SeqInv, SeqView, Sequential, WithinCeiling
<1> QED
    BY <1>1, SeqAlways, PTL

\* Between calls that do not overlap, what is held beyond the start and the
\* floor is covered by granted_growth_mib.
THEOREM LedgerHolds == Spec => []GrowthLedger
<1>1. SeqInv => GrowthLedger
    BY DEF SeqInv, SeqView, Sequential, RestView, GrowthLedger, Base
<1> QED
    BY <1>1, SeqAlways, PTL

==============================================================================
