--------------------------- MODULE ToolLoopProofs ----------------------------
(***************************************************************************)
(* The tool loop over every transport, for any replies, calls, tools and   *)
(* number of rounds: the engine gets the conversation that a direct call   *)
(* would give it, and in it every call is followed by its result.          *)
(***************************************************************************)
EXTENDS ToolLoop, WellFoundedInduction, SequenceTheorems, TLAPS

-----------------------------------------------------------------------------
(* Sequences put together.                                                 *)

\* A set of naturals has a least element.
LEMMA NatMin == ASSUME NEW T \in SUBSET Nat, T # {} PROVE \E m \in T : \A n \in T : m <= n
<1>1. PICK m \in T : \A n \in T : ~(<<n, m>> \in OpToRel(<, Nat))
    BY NatLessThanWellFounded, WFMin
<1>2. \A n \in T : ~(n < m)
    BY <1>1 DEF OpToRel
<1> QED
    BY <1>2

\* Induction up to n.
LEMMA UpTo ==
    ASSUME NEW n \in Nat, NEW T, 0 \in T, \A i \in 0..n - 1 : i \in T => i + 1 \in T
    PROVE  \A i \in 0..n : i \in T
<1> DEFINE U == {i \in 0..n : i \notin T}
<1> SUFFICES ASSUME U # {} PROVE FALSE
    OBVIOUS
<1>1. PICK m \in U : \A k \in U : m <= k
    <2>1. U \in SUBSET Nat
        OBVIOUS
    <2> HIDE DEF U
    <2> QED
        BY <2>1, NatMin
<1>2. m # 0 /\ m - 1 \in 0..n - 1 /\ m - 1 \notin U
    BY <1>1
<1>3. m - 1 \in T
    BY <1>2
<1> QED
    BY <1>2, <1>3

\* So has a set of numbers up to n a greatest.
LEMMA UpperMax ==
    ASSUME NEW n \in Nat, NEW T \in SUBSET (1..n), T # {}
    PROVE  Max(T) \in T /\ \A j \in T : Max(T) >= j
<1> DEFINE U == {n - i : i \in T}
<1>1. PICK u \in U : \A v \in U : u <= v
    <2>0. \A i \in T : n - i \in Nat /\ n - i \in U
        OBVIOUS
    <2>1. U \in SUBSET Nat /\ U # {}
        BY <2>0
    <2> HIDE DEF U
    <2> QED
        BY <2>1, NatMin
<1>2. n - u \in T /\ \A j \in T : n - u >= j
    <2>1. PICK m \in T : u = n - m
        OBVIOUS
    <2>2. \A j \in T : n - j \in U
        OBVIOUS
    <2>3. \A j \in T : u <= n - j
        BY <1>1, <2>2
    <2> HIDE DEF U
    <2> QED
        BY <2>1, <2>3
<1> QED
    BY <1>2 DEF Max

\* A function by recursion on 0..n.
Recursion(f, n, base, step) == f[0] = base /\ \A i \in 1..n : f[i] = step[<<i, f[i - 1]>>]

LEMMA RecExists ==
    ASSUME NEW V, NEW n \in Nat, NEW base \in V, NEW step \in [(1..n) \X V -> V]
    PROVE  \E f \in [0..n -> V] : Recursion(f, n, base, step)
<1> DEFINE Good(f, m) == f[0] = base /\ \A i \in 1..m : f[i] = step[<<i, f[i - 1]>>]
           T == {m \in 0..n : \E f \in [0..m -> V] : Good(f, m)}
<1>1. 0 \in T
    <2> DEFINE f == [i \in 0..0 |-> base]
    <2>1. f \in [0..0 -> V] /\ Good(f, 0)
        OBVIOUS
    <2>2. 0 \in 0..n
        OBVIOUS
    <2> HIDE DEF f, Good
    <2> QED
        BY <2>1, <2>2
<1>2. ASSUME NEW m \in 0..n - 1, m \in T PROVE m + 1 \in T
    <2>1. PICK f \in [0..m -> V] : Good(f, m)
        BY <1>2
    <2> DEFINE g == [i \in 0..m + 1 |-> IF i = m + 1 THEN step[<<m + 1, f[m]>>] ELSE f[i]]
    <2>2. f[m] \in V /\ <<m + 1, f[m]>> \in (1..n) \X V
        OBVIOUS
    <2>3. step[<<m + 1, f[m]>>] \in V
        BY <2>2
    <2>4. g \in [0..m + 1 -> V]
        BY <2>3
    <2>5. Good(g, m + 1)
        <3>1. \A i \in 0..m : g[i] = f[i]
            OBVIOUS
        <3>2. g[m + 1] = step[<<m + 1, f[m]>>]
            OBVIOUS
        <3> HIDE DEF g
        <3>3. g[0] = base
            BY <2>1, <3>1
        <3>4. ASSUME NEW i \in 1..m + 1 PROVE g[i] = step[<<i, g[i - 1]>>]
            <4>1. CASE i = m + 1
                BY <3>1, <3>2, <4>1
            <4>2. CASE i # m + 1
                <5>1. i \in 1..m /\ i - 1 \in 0..m
                    BY <4>2
                <5> QED
                    BY <2>1, <3>1, <5>1
            <4> QED
                BY <4>1, <4>2
        <3> QED
            BY <3>3, <3>4
    <2> HIDE DEF g, Good
    <2> QED
        BY <2>4, <2>5
<1>3. n \in T
    <2> HIDE DEF T
    <2> QED
        BY <1>1, <1>2, UpTo
<1> QED
    BY <1>3 DEF Recursion

\* What FlattenSeq passes through: g[i] is the first i sequences put together.
Flattens(g, ss) == g[0] = <<>> /\ \A i \in 1..Len(ss) : g[i] = g[i - 1] \o ss[i]

\* FlattenSeq puts one after the other.
LEMMA FlattenRec ==
    ASSUME NEW S, NEW ss \in Seq(Seq(S))
    PROVE  \E g \in [0..Len(ss) -> Seq(S)] : Flattens(g, ss) /\ FlattenSeq(ss) = g[Len(ss)]
<1> DEFINE n == Len(ss)
           V == Seq(S)
           Is(f) == f = [i \in 1..n |-> IF i = 1 THEN ss[i] ELSE f[i - 1] \o ss[i]]
<1>0. n \in Nat /\ n = Len(ss)
    OBVIOUS
<1>a. \A i \in 1..n : ss[i] \in V
    OBVIOUS
<1>b. <<>> \in V /\ \A x, y \in V : x \o y \in V /\ <<>> \o y = y
    OBVIOUS
<1>c. FlattenSeq(ss) = IF n = 0 THEN ss ELSE LET f == CHOOSE f : Is(f) IN f[n]
    BY Zenon DEF FlattenSeq
<1>d. n = 0 => ss = <<>>
    OBVIOUS
<1> HIDE DEF n, V
<1>1. PICK g \in [0..n -> V] : g[0] = <<>> /\ \A i \in 1..n : g[i] = g[i - 1] \o ss[i]
    <2> DEFINE step == [p \in (1..n) \X V |-> p[2] \o ss[p[1]]]
    <2>1. step \in [(1..n) \X V -> V]
        BY <1>a, <1>b
    <2>2. \A i \in 1..n, x \in V : step[<<i, x>>] = x \o ss[i]
        OBVIOUS
    <2> HIDE DEF step
    <2>4. PICK g \in [0..n -> V] : Recursion(g, n, <<>>, step)
        BY <1>0, <1>b, <2>1, RecExists
    <2>5. \A i \in 1..n : i - 1 \in 0..n
        BY <1>0
    <2>6. \A i \in 1..n : g[i - 1] \in V
        BY <2>5
    <2>7. \A i \in 1..n : g[i] = g[i - 1] \o ss[i]
        BY <2>2, <2>4, <2>6 DEF Recursion
    <2> QED
        BY <2>4, <2>7 DEF Recursion
<1>2. CASE n = 0
    BY <1>0, <1>1, <1>2, <1>c, <1>d DEF Flattens, V
<1>3. CASE n # 0
    <2> DEFINE h == [i \in 1..n |-> g[i]]
    <2>1. Is(h)
        <3>1. \A i \in 1..n : h[i] = IF i = 1 THEN ss[i] ELSE h[i - 1] \o ss[i]
            <4> SUFFICES ASSUME NEW i \in 1..n PROVE h[i] = IF i = 1 THEN ss[i] ELSE h[i - 1] \o ss[i]
                OBVIOUS
            <4>1. h[i] = g[i - 1] \o ss[i]
                BY <1>1
            <4>2. i = 1 => g[i - 1] \o ss[i] = ss[i]
                <5>1. i = 1 => g[i - 1] = <<>>
                    BY <1>1
                <5> QED
                    BY <5>1, <1>a, <1>b
            <4>3. i # 1 => h[i - 1] = g[i - 1]
                BY <1>0
            <4> HIDE DEF h
            <4> QED
                BY <4>1, <4>2, <4>3
        <3>2. h = [i \in 1..n |-> h[i]]
            OBVIOUS
        <3> HIDE DEF h
        <3> QED
            BY <3>1, <3>2
    <2>2. Is(CHOOSE f : Is(f))
        <3> HIDE DEF h, Is
        <3> QED
            BY <2>1
    <2> DEFINE f == CHOOSE f : Is(f)
    <2>3. FlattenSeq(ss) = f[n]
        BY <1>3, <1>c, ZenonT(40)
    <2> HIDE DEF f
    <2>4. Is(f)
        BY <2>2, Zenon DEF f
    <2>5. \A i \in 1..n : f[i] = IF i = 1 THEN ss[i] ELSE f[i - 1] \o ss[i]
        BY <2>4
    <2> DEFINE T == {i \in 0..n : i = 0 \/ f[i] = g[i]}
    <2>6. ASSUME NEW i \in 0..n - 1, i \in T PROVE i + 1 \in T
        <3>1. i + 1 \in 1..n /\ (i + 1) - 1 = i /\ i + 1 \in 0..n
            BY <1>0
        <3>2. g[i + 1] = g[i] \o ss[i + 1] /\ ss[i + 1] \in V
            BY <1>1, <1>a, <3>1
        <3>3. f[i + 1] = g[i + 1]
            <4>1. CASE i = 0
                <5>1. f[i + 1] = ss[i + 1]
                    BY <2>5, <3>1, <4>1
                <5>2. g[i + 1] = ss[i + 1]
                    BY <1>1, <1>b, <3>2, <4>1
                <5> QED
                    BY <5>1, <5>2
            <4>2. CASE i # 0
                <5>0. i + 1 # 1
                    BY <4>2
                <5>1. f[i + 1] = f[i] \o ss[i + 1]
                    BY <2>5, <3>1, <5>0
                <5> QED
                    BY <2>6, <3>2, <4>2, <5>1
            <4> QED
                BY <4>1, <4>2
        <3> QED
            BY <3>1, <3>3
    <2>7. \A i \in 0..n : i \in T
        <3>1. 0 \in T
            BY <1>0
        <3> HIDE DEF T
        <3> QED
            BY <1>0, <2>6, <3>1, UpTo
    <2>8. n \in 0..n
        BY <1>0
    <2>9. f[n] = g[n]
        BY <1>3, <2>7, <2>8
    <2> QED
        BY <1>0, <1>1, <2>3, <2>9 DEF Flattens, V
<1> QED
    BY <1>2, <1>3

\* Whatever is built up like that is FlattenSeq.
LEMMA FlattenIs ==
    ASSUME NEW S, NEW ss \in Seq(Seq(S)), NEW g, Flattens(g, ss)
    PROVE  FlattenSeq(ss) = g[Len(ss)] /\ FlattenSeq(ss) \in Seq(S)
<1> DEFINE n == Len(ss)
<1>1. PICK h \in [0..n -> Seq(S)] : Flattens(h, ss) /\ FlattenSeq(ss) = h[n]
    BY FlattenRec
<1>2. n \in Nat /\ n = Len(ss)
    OBVIOUS
<1> HIDE DEF n
<1> DEFINE T == {i \in 0..n : g[i] = h[i]}
<1>3. 0 \in T
    BY <1>1, <1>2 DEF Flattens
<1>4. ASSUME NEW i \in 0..n - 1, i \in T PROVE i + 1 \in T
    <2>1. i + 1 \in 1..n /\ (i + 1) - 1 = i /\ i + 1 \in 0..n
        BY <1>2
    <2>2. g[i + 1] = g[i] \o ss[i + 1] /\ h[i + 1] = h[i] \o ss[i + 1]
        BY <1>1, <1>2, <2>1 DEF Flattens
    <2> QED
        BY <1>4, <2>1, <2>2
<1>5. \A i \in 0..n : i \in T
    <2> HIDE DEF T
    <2> QED
        BY <1>2, <1>3, <1>4, UpTo
<1>6. n \in 0..n
    BY <1>2
<1> QED
    BY <1>1, <1>2, <1>5, <1>6

LEMMA FlattenType ==
    ASSUME NEW S, NEW ss \in Seq(Seq(S)) PROVE FlattenSeq(ss) \in Seq(S)
<1>1. PICK g \in [0..Len(ss) -> Seq(S)] : Flattens(g, ss) /\ FlattenSeq(ss) = g[Len(ss)]
    BY FlattenRec
<1>2. Len(ss) \in 0..Len(ss)
    OBVIOUS
<1> QED
    BY <1>1, <1>2

LEMMA FlattenEmpty == FlattenSeq(<<>>) = <<>>
BY DEF FlattenSeq

LEMMA FlattenConcat ==
    ASSUME NEW S, NEW ss \in Seq(Seq(S)), NEW tt \in Seq(Seq(S))
    PROVE  FlattenSeq(ss \o tt) = FlattenSeq(ss) \o FlattenSeq(tt)
<1> DEFINE n == Len(ss)
           m == Len(tt)
<1>1. PICK g \in [0..n -> Seq(S)] : Flattens(g, ss) /\ FlattenSeq(ss) = g[n]
    BY FlattenRec
<1>2. PICK h \in [0..m -> Seq(S)] : Flattens(h, tt) /\ FlattenSeq(tt) = h[m]
    BY FlattenRec
<1>3. n \in Nat /\ m \in Nat /\ ss \o tt \in Seq(Seq(S)) /\ Len(ss \o tt) = n + m
    OBVIOUS
<1>4. \A i \in 1..n + m : (ss \o tt)[i] = IF i <= n THEN ss[i] ELSE tt[i - n]
    OBVIOUS
<1>5. \A i \in 1..m : tt[i] \in Seq(S)
    OBVIOUS
<1>6. n = Len(ss) /\ m = Len(tt)
    OBVIOUS
<1> HIDE DEF n, m
<1> DEFINE f == [i \in 0..n + m |-> IF i <= n THEN g[i] ELSE g[n] \o h[i - n]]
<1>7. Flattens(f, ss \o tt)
    <2>1. f[0] = <<>>
        BY <1>1, <1>3 DEF Flattens
    <2>2. ASSUME NEW i \in 1..n + m PROVE f[i] = f[i - 1] \o (ss \o tt)[i]
        <3>1. CASE i <= n
            <4>1. i \in 1..n /\ i - 1 \in 0..n + m /\ i - 1 <= n /\ i \in 0..n + m
                BY <1>3, <3>1
            <4>2. f[i] = g[i] /\ f[i - 1] = g[i - 1] /\ (ss \o tt)[i] = ss[i]
                BY <1>4, <3>1, <4>1
            <4> QED
                BY <1>1, <1>6, <4>1, <4>2 DEF Flattens
        <3>2. CASE i > n
            <4>1. i - n \in 1..m /\ i - 1 \in 0..n + m /\ i \in 0..n + m /\ n \in 0..n /\ i - n - 1 \in 0..m
                BY <1>3, <3>2
            <4>2. (ss \o tt)[i] = tt[i - n] /\ f[i] = g[n] \o h[i - n]
                BY <1>3, <1>4, <3>2, <4>1
            <4>3. h[i - n] = h[i - n - 1] \o tt[i - n]
                BY <1>2, <1>6, <4>1 DEF Flattens
            <4>4. f[i - 1] = g[n] \o h[i - n - 1]
                <5>1. CASE i - 1 > n
                    <6>1. (i - 1) - n = i - n - 1 /\ ~(i - 1 <= n)
                        BY <1>3, <5>1
                    <6> QED
                        BY <4>1, <6>1
                <5>2. CASE i - 1 <= n
                    <6>1. i - 1 = n /\ i - n - 1 = 0 /\ h[0] = <<>> /\ g[n] \in Seq(S)
                        BY <1>2, <1>3, <3>2, <4>1, <5>2 DEF Flattens
                    <6>2. f[i - 1] = g[n]
                        BY <1>3, <4>1, <6>1
                    <6>3. g[n] \o <<>> = g[n]
                        BY <6>1
                    <6> HIDE DEF f
                    <6> QED
                        BY <6>1, <6>2, <6>3
                <5>3. i - 1 > n \/ i - 1 <= n
                    BY <1>3
                <5> HIDE DEF f
                <5> QED
                    BY <5>1, <5>2, <5>3
            <4>5. g[n] \in Seq(S) /\ h[i - n - 1] \in Seq(S) /\ tt[i - n] \in Seq(S)
                BY <1>5, <4>1
            <4> HIDE DEF f
            <4>6. g[n] \o (h[i - n - 1] \o tt[i - n]) = (g[n] \o h[i - n - 1]) \o tt[i - n]
                <5> DEFINE x == h[i - n - 1]
                           y == tt[i - n]
                           z == g[n]
                <5>1. z \in Seq(S) /\ x \in Seq(S) /\ y \in Seq(S)
                    BY <4>5
                <5> HIDE DEF x, y, z
                <5>2. z \o (x \o y) = (z \o x) \o y
                    BY <5>1, ConcatAssociative
                <5> QED
                    BY <5>2 DEF x, y, z
            <4> QED
                BY <4>2, <4>3, <4>4, <4>6
        <3>3. i <= n \/ i > n
            BY <1>3
        <3> HIDE DEF f
        <3> QED
            BY <3>1, <3>2, <3>3
    <2> HIDE DEF f
    <2> QED
        BY <1>3, <2>1, <2>2 DEF Flattens
<1>8. FlattenSeq(ss \o tt) = f[n + m]
    <2> HIDE DEF f
    <2> QED
        BY <1>3, <1>7, FlattenIs
<1>9. f[n + m] = g[n] \o h[m]
    <2>1. CASE m = 0
        <3>1. h[m] = <<>> /\ g[n] \in Seq(S) /\ f[n + m] = g[n]
            BY <1>2, <1>3, <2>1 DEF Flattens
        <3> QED
            BY <3>1
    <2>2. CASE m # 0
        <3>1. n + m \in 0..n + m /\ ~(n + m <= n) /\ (n + m) - n = m
            BY <1>3, <2>2
        <3> QED
            BY <3>1
    <2> QED
        BY <2>1, <2>2
<1> QED
    BY <1>1, <1>2, <1>8, <1>9

LEMMA FlattenOne == ASSUME NEW S, NEW s \in Seq(S) PROVE FlattenSeq(<<s>>) = s
<1> DEFINE g == [i \in 0..1 |-> IF i = 0 THEN <<>> ELSE s]
           ss == <<s>>
<1>1. ss \in Seq(Seq(S)) /\ Len(ss) = 1 /\ ss[1] = s
    OBVIOUS
<1>2. g[0] = <<>> /\ g[1] = s /\ <<>> \o s = s
    OBVIOUS
<1> HIDE DEF g, ss
<1>3. Flattens(g, ss)
    BY <1>1, <1>2 DEF Flattens
<1>4. FlattenSeq(ss) = s
    BY <1>1, <1>2, <1>3, FlattenIs
<1> QED
    BY <1>4 DEF ss

\* Single elements put together.
LEMMA FlattenSingles ==
    ASSUME NEW S, NEW t \in Seq(S)
    PROVE  FlattenSeq([i \in DOMAIN t |-> <<t[i]>>]) = t
<1> DEFINE ss == [i \in DOMAIN t |-> <<t[i]>>]
           g == [i \in 0..Len(t) |-> SubSeq(t, 1, i)]
<1>1. ss \in Seq(Seq(S)) /\ Len(ss) = Len(t) /\ \A i \in 1..Len(t) : ss[i] = <<t[i]>>
    <2> DEFINE V == Seq(S)
    <2>1. \A i \in DOMAIN t : <<t[i]>> \in V
        OBVIOUS
    <2> HIDE DEF V
    <2>2. ss \in Seq(V) /\ Len(ss) = Len(t) /\ \A i \in 1..Len(t) : ss[i] = <<t[i]>>
        BY <2>1
    <2> QED
        BY <2>2 DEF V
<1>2. g[0] = <<>> /\ g[Len(t)] = t
    <2>1. SubSeq(t, 1, 0) = <<>> /\ SubSeq(t, 1, Len(t)) = t
        OBVIOUS
    <2>2. 0 \in 0..Len(t) /\ Len(t) \in 0..Len(t)
        OBVIOUS
    <2> QED
        BY <2>1, <2>2
<1>3. \A i \in 1..Len(t) : g[i] = g[i - 1] \o <<t[i]>>
    <2> SUFFICES ASSUME NEW i \in 1..Len(t) PROVE SubSeq(t, 1, i) = SubSeq(t, 1, i - 1) \o <<t[i]>>
        OBVIOUS
    <2> QED
        OBVIOUS
<1> HIDE DEF g, ss
<1>4. Flattens(g, ss)
    BY <1>1, <1>2, <1>3 DEF Flattens
<1>5. FlattenSeq(ss) = t
    BY <1>1, <1>2, <1>4, FlattenIs
<1> QED
    BY <1>5 DEF ss

\* Nothing but the first sequence.
LEMMA FlattenFirst ==
    ASSUME NEW S, NEW ss \in Seq(Seq(S)), ss # <<>>, \A i \in 2..Len(ss) : ss[i] = <<>>
    PROVE  FlattenSeq(ss) = ss[1]
<1> DEFINE g == [i \in 0..Len(ss) |-> IF i = 0 THEN <<>> ELSE ss[1]]
<1>1. Len(ss) \in Nat \ {0} /\ ss[1] \in Seq(S) /\ <<>> \o ss[1] = ss[1] /\ ss[1] \o <<>> = ss[1]
    OBVIOUS
<1>2. g[0] = <<>> /\ \A i \in 1..Len(ss) : g[i] = ss[1]
    OBVIOUS
<1> HIDE DEF g
<1>3. \A i \in 1..Len(ss) : g[i] = g[i - 1] \o ss[i]
    <2> SUFFICES ASSUME NEW i \in 1..Len(ss) PROVE g[i] = g[i - 1] \o ss[i]
        OBVIOUS
    <2>1. CASE i = 1
        <3>1. g[i] = ss[1] /\ g[i - 1] = <<>> /\ ss[i] = ss[1]
            BY <1>2, <2>1
        <3> QED
            BY <1>1, <3>1
    <2>2. CASE i # 1
        <3>1. i - 1 \in 1..Len(ss) /\ i \in 2..Len(ss)
            BY <2>2
        <3>2. g[i] = ss[1] /\ g[i - 1] = ss[1] /\ ss[i] = <<>>
            BY <1>2, <3>1
        <3> QED
            BY <1>1, <3>2
    <2> QED
        BY <2>1, <2>2
<1>4. Flattens(g, ss)
    BY <1>2, <1>3 DEF Flattens
<1>5. g[Len(ss)] = ss[1]
    BY <1>1, <1>2
<1> QED
    BY <1>4, <1>5, FlattenIs

\* A function on 1..n is a sequence of n elements.
LEMMA FcnIsSeq ==
    ASSUME NEW V, NEW n \in Nat, NEW f \in [1..n -> V]
    PROVE  f \in Seq(V) /\ Len(f) = n /\ DOMAIN f = 1..n
OBVIOUS

\* A sequence of at most one element.
LEMMA OneIsSeq ==
    ASSUME NEW V, NEW x, NEW s, s = <<x>> \/ s = <<>>, x \in V
    PROVE  s \in Seq(V) /\ \A i \in DOMAIN s : s[i] = x
<1>1. CASE s = <<x>>
    <2>1. <<x>> \in Seq(V) /\ \A i \in DOMAIN <<x>> : <<x>>[i] = x
        OBVIOUS
    <2> QED
        BY <1>1, <2>1
<1>2. CASE s = <<>>
    BY <1>2
<1> QED
    BY <1>1, <1>2

\* What F makes of the elements of s, put together.
Each(F, s) == FlattenSeq([i \in DOMAIN s |-> F[s[i]]])
Maps(F, D, S) == F \in [D -> Seq(S)]

LEMMA EachSeq ==
    ASSUME NEW D, NEW S, NEW F, Maps(F, D, S), NEW s \in Seq(D)
    PROVE  [i \in DOMAIN s |-> F[s[i]]] \in Seq(Seq(S))
<1> DEFINE V == Seq(S)
<1>1. F \in [D -> V]
    BY DEF Maps
<1> HIDE DEF V
<1>2. [i \in DOMAIN s |-> F[s[i]]] \in Seq(V)
    BY <1>1
<1> QED
    BY <1>2 DEF V

LEMMA EachType ==
    ASSUME NEW D, NEW S, NEW F, Maps(F, D, S), NEW s \in Seq(D)
    PROVE  Each(F, s) \in Seq(S)
<1>1. [i \in DOMAIN s |-> F[s[i]]] \in Seq(Seq(S))
    BY EachSeq
<1> HIDE DEF Each
<1> QED
    BY <1>1, FlattenType DEF Each

LEMMA EachEmpty == ASSUME NEW F PROVE Each(F, <<>>) = <<>>
<1>1. [i \in DOMAIN <<>> |-> F[<<>>[i]]] = <<>>
    OBVIOUS
<1> QED
    BY <1>1, FlattenEmpty DEF Each

LEMMA EachOne ==
    ASSUME NEW D, NEW S, NEW F, Maps(F, D, S), NEW x \in D
    PROVE  Each(F, <<x>>) = F[x]
<1>1. [i \in DOMAIN <<x>> |-> F[<<x>>[i]]] = <<F[x]>>
    OBVIOUS
<1> QED
    BY <1>1, FlattenOne DEF Each, Maps

LEMMA EachConcat ==
    ASSUME NEW D, NEW S, NEW F, Maps(F, D, S), NEW s \in Seq(D), NEW t \in Seq(D)
    PROVE  Each(F, s \o t) = Each(F, s) \o Each(F, t)
<1> DEFINE Map(r) == [i \in DOMAIN r |-> F[r[i]]]
<1>1. Map(s) \in Seq(Seq(S)) /\ Map(t) \in Seq(Seq(S))
    BY EachSeq
<1>2. Map(s \o t) = Map(s) \o Map(t)
    <2> DEFINE V == Seq(S)
    <2>1. F \in [D -> V]
        BY DEF Maps
    <2> HIDE DEF V
    <2>2. Map(s) \in Seq(V) /\ Map(t) \in Seq(V) /\ Len(Map(s)) = Len(s) /\ Len(Map(t)) = Len(t)
        <3>1. Map(s) \in [1..Len(s) -> V] /\ Map(t) \in [1..Len(t) -> V] /\ Len(s) \in Nat /\ Len(t) \in Nat
            BY <2>1
        <3> HIDE DEF Map
        <3> QED
            BY <3>1, FcnIsSeq
    <2>3. DOMAIN Map(s \o t) = 1..Len(s) + Len(t) /\ DOMAIN (Map(s) \o Map(t)) = 1..Len(s) + Len(t)
        <3>1. DOMAIN Map(s \o t) = 1..Len(s) + Len(t)
            OBVIOUS
        <3> DEFINE x == Map(s)
                   y == Map(t)
        <3>2. x \in Seq(V) /\ y \in Seq(V) /\ Len(x) = Len(s) /\ Len(y) = Len(t)
            <4> HIDE DEF Map
            <4> QED
                BY <2>2
        <3> HIDE DEF Map, x, y
        <3>3. x \o y \in Seq(V) /\ Len(x \o y) = Len(x) + Len(y)
            BY <3>2, ConcatProperties
        <3>4. DOMAIN (x \o y) = 1..Len(x \o y)
            BY <3>3
        <3>5. DOMAIN (x \o y) = 1..Len(s) + Len(t)
            BY <3>2, <3>3, <3>4
        <3> QED
            BY <3>1, <3>5 DEF x, y
    <2>4. ASSUME NEW i \in 1..Len(s) + Len(t) PROVE Map(s \o t)[i] = (Map(s) \o Map(t))[i]
        <3>1. CASE i <= Len(s)
            <4>1. i \in DOMAIN s /\ (s \o t)[i] = s[i] /\ i \in DOMAIN (s \o t)
                BY <3>1
            <4>2. Map(s \o t)[i] = F[s[i]] /\ Map(s)[i] = F[s[i]]
                BY <4>1
            <4> HIDE DEF Map
            <4> QED
                BY <2>2, <3>1, <4>2
        <3>2. CASE i > Len(s)
            <4>1. i - Len(s) \in DOMAIN t /\ (s \o t)[i] = t[i - Len(s)] /\ i \in DOMAIN (s \o t)
                BY <3>2
            <4>2. Map(s \o t)[i] = F[t[i - Len(s)]] /\ Map(t)[i - Len(s)] = F[t[i - Len(s)]]
                BY <4>1
            <4> HIDE DEF Map
            <4> QED
                BY <2>2, <3>2, <4>2
        <3>3. i <= Len(s) \/ i > Len(s)
            OBVIOUS
        <3> HIDE DEF Map
        <3> QED
            BY <3>1, <3>2, <3>3
    <2>5. Map(s \o t) = [i \in DOMAIN Map(s \o t) |-> Map(s \o t)[i]]
        OBVIOUS
    <2>6. Map(s) \o Map(t) = [i \in DOMAIN (Map(s) \o Map(t)) |-> (Map(s) \o Map(t))[i]]
        BY <2>2
    <2> HIDE DEF Map
    <2> QED
        BY <2>3, <2>4, <2>5, <2>6
<1>3. Each(F, s) = FlattenSeq(Map(s)) /\ Each(F, t) = FlattenSeq(Map(t))
        /\ Each(F, s \o t) = FlattenSeq(Map(s \o t))
    BY DEF Each
<1> DEFINE x == Map(s)
           y == Map(t)
<1>4. x \in Seq(Seq(S)) /\ y \in Seq(Seq(S)) /\ Each(F, s \o t) = FlattenSeq(x \o y)
        /\ Each(F, s) = FlattenSeq(x) /\ Each(F, t) = FlattenSeq(y)
    <2> HIDE DEF Map
    <2> QED
        BY <1>1, <1>2, <1>3
<1> HIDE DEF x, y, Map
<1>5. FlattenSeq(x \o y) = FlattenSeq(x) \o FlattenSeq(y)
    BY <1>4, FlattenConcat
<1> QED
    BY <1>4, <1>5

\* F keeps every element, or none.
LEMMA EachKept ==
    ASSUME NEW D, NEW F, NEW s \in Seq(D), \A i \in DOMAIN s : F[s[i]] = <<s[i]>>
    PROVE  Each(F, s) = s
<1>1. [i \in DOMAIN s |-> F[s[i]]] = [i \in DOMAIN s |-> <<s[i]>>]
    OBVIOUS
<1> QED
    BY <1>1, FlattenSingles DEF Each

LEMMA EachDropped ==
    ASSUME NEW D, NEW F, NEW s \in Seq(D), \A i \in DOMAIN s : F[s[i]] = <<>>
    PROVE  Each(F, s) = <<>>
<1> DEFINE ss == [i \in DOMAIN s |-> F[s[i]]]
<1>0. \A i \in DOMAIN s : F[s[i]] \in Seq({})
    <2>1. <<>> \in Seq({})
        OBVIOUS
    <2> QED
        BY <2>1
<1>1. ss \in Seq(Seq({})) /\ \A i \in DOMAIN ss : ss[i] = <<>>
    <2> DEFINE V == Seq({})
    <2>1. \A i \in DOMAIN s : F[s[i]] \in V
        BY <1>0
    <2> HIDE DEF V
    <2>2. ss \in Seq(V) /\ \A i \in DOMAIN ss : ss[i] = <<>>
        BY <2>1
    <2> QED
        BY <2>2 DEF V
<1>2. ss = <<>> => FlattenSeq(ss) = <<>>
    BY FlattenEmpty
<1>3. ss # <<>> => ss[1] = <<>> /\ \A i \in 2..Len(ss) : ss[i] = <<>>
    BY <1>1
<1>4. Each(F, s) = FlattenSeq(ss)
    BY DEF Each
<1> HIDE DEF ss
<1> QED
    BY <1>1, <1>2, <1>3, <1>4, FlattenFirst

-----------------------------------------------------------------------------
(* Events and blocks.                                                      *)

LEMMA TextsConcat ==
    /\ <<>> \in Texts
    /\ \A x \in Texts : x \o <<>> = x /\ <<>> \o x = x
    /\ \A x, y \in Texts : x \o y \in Texts
BY DEF Texts

Events ==
    [k : {"text", "reasoning"}, s : Texts] \cup [k : {"calls"}, calls : Seq(ToolCalls)]
    \cup [k : {"calls"}, calls : Seq(ToolCalls), content : Seq(Blocks)]
    \cup [k : {"usage", "done"}] \cup [k : {"done"}, stop : {"end_turn", "tool_use"}]

Kinds == {"text", "reasoning"}

Say(k) == [e \in Events |-> IF e.k = k THEN e.s ELSE <<>>]

LEMMA SayType == ASSUME NEW k \in Kinds PROVE Maps(Say(k), Events, Atoms)
<1>1. ASSUME NEW e \in Events, e.k = k PROVE e.s \in Texts
    BY <1>1 DEF Events, Kinds
<1>2. Say(k) \in [Events -> Texts]
    BY <1>1, TextsConcat DEF Say
<1> QED
    BY <1>2 DEF Maps, Texts

LEMMA JoinedIs ==
    ASSUME NEW k \in Kinds, NEW es \in Seq(Events)
    PROVE  Joined(es, k) = Each(Say(k), es) /\ Joined(es, k) \in Texts
<1>1. \A i \in DOMAIN es : es[i] \in Events
    OBVIOUS
<1>2. [i \in DOMAIN es |-> IF es[i].k = k THEN es[i].s ELSE <<>>] = [i \in DOMAIN es |-> Say(k)[es[i]]]
    BY <1>1 DEF Say
<1>3. Joined(es, k) = Each(Say(k), es)
    BY <1>2, Zenon DEF Joined, Each
<1>4. Each(Say(k), es) \in Seq(Atoms)
    BY SayType, EachType
<1> QED
    BY <1>3, <1>4 DEF Texts

LEMMA JoinedConcat ==
    ASSUME NEW k \in Kinds, NEW es \in Seq(Events), NEW fs \in Seq(Events)
    PROVE  Joined(es \o fs, k) = Joined(es, k) \o Joined(fs, k)
<1>1. es \o fs \in Seq(Events)
    OBVIOUS
<1>2. Each(Say(k), es \o fs) = Each(Say(k), es) \o Each(Say(k), fs)
    BY SayType, EachConcat
<1> QED
    BY <1>1, <1>2, JoinedIs

LEMMA JoinedOne ==
    ASSUME NEW k \in Kinds, NEW e \in Events
    PROVE  Joined(<<e>>, k) = IF e.k = k THEN e.s ELSE <<>>
<1>1. <<e>> \in Seq(Events) /\ Say(k)[e] = IF e.k = k THEN e.s ELSE <<>>
    BY DEF Say
<1>2. Each(Say(k), <<e>>) = Say(k)[e]
    BY SayType, EachOne
<1> QED
    BY <1>1, <1>2, JoinedIs

LEMMA JoinedEmpty == ASSUME NEW k \in Kinds PROVE Joined(<<>>, k) = <<>>
<1>1. <<>> \in Seq(Events)
    OBVIOUS
<1> QED
    BY <1>1, JoinedIs, EachEmpty

\* The calls of events in which nothing calls, and of events that end in calls
\* and what does not call.
LEMMA CallsNone ==
    ASSUME NEW es, \A i \in DOMAIN es : es[i].k # "calls" PROVE Calls(es) = <<>>
BY DEF Calls

LEMMA CallsAt ==
    ASSUME NEW E, NEW es \in Seq(E), NEW i \in DOMAIN es, es[i].k = "calls",
           \A j \in DOMAIN es : j > i => es[j].k # "calls"
    PROVE  Calls(es) = es[i].calls
<1> DEFINE here == {j \in DOMAIN es : es[j].k = "calls"}
<1>1. here \in SUBSET (1..Len(es)) /\ Len(es) \in Nat /\ i \in here
    OBVIOUS
<1>2. Calls(es) = es[Max(here)].calls
    BY <1>1, Zenon DEF Calls
<1>3. Max(here) \in here /\ Max(here) >= i
    <2> HIDE DEF here
    <2> QED
        BY <1>1, UpperMax
<1>4. Max(here) = i
    <2> DEFINE m == Max(here)
    <2>1. m \in DOMAIN es /\ es[m].k = "calls" /\ m >= i
        BY <1>3
    <2> HIDE DEF m, here
    <2>2. m = i
        BY <2>1
    <2> QED
        BY <2>2 DEF m
<1> QED
    BY <1>2, <1>4

LEMMA CallsType == ASSUME NEW es \in Seq(Events) PROVE Calls(es) \in Seq(ToolCalls)
<1> DEFINE here == {j \in DOMAIN es : es[j].k = "calls"}
<1>1. CASE here = {}
    BY <1>1 DEF Calls
<1>2. CASE here # {}
    <2>1. here \in SUBSET (1..Len(es)) /\ Len(es) \in Nat
        OBVIOUS
    <2>2. Calls(es) = es[Max(here)].calls
        BY <1>2, Zenon DEF Calls
    <2>3. Max(here) \in here
        <3> HIDE DEF here
        <3> QED
            BY <1>2, <2>1, UpperMax
    <2> DEFINE e == es[Max(here)]
    <2>4. e \in Events /\ e.k = "calls"
        BY <2>3
    <2> HIDE DEF e
    <2>5. e.calls \in Seq(ToolCalls)
        BY <2>4 DEF Events
    <2> QED
        BY <2>2, <2>5 DEF e
<1> QED
    BY <1>1, <1>2

-----------------------------------------------------------------------------
(* What a client hears of a reply.                                         *)

\* OpenAI: the text and the calls of the reply.
LEMMA HeardByOpenAi ==
    ASSUME NEW es \in Seq(Events), NEW heard, heard = Complete(NonStreamBody(es))
    PROVE  Joined(heard, "text") = Joined(es, "text") /\ Calls(heard) = Calls(es)
<1> DEFINE said == Joined(es, "text")
           thought == Joined(es, "reasoning")
           calls == Calls(es)
           P(k, s) == IF s \in {None, <<>>} THEN <<>> ELSE <<[k |-> k, s |-> s]>>
           c == IF calls # <<>> /\ said = <<>> THEN None ELSE said
           a == P("reasoning", thought)
           b == P("text", c)
           d == IF calls = <<>> THEN <<>> ELSE <<[k |-> "calls", calls |-> calls]>>
<1>1. said \in Texts /\ thought \in Texts /\ calls \in Seq(ToolCalls) /\ <<>> \in Texts
    BY JoinedIs, CallsType DEF Kinds, Texts
<1>2. heard = a \o b \o d
    BY DEF Complete, NonStreamBody
<1> HIDE DEF said, thought, calls
<1>3. b = IF said = <<>> THEN <<>> ELSE <<[k |-> "text", s |-> said]>>
    BY <1>1, NoneAssumption
<1>4. /\ a \in Seq(Events) /\ Joined(a, "text") = <<>>
      /\ \A i \in DOMAIN a : a[i].k # "calls"
    <2>1. CASE a = <<>>
        BY <2>1, JoinedEmpty DEF Kinds
    <2>2. CASE a # <<>>
        <3> DEFINE e == [k |-> "reasoning", s |-> thought]
        <3>1. e \in Events /\ e.k = "reasoning"
            BY <1>1 DEF Events
        <3>2. a = <<e>>
            BY <2>2
        <3> HIDE DEF a, e
        <3> QED
            BY <3>1, <3>2, JoinedOne DEF Kinds
    <2> QED
        BY <2>1, <2>2
<1>5. /\ b \in Seq(Events) /\ Joined(b, "text") = said
      /\ \A i \in DOMAIN b : b[i].k # "calls"
    <2>1. CASE said = <<>>
        BY <1>3, <2>1, JoinedEmpty DEF Kinds
    <2>2. CASE said # <<>>
        <3> DEFINE e == [k |-> "text", s |-> said]
        <3>1. e \in Events /\ e.k = "text" /\ e.s = said
            BY <1>1 DEF Events
        <3>2. b = <<e>>
            BY <1>3, <2>2
        <3> HIDE DEF b, e
        <3> QED
            BY <3>1, <3>2, JoinedOne DEF Kinds
    <2> QED
        BY <2>1, <2>2
<1>6. d \in Seq(Events) /\ Joined(d, "text") = <<>>
    <2>1. CASE calls = <<>>
        BY <2>1, JoinedEmpty DEF Kinds
    <2>2. CASE calls # <<>>
        <3> DEFINE e == [k |-> "calls", calls |-> calls]
        <3>1. e \in Events /\ e.k = "calls"
            BY <1>1 DEF Events
        <3>2. d = <<e>>
            BY <2>2
        <3> HIDE DEF d, e
        <3> QED
            BY <3>1, <3>2, JoinedOne DEF Kinds
    <2> QED
        BY <2>1, <2>2
<1>7. Joined(heard, "text") = said
    <2> HIDE DEF a, b, d
    <2>1. a \o b \in Seq(Events)
        BY <1>4, <1>5
    <2>2. Joined(heard, "text") = (Joined(a, "text") \o Joined(b, "text")) \o Joined(d, "text")
        <3> DEFINE ab == a \o b
        <3>1. "text" \in Kinds /\ ab \in Seq(Events)
            BY <2>1 DEF Kinds
        <3>2. Joined(ab, "text") = Joined(a, "text") \o Joined(b, "text")
            BY <1>4, <1>5, <3>1, JoinedConcat
        <3> HIDE DEF ab
        <3>3. Joined(ab \o d, "text") = Joined(ab, "text") \o Joined(d, "text")
            BY <1>6, <3>1, JoinedConcat
        <3> QED
            BY <1>2, <3>2, <3>3 DEF ab
    <2> QED
        BY <1>1, <1>4, <1>5, <1>6, <2>2, TextsConcat
<1>8. Calls(heard) = calls
    <2>0. a \o b \in Seq(Events) /\ \A i \in DOMAIN (a \o b) : (a \o b)[i].k # "calls"
        <3> HIDE DEF a, b
        <3> QED
            BY <1>4, <1>5
    <2> DEFINE ab == a \o b
    <2>1. CASE calls = <<>>
        <3>1. heard = ab
            <4> HIDE DEF a, b
            <4> QED
                BY <1>2, <2>0, <2>1
        <3>0. \A i \in DOMAIN ab : ab[i].k # "calls"
            BY <2>0
        <3> HIDE DEF ab
        <3>2. Calls(ab) = <<>>
            BY <3>0, CallsNone
        <3> QED
            BY <2>1, <3>1, <3>2
    <2>2. CASE calls # <<>>
        <3> DEFINE e == [k |-> "calls", calls |-> calls]
        <3>1. heard = ab \o <<e>> /\ e \in Events /\ e.k = "calls" /\ e.calls = calls
            BY <1>1, <1>2, <2>2 DEF Events
        <3>2. ab \in Seq(Events)
            BY <2>0
        <3> HIDE DEF ab, e
        <3>3. /\ heard \in Seq(Events) /\ Len(heard) \in DOMAIN heard /\ heard[Len(heard)] = e
              /\ \A j \in DOMAIN heard : ~(j > Len(heard))
            BY <3>1, <3>2
        <3> QED
            BY <3>1, <3>3, CallsAt
    <2> QED
        BY <2>1, <2>2
<1> QED
    BY <1>7, <1>8 DEF said, calls

-----------------------------------------------------------------------------
(* Blocks and parts.                                                       *)

AllParts == Blocks \cup [type : {"input_audio"}]

Keep(type) == [b \in AllParts |-> IF b.type = type THEN <<b>> ELSE <<>>]
Tell == [b \in AllParts |-> IF b.type = "text" THEN b.s ELSE <<>>]

LEMMA KeepType == ASSUME NEW type PROVE Maps(Keep(type), AllParts, AllParts)
<1>1. ASSUME NEW b \in AllParts PROVE <<b>> \in Seq(AllParts) /\ <<>> \in Seq(AllParts)
    OBVIOUS
<1> QED
    BY <1>1 DEF Keep, Maps

LEMMA TellType == Maps(Tell, AllParts, Atoms)
<1>1. ASSUME NEW b \in AllParts, b.type = "text" PROVE b.s \in Texts
    BY <1>1 DEF AllParts, Blocks
<1>2. Tell \in [AllParts -> Texts]
    BY <1>1, TextsConcat DEF Tell
<1> QED
    BY <1>2 DEF Maps, Texts

LEMMA OfTypeIs ==
    ASSUME NEW bs \in Seq(AllParts), NEW type
    PROVE  OfType(bs, type) = Each(Keep(type), bs) /\ OfType(bs, type) \in Seq(AllParts)
<1>1. \A i \in DOMAIN bs : bs[i] \in AllParts
    OBVIOUS
<1>2. [i \in DOMAIN bs |-> IF bs[i].type = type THEN <<bs[i]>> ELSE <<>>]
        = [i \in DOMAIN bs |-> Keep(type)[bs[i]]]
    BY <1>1 DEF Keep
<1>3. OfType(bs, type) = Each(Keep(type), bs)
    BY <1>2, Zenon DEF OfType, Each
<1>4. Each(Keep(type), bs) \in Seq(AllParts)
    BY KeepType, EachType
<1> QED
    BY <1>3, <1>4

LEMMA OfTypeConcat ==
    ASSUME NEW bs \in Seq(AllParts), NEW cs \in Seq(AllParts), NEW type
    PROVE  OfType(bs \o cs, type) = OfType(bs, type) \o OfType(cs, type)
<1>1. bs \o cs \in Seq(AllParts)
    OBVIOUS
<1>2. Each(Keep(type), bs \o cs) = Each(Keep(type), bs) \o Each(Keep(type), cs)
    BY KeepType, EachConcat
<1> QED
    BY <1>1, <1>2, OfTypeIs

LEMMA OfTypeAll ==
    ASSUME NEW bs \in Seq(AllParts), NEW type, \A i \in DOMAIN bs : bs[i].type = type
    PROVE  OfType(bs, type) = bs
<1>1. \A i \in DOMAIN bs : Keep(type)[bs[i]] = <<bs[i]>>
    BY DEF Keep
<1>2. Each(Keep(type), bs) = bs
    BY <1>1, EachKept
<1> QED
    BY <1>2, OfTypeIs

LEMMA OfTypeNone ==
    ASSUME NEW bs \in Seq(AllParts), NEW type, \A i \in DOMAIN bs : bs[i].type # type
    PROVE  OfType(bs, type) = <<>>
<1>1. \A i \in DOMAIN bs : Keep(type)[bs[i]] = <<>>
    BY DEF Keep
<1>2. Each(Keep(type), bs) = <<>>
    BY <1>1, EachDropped
<1> QED
    BY <1>2, OfTypeIs

\* A sequence around one of its elements.
IsAround(s, n, S) == \E a, c \in Seq(S) : s = (a \o <<s[n]>>) \o c

LEMMA Around == ASSUME NEW S, NEW s \in Seq(S), NEW n \in DOMAIN s PROVE IsAround(s, n, S)
<1> DEFINE a == SubSeq(s, 1, n - 1)
           c == SubSeq(s, n + 1, Len(s))
           b == <<s[n]>>
           t == (a \o b) \o c
<1>1. n \in 1..Len(s) /\ Len(s) \in Nat /\ s[n] \in S
    OBVIOUS
<1>2. a \in Seq(S) /\ Len(a) = n - 1 /\ \A i \in 1..(n - 1) : a[i] = s[i]
    BY <1>1
<1>3. c \in Seq(S) /\ Len(c) = Len(s) - n /\ \A i \in 1..(Len(s) - n) : c[i] = s[n + i]
    BY <1>1
<1>4. b \in Seq(S) /\ Len(b) = 1 /\ b[1] = s[n]
    BY <1>1
<1> HIDE DEF a, b, c
<1>5. a \o b \in Seq(S) /\ Len(a \o b) = n /\ \A i \in 1..n : (a \o b)[i] = s[i]
    <2>0. /\ a \o b \in Seq(S) /\ Len(a \o b) = Len(a) + Len(b)
          /\ \A i \in 1..Len(a) + Len(b) : (a \o b)[i] = IF i <= Len(a) THEN a[i] ELSE b[i - Len(a)]
        BY <1>2, <1>4, ConcatProperties
    <2>1. a \o b \in Seq(S) /\ Len(a \o b) = n
        BY <1>1, <1>2, <1>4, <2>0
    <2>2. \A i \in 1..n : (a \o b)[i] = IF i <= n - 1 THEN a[i] ELSE b[i - (n - 1)]
        BY <1>1, <1>2, <1>4, <2>0
    <2>3. ASSUME NEW i \in 1..n PROVE (a \o b)[i] = s[i]
        <3>1. CASE i <= n - 1
            BY <1>1, <1>2, <2>2, <3>1
        <3>2. CASE i = n
            <4>1. n - (n - 1) = 1 /\ ~(n <= n - 1)
                BY <1>1
            <4> QED
                BY <1>4, <2>2, <3>2, <4>1
        <3>3. i <= n - 1 \/ i = n
            BY <1>1
        <3> QED
            BY <3>1, <3>2, <3>3
    <2> QED
        BY <2>1, <2>3
<1> DEFINE ab == a \o b
<1>6. ab \in Seq(S) /\ Len(ab) = n /\ \A i \in 1..n : ab[i] = s[i]
    BY <1>5
<1> HIDE DEF ab
<1>7. /\ ab \o c \in Seq(S) /\ Len(ab \o c) = Len(s)
      /\ \A i \in 1..Len(s) : (ab \o c)[i] = IF i <= n THEN ab[i] ELSE c[i - n]
    BY <1>1, <1>3, <1>6
<1>8. ASSUME NEW i \in 1..Len(s) PROVE (ab \o c)[i] = s[i]
    <2>1. CASE i <= n
        BY <1>1, <1>6, <1>7, <2>1
    <2>2. CASE ~(i <= n)
        <3>1. i - n \in 1..(Len(s) - n) /\ n + (i - n) = i
            BY <1>1, <2>2
        <3> QED
            BY <1>3, <1>7, <2>2, <3>1
    <2> QED
        BY <2>1, <2>2
<1>9. s = ab \o c
    <2> DEFINE u == ab \o c
    <2>1. u \in Seq(S) /\ Len(u) = Len(s) /\ \A i \in 1..Len(s) : u[i] = s[i]
        BY <1>7, <1>8
    <2> HIDE DEF u
    <2>2. s = u
        BY <2>1
    <2> QED
        BY <2>2 DEF u
<1> QED
    BY <1>2, <1>3, <1>9 DEF ab, b, IsAround

LEMMA OfTypeSome ==
    ASSUME NEW bs \in Seq(AllParts), NEW type, NEW n \in DOMAIN bs, bs[n].type = type
    PROVE  OfType(bs, type) # <<>>
<1> DEFINE b == <<bs[n]>>
<1>1. PICK a \in Seq(AllParts), c \in Seq(AllParts) : bs = (a \o b) \o c
    <2> DEFINE P == AllParts
    <2>1. bs \in Seq(P) /\ n \in DOMAIN bs
        OBVIOUS
    <2> HIDE DEF P
    <2>2. IsAround(bs, n, P)
        BY <2>1, Around
    <2> QED
        BY <2>2, Zenon DEF P, IsAround
<1>2. b \in Seq(AllParts) /\ Len(b) = 1 /\ (\A i \in DOMAIN b : b[i].type = type)
    <2>1. bs[n] \in AllParts
        OBVIOUS
    <2> HIDE DEF AllParts
    <2> QED
        BY <2>1
<1>3. OfType(b, type) = b
    BY <1>2, OfTypeAll
<1> HIDE DEF b, AllParts
<1> DEFINE ab == a \o b
<1>4. ab \in Seq(AllParts)
    BY <1>2
<1>5. OfType(ab, type) = OfType(a, type) \o b
    <2>1. OfType(ab, type) = OfType(a, type) \o OfType(b, type)
        BY <1>2, OfTypeConcat
    <2> QED
        BY <1>3, <2>1
<1> HIDE DEF ab
<1>6. OfType(bs, type) = OfType(ab, type) \o OfType(c, type)
    BY <1>1, <1>4, OfTypeConcat DEF ab
<1> DEFINE x == OfType(a, type)
           y == OfType(c, type)
<1>7. x \in Seq(AllParts) /\ y \in Seq(AllParts)
    BY OfTypeIs
<1>8. OfType(bs, type) = (x \o b) \o y
    BY <1>5, <1>6
<1> HIDE DEF x, y
<1> DEFINE xb == x \o b
<1>9. xb \in Seq(AllParts) /\ Len(xb) >= 1
    <2>1. xb \in Seq(AllParts) /\ Len(xb) = Len(x) + Len(b)
        BY <1>2, <1>7, ConcatProperties
    <2>2. Len(x) \in Nat
        BY <1>7
    <2> QED
        BY <1>2, <2>1, <2>2
<1> HIDE DEF xb
<1>10. Len(xb \o y) >= 1
    BY <1>7, <1>9
<1> QED
    BY <1>8, <1>10 DEF xb

LEMMA OfTypeEmpty == \A type : OfType(<<>>, type) = <<>>
<1>1. <<>> \in Seq(AllParts) /\ \A i \in DOMAIN <<>> : FALSE
    OBVIOUS
<1> QED
    BY <1>1, OfTypeNone

\* A content in parts says what its text parts say.
LEMMA ContentParts ==
    ASSUME NEW ps \in Seq(AllParts)
    PROVE  /\ IsParts(Parts(ps)) /\ PartsOf(Parts(ps)) = ps
           /\ ContentText(Parts(ps)) = Each(Tell, ps) /\ Each(Tell, ps) \in Texts
<1>1. Parts(ps) # None /\ Parts(ps).parts = ps /\ DOMAIN Parts(ps) = {"parts"}
    <2>1. Parts(ps) \in [parts : Seq(Blocks \cup [type : {"input_audio"}])]
        BY DEF Parts, AllParts
    <2> QED
        BY <2>1, NoneAssumption DEF Parts
<1>2. IsParts(Parts(ps))
    BY <1>1 DEF IsParts
<1>3. PartsOf(Parts(ps)) = ps
    BY <1>1, <1>2, Zenon DEF PartsOf
<1>4. \A i \in DOMAIN ps : ps[i] \in AllParts
    OBVIOUS
<1>5. [i \in DOMAIN ps |-> IF ps[i].type = "text" THEN ps[i].s ELSE <<>>]
        = [i \in DOMAIN ps |-> Tell[ps[i]]]
    BY <1>4 DEF Tell
<1>6. ContentText(Parts(ps)) = FlattenSeq([i \in DOMAIN ps |-> IF ps[i].type = "text" THEN ps[i].s ELSE <<>>])
    <2> DEFINE c == Parts(ps)
    <2>1. c # None /\ c.parts = ps /\ IsParts(c)
        BY <1>1, <1>2
    <2> HIDE DEF c
    <2>2. ContentText(c) = FlattenSeq([i \in DOMAIN c.parts |-> IF c.parts[i].type = "text" THEN c.parts[i].s ELSE <<>>])
        BY <2>1, Zenon DEF ContentText
    <2> QED
        BY <2>1, <2>2, Zenon DEF c
<1>7. ContentText(Parts(ps)) = Each(Tell, ps)
    BY <1>5, <1>6, Zenon DEF Each
<1>8. Each(Tell, ps) \in Seq(Atoms)
    BY TellType, EachType
<1> QED
    BY <1>2, <1>3, <1>7, <1>8 DEF Texts

LEMMA ContentPlain ==
    ASSUME NEW x \in Texts
    PROVE  ~IsParts(Text(x)) /\ PartsOf(Text(x)) = <<>> /\ ContentText(Text(x)) = x
<1>1. Text(x) # None /\ Text(x).text = x /\ DOMAIN Text(x) = {"text"}
    BY NoneAssumption DEF Text
<1>2. ~IsParts(Text(x))
    BY <1>1 DEF IsParts
<1>3. PartsOf(Text(x)) = <<>>
    BY <1>2, Zenon DEF PartsOf
<1>4. ContentText(Text(x)) = Text(x).text
    BY <1>1, <1>2, Zenon DEF ContentText
<1> QED
    BY <1>1, <1>2, <1>3, <1>4

LEMMA ContentNull == ~IsParts(None) /\ PartsOf(None) = <<>> /\ ContentText(None) = <<>>
BY Zenon DEF IsParts, PartsOf, ContentText

\* What AnthropicMessageBody makes of a reply: its calls, its text, and no
\* result or audio.
UseBlocks(calls) == [i \in DOMAIN calls |-> ToolUseBlock(calls[i])]

LEMMA UseBlocksType ==
    ASSUME NEW calls \in Seq(ToolCalls)
    PROVE  /\ UseBlocks(calls) \in Seq(Blocks) /\ UseBlocks(calls) \in Seq(AllParts)
           /\ Len(UseBlocks(calls)) = Len(calls)
           /\ \A i \in DOMAIN UseBlocks(calls) : UseBlocks(calls)[i].type = "tool_use"
<1>1. ASSUME NEW c \in ToolCalls PROVE ToolUseBlock(c) \in Blocks /\ ToolUseBlock(c).type = "tool_use"
    BY DEF ToolCalls, ToolUseBlock, Blocks, Arguments
<1>2. \A i \in 1..Len(calls) : calls[i] \in ToolCalls
    OBVIOUS
<1>3. UseBlocks(calls) \in [1..Len(calls) -> Blocks] /\ UseBlocks(calls) \in [1..Len(calls) -> AllParts]
    BY <1>1, <1>2 DEF UseBlocks, AllParts
<1>4. \A i \in DOMAIN UseBlocks(calls) : UseBlocks(calls)[i].type = "tool_use"
    BY <1>1, <1>2 DEF UseBlocks
<1> QED
    BY <1>3, <1>4, FcnIsSeq

LEMMA BodyContent ==
    ASSUME NEW es \in Seq(Events), NEW content, content = AnthropicMessageBody(es).content
    PROVE  /\ content \in Seq(Blocks) /\ content \in Seq(AllParts)
           /\ OfType(content, "tool_use") = UseBlocks(Calls(es))
           /\ OfType(content, "tool_result") = <<>>
           /\ OfType(content, "input_audio") = <<>>
           /\ Each(Tell, content) = Joined(es, "text")
<1> DEFINE said == Joined(es, "text")
           thought == Joined(es, "reasoning")
           calls == Calls(es)
           p == [type |-> "thinking", s |-> thought]
           q == [type |-> "text", s |-> said]
           a == IF thought # <<>> THEN <<p>> ELSE <<>>
           b == IF said # <<>> \/ calls = <<>> THEN <<q>> ELSE <<>>
           d == UseBlocks(calls)
<1>1. said \in Texts /\ thought \in Texts /\ calls \in Seq(ToolCalls)
    BY JoinedIs, CallsType DEF Kinds
<1>2. content = a \o b \o d
    BY DEF AnthropicMessageBody, UseBlocks
<1>3. p \in Blocks /\ q \in Blocks /\ p.type = "thinking" /\ q.type = "text" /\ q.s = said
    BY <1>1 DEF Blocks
<1>p. p \in AllParts /\ q \in AllParts
    BY <1>3 DEF AllParts
<1>4. /\ d \in Seq(Blocks) /\ d \in Seq(AllParts)
      /\ \A i \in DOMAIN d : d[i].type = "tool_use"
    BY <1>1, UseBlocksType
<1> HIDE DEF p, q, d, said, thought, calls
<1>5. a \in Seq(Blocks) /\ a \in Seq(AllParts) /\ \A i \in DOMAIN a : a[i].type = "thinking"
    <2>1. a = <<p>> \/ a = <<>>
        OBVIOUS
    <2> HIDE DEF a
    <2>2. a \in Seq(Blocks) /\ a \in Seq(AllParts) /\ \A i \in DOMAIN a : a[i] = p
        BY <1>3, <1>p, <2>1, OneIsSeq
    <2> QED
        BY <1>3, <2>2
<1>6. b \in Seq(Blocks) /\ b \in Seq(AllParts) /\ \A i \in DOMAIN b : b[i].type = "text"
    <2>1. b = <<q>> \/ b = <<>>
        OBVIOUS
    <2> HIDE DEF b
    <2>2. b \in Seq(Blocks) /\ b \in Seq(AllParts) /\ \A i \in DOMAIN b : b[i] = q
        BY <1>3, <1>p, <2>1, OneIsSeq
    <2> QED
        BY <1>3, <2>2
<1>7. Each(Tell, b) = said
    <2>1. CASE b = <<q>>
        <3>1. Each(Tell, <<q>>) = Tell[q] /\ q \in AllParts
            BY <1>3, TellType, EachOne DEF AllParts
        <3> QED
            BY <1>3, <2>1, <3>1 DEF Tell
    <2>2. CASE b = <<>> /\ said = <<>>
        BY <2>2, EachEmpty
    <2> QED
        BY <2>1, <2>2
<1> HIDE DEF a, b
<1>8. ASSUME NEW r \in Seq(AllParts), \A i \in DOMAIN r : r[i].type # "text" PROVE Each(Tell, r) = <<>>
    <2>1. \A i \in DOMAIN r : Tell[r[i]] = <<>>
        BY <1>8 DEF Tell
    <2> QED
        BY <2>1, EachDropped
<1>9. Each(Tell, a) = <<>> /\ Each(Tell, d) = <<>>
    BY <1>4, <1>5, <1>8
<1>10. a \o b \in Seq(AllParts) /\ a \o b \in Seq(Blocks) /\ content \in Seq(Blocks) /\ content \in Seq(AllParts)
    BY <1>2, <1>4, <1>5, <1>6
<1> DEFINE ab == a \o b
<1>ab. content = ab \o d /\ ab \in Seq(AllParts)
    BY <1>2, <1>10
<1> HIDE DEF ab
<1>11. Each(Tell, content) = said
    <2>2. Each(Tell, ab) = Each(Tell, a) \o Each(Tell, b)
        BY <1>5, <1>6, TellType, EachConcat DEF ab
    <2>3. Each(Tell, content) = Each(Tell, ab) \o Each(Tell, d)
        BY <1>4, <1>ab, TellType, EachConcat
    <2> QED
        BY <1>1, <1>7, <1>9, <2>2, <2>3, TextsConcat
<1>12. ASSUME NEW t PROVE OfType(content, t) = (OfType(a, t) \o OfType(b, t)) \o OfType(d, t)
    <2>1. OfType(content, t) = OfType(ab, t) \o OfType(d, t)
        BY <1>4, <1>ab, OfTypeConcat
    <2>2. OfType(ab, t) = OfType(a, t) \o OfType(b, t)
        BY <1>5, <1>6, OfTypeConcat DEF ab
    <2> QED
        BY <2>1, <2>2
<1>13. \A t \in {"tool_use", "tool_result", "input_audio"} : OfType(a, t) = <<>> /\ OfType(b, t) = <<>>
    BY <1>5, <1>6, OfTypeNone
<1>14. OfType(d, "tool_use") = d /\ \A t \in {"tool_result", "input_audio"} : OfType(d, t) = <<>>
    BY <1>4, OfTypeAll, OfTypeNone
<1>15. <<>> \o <<>> = <<>> /\ <<>> \o d = d
    BY <1>4
<1> QED
    BY <1>10, <1>11, <1>12, <1>13, <1>14, <1>15 DEF said, calls, d

\* Anthropic: the calls come back with arguments that are JSON, in an event
\* with the blocks of the message.
LEMMA NormalCallsType ==
    ASSUME NEW calls \in Seq(ToolCalls)
    PROVE  /\ NormalCalls(calls) \in Seq(ToolCalls) /\ Len(NormalCalls(calls)) = Len(calls)
           /\ \A i \in DOMAIN calls : NormalCalls(calls)[i].id = calls[i].id
           /\ (NormalCalls(calls) = <<>> <=> calls = <<>>)
<1>1. ASSUME NEW c \in ToolCalls PROVE NormalCall(c) \in ToolCalls /\ NormalCall(c).id = c.id
    BY DEF ToolCalls, NormalCall, Arguments
<1>2. \A i \in 1..Len(calls) : calls[i] \in ToolCalls
    OBVIOUS
<1>3. NormalCalls(calls) \in [1..Len(calls) -> ToolCalls]
    BY <1>1, <1>2 DEF NormalCalls
<1>4. \A i \in DOMAIN calls : NormalCalls(calls)[i].id = calls[i].id
    BY <1>1, <1>2 DEF NormalCalls
<1>5. NormalCalls(calls) \in Seq(ToolCalls) /\ Len(NormalCalls(calls)) = Len(calls)
    BY <1>3, FcnIsSeq
<1> QED
    BY <1>4, <1>5

\* The calls read back from their blocks.
LEMMA CallsOfBlocks ==
    ASSUME NEW calls \in Seq(ToolCalls), NEW us, us = UseBlocks(calls)
    PROVE  [i \in DOMAIN us |-> CallOf(us[i], us[i].input)] = NormalCalls(calls)
<1>1. ASSUME NEW c \in ToolCalls PROVE CallOf(ToolUseBlock(c), ToolUseBlock(c).input) = NormalCall(c)
    <2>2. NormalCall(c) = [id |-> c.id, name |-> c.name,
                           arguments |-> IF c.arguments = "cut" THEN "{}" ELSE c.arguments]
        <3> DEFINE v == IF c.arguments = "cut" THEN "{}" ELSE c.arguments
        <3>1. NormalCall(c) = [c EXCEPT !.arguments = v]
            BY DEF NormalCall
        <3> HIDE DEF v
        <3>2. [c EXCEPT !.arguments = v] = [id |-> c.id, name |-> c.name, arguments |-> v]
            BY DEF ToolCalls
        <3> QED
            BY <3>1, <3>2 DEF v
    <2> QED
        BY <2>2 DEF ToolUseBlock, CallOf
<1>2. \A i \in DOMAIN calls : calls[i] \in ToolCalls
    OBVIOUS
<1>3. DOMAIN us = DOMAIN calls /\ \A i \in DOMAIN calls : us[i] = ToolUseBlock(calls[i])
    BY DEF UseBlocks
<1> QED
    BY <1>1, <1>2, <1>3 DEF NormalCalls

LEMMA HeardByAnthropic ==
    ASSUME NEW es \in Seq(Events), NEW heard, heard = ParseMessage(AnthropicMessageBody(es))
    PROVE  /\ Calls(heard) = NormalCalls(Calls(es))
           /\ Calls(es) # <<>> =>
                 LET use == CHOOSE i \in DOMAIN heard : heard[i].k = "calls"
                 IN  heard[use].content = AnthropicMessageBody(es).content
<1> DEFINE body == AnthropicMessageBody(es)
           content == body.content
           calls == Calls(es)
           SaidOf(b) == IF b.type \in {"text", "thinking"} /\ b.s # <<>>
                        THEN <<[k |-> IF b.type = "text" THEN "text" ELSE "reasoning", s |-> b.s]>> ELSE <<>>
           F == [b \in AllParts |-> SaidOf(b)]
           Spoken == [k : Kinds, s : Texts]
           uses == OfType(content, "tool_use")
           a == FlattenSeq([i \in DOMAIN content |-> SaidOf(content[i])])
           e == [k |-> "calls", calls |-> [i \in DOMAIN uses |-> CallOf(uses[i], uses[i].input)],
                 content |-> content]
           d == [k |-> "done", stop |-> body.stop]
           b == IF uses = <<>> THEN <<>> ELSE <<e>>
<1>1. heard = a \o b \o <<d>>
    BY DEF ParseMessage
<1>2. content \in Seq(AllParts) /\ uses = UseBlocks(calls) /\ calls \in Seq(ToolCalls)
    BY BodyContent, CallsType
<1>3. e.calls = NormalCalls(calls) /\ e.k = "calls" /\ e.content = content /\ d.k = "done"
    <2>1. [i \in DOMAIN uses |-> CallOf(uses[i], uses[i].input)] = NormalCalls(calls)
        BY <1>2, CallsOfBlocks
    <2> QED
        BY <2>1
<1>4. uses = <<>> <=> calls = <<>>
    BY <1>2, UseBlocksType
<1>5. a \in Seq(Spoken)
    <2>1. ASSUME NEW p \in AllParts PROVE SaidOf(p) \in Seq(Spoken)
        <3>1. CASE p.type \in {"text", "thinking"}
            <4>1. p.s \in Texts
                BY <3>1 DEF AllParts, Blocks
            <4> DEFINE r == [k |-> IF p.type = "text" THEN "text" ELSE "reasoning", s |-> p.s]
            <4>2. r \in Spoken
                BY <4>1 DEF Kinds
            <4>3. SaidOf(p) = <<r>> \/ SaidOf(p) = <<>>
                OBVIOUS
            <4> HIDE DEF r, SaidOf, Spoken
            <4> QED
                BY <4>2, <4>3, OneIsSeq
        <3>2. CASE p.type \notin {"text", "thinking"}
            <4>1. SaidOf(p) = <<>>
                BY <3>2
            <4> QED
                BY <4>1
        <3> QED
            BY <3>1, <3>2
    <2> HIDE DEF SaidOf, Spoken
    <2>2. Maps(F, AllParts, Spoken)
        BY <2>1 DEF Maps
    <2>3. \A i \in DOMAIN content : content[i] \in AllParts
        BY <1>2
    <2>4. [i \in DOMAIN content |-> SaidOf(content[i])] = [i \in DOMAIN content |-> F[content[i]]]
        BY <2>3
    <2>5. a = Each(F, content)
        BY <2>4, Zenon DEF Each
    <2> HIDE DEF F, content, a
    <2> QED
        BY <1>2, <2>2, <2>5, EachType
<1>6. \A i \in DOMAIN a : a[i].k # "calls"
    <2>1. \A x \in Spoken : x.k # "calls"
        BY DEF Kinds
    <2> HIDE DEF Spoken, a
    <2> QED
        BY <1>5, <2>1
<1> DEFINE Had == {a[i] : i \in DOMAIN a} \cup {e, d}
<1>7. a \in Seq(Had) /\ e \in Had /\ d \in Had
    <2> HIDE DEF e, d, a, Spoken
    <2>1. a \in [1..Len(a) -> Had] /\ Len(a) \in Nat
        BY <1>5
    <2> QED
        BY <2>1, FcnIsSeq
<1> HIDE DEF a, e, d, uses, content, body, calls, Had
<1>8. CASE calls = <<>>
    <2>1. heard = a \o <<d>>
        BY <1>1, <1>4, <1>7, <1>8
    <2>2. \A i \in DOMAIN heard : heard[i].k # "calls"
        BY <1>3, <1>6, <1>7, <2>1
    <2>3. Calls(heard) = <<>>
        BY <2>2, CallsNone
    <2> QED
        BY <1>2, <1>8, <2>3, NormalCallsType DEF calls
<1>9. CASE calls # <<>>
    <2>1. heard = (a \o <<e>>) \o <<d>>
        BY <1>1, <1>4, <1>9
    <2> DEFINE n == Len(a) + 1
    <2>2. /\ heard \in Seq(Had) /\ n \in DOMAIN heard /\ heard[n] = e
          /\ Len(heard) = n + 1 /\ heard[n + 1] = d
          /\ \A i \in 1..n - 1 : heard[i] = a[i] /\ i \in DOMAIN a
        BY <1>7, <2>1
    <2>3. \A i \in DOMAIN heard : heard[i].k = "calls" <=> i = n
        <3> SUFFICES ASSUME NEW i \in DOMAIN heard PROVE heard[i].k = "calls" <=> i = n
            OBVIOUS
        <3>1. n \in Nat /\ i \in 1..n + 1
            BY <1>7, <2>2
        <3> HIDE DEF n
        <3>2. i \in 1..n - 1 \/ i = n \/ i = n + 1
            BY <3>1
        <3>3. i \in 1..n - 1 => heard[i].k # "calls" /\ i # n
            BY <1>6, <2>2, <3>1
        <3>4. i = n + 1 => heard[i].k # "calls" /\ i # n
            BY <1>3, <2>2, <3>1
        <3> QED
            BY <1>3, <2>2, <3>2, <3>3, <3>4
    <2>4. (CHOOSE i \in DOMAIN heard : heard[i].k = "calls") = n
        <3> HIDE DEF n
        <3> QED
            BY <2>2, <2>3
    <2>5. Calls(heard) = e.calls
        <3>1. heard[n].k = "calls" /\ \A j \in DOMAIN heard : j > n => heard[j].k # "calls"
            BY <2>2, <2>3
        <3> HIDE DEF n
        <3> QED
            BY <2>2, <3>1, CallsAt
    <2> HIDE DEF n
    <2> QED
        BY <1>3, <2>2, <2>4, <2>5 DEF calls, content, body
<1> QED
    BY <1>8, <1>9

-----------------------------------------------------------------------------
(* Turns.                                                                  *)

LEMMA MessageEq ==
    ASSUME NEW m \in Messages
    PROVE  m = Message(m.role, m.content, m.tool_calls, m.tool_call_id)
BY DEF Messages, Message

\* A message without calls or results among its parts is its turn.
LEMMA TurnAlone ==
    ASSUME NEW x, NEW m \in Messages, x.role = m.role, x.tool_calls = m.tool_calls,
           x.tool_call_id = m.tool_call_id, ContentText(x.content) = m.content,
           OfType(PartsOf(x.content), "tool_use") = <<>>,
           OfType(PartsOf(x.content), "tool_result") = <<>>,
           m.role = "user" => m.content # <<>>
    PROVE  Turn(x) = <<m>>
<1> DEFINE calls == m.tool_calls \o [i \in DOMAIN <<>> |-> CallOf(<<>>[i], <<>>[i].input)]
           told == [i \in DOMAIN <<>> |-> Message("tool", <<>>[i].s, <<>>, <<>>[i].id)]
<1>1. m.tool_calls \in Seq(ToolCalls) /\ m.role \in {"user", "assistant", "tool"}
    BY DEF Messages
<1>2. calls = m.tool_calls /\ told = <<>>
    BY <1>1
<1>3. Turn(x) = told \o (IF m.content # <<>> \/ m.role \in {"assistant", "tool"} \/ calls # <<>>
                         THEN <<Message(m.role, m.content, calls, m.tool_call_id)>> ELSE <<>>)
    BY Zenon DEF Turn
<1> HIDE DEF calls, told
<1>4. Turn(x) = <<>> \o <<m>>
    BY <1>1, <1>2, <1>3, MessageEq
<1>5. <<>> \o <<m>> = <<m>>
    OBVIOUS
<1> QED
    BY <1>4, <1>5

\* What openai.rs sends of a message comes back as the message.
AudioPart == [type |-> "input_audio"]

LEMMA TurnOpenAi ==
    ASSUME NEW m \in Messages, m.role = "user" => m.content # <<>>, NEW audio \in BOOLEAN,
           NEW x, x = ToOpenAiMessage(m, audio)
    PROVE  /\ Turn(x) = <<m>>
           /\ OfType(PartsOf(x.content), "input_audio")
                = IF m.role = "user" /\ audio THEN <<AudioPart>> ELSE <<>>
<1> DEFINE word == [type |-> "text", s |-> m.content]
           said == IF m.content = <<>> THEN <<>> ELSE <<word>>
           sound == <<AudioPart>>
           c == IF m.role = "assistant" /\ m.tool_calls # <<>> /\ m.content = <<>> THEN None
                ELSE IF m.role = "user" /\ audio THEN Parts(said \o sound)
                ELSE Text(m.content)
<1>1. x = [m EXCEPT !.content = c]
    BY DEF ToOpenAiMessage, AudioPart
<1>2. m.content \in Texts /\ m.tool_calls \in Seq(ToolCalls)
    BY DEF Messages
<1>3. /\ x.role = m.role /\ x.tool_calls = m.tool_calls
      /\ x.tool_call_id = m.tool_call_id /\ x.content = c
    <2> HIDE DEF c
    <2> QED
        BY <1>1 DEF Messages
<1>4. \A t \in {"tool_use", "tool_result", "input_audio"} : OfType(<<>>, t) = <<>>
    BY OfTypeEmpty
<1>5. CASE c = None /\ m.content = <<>> /\ m.role = "assistant"
    <2> HIDE DEF c
    <2>1. PartsOf(x.content) = <<>> /\ ContentText(x.content) = m.content
        BY <1>3, <1>5, ContentNull
    <2> QED
        BY <1>3, <1>4, <1>5, <2>1, TurnAlone
<1>6. CASE c = Text(m.content) /\ ~(m.role = "user" /\ audio)
    <2> HIDE DEF c
    <2>1. PartsOf(x.content) = <<>> /\ ContentText(x.content) = m.content
        BY <1>2, <1>3, <1>6, ContentPlain
    <2> QED
        BY <1>3, <1>4, <1>6, <2>1, TurnAlone
<1>7. CASE c = Parts(said \o sound) /\ m.role = "user" /\ audio
    <2>1. m.content # <<>> /\ said = <<word>>
        BY <1>7
    <2>2. word \in AllParts /\ AudioPart \in AllParts /\ word.type = "text" /\ word.s = m.content
            /\ AudioPart.type = "input_audio"
        BY <1>2 DEF AllParts, Blocks, AudioPart
    <2> HIDE DEF c, word, said, sound
    <2>3. said \in Seq(AllParts) /\ \A i \in DOMAIN said : said[i] = word
        BY <2>1, <2>2, OneIsSeq
    <2>4. sound \in Seq(AllParts) /\ \A i \in DOMAIN sound : sound[i] = AudioPart
        BY <2>2, OneIsSeq DEF sound
    <2>5. PartsOf(x.content) = said \o sound /\ ContentText(x.content) = Each(Tell, said \o sound)
        <3>1. said \o sound \in Seq(AllParts)
            BY <2>3, <2>4
        <3> QED
            BY <1>3, <1>7, <3>1, ContentParts
    <2>6. \A t \in {"tool_use", "tool_result", "input_audio"} : OfType(said, t) = <<>>
        BY <2>2, <2>3, OfTypeNone
    <2>7. \A t \in {"tool_use", "tool_result"} : OfType(sound, t) = <<>>
        BY <2>2, <2>4, OfTypeNone
    <2>8. OfType(sound, "input_audio") = sound
        BY <2>2, <2>4, OfTypeAll
    <2>9. Each(Tell, said) = m.content /\ Each(Tell, sound) = <<>>
        <3>1. Each(Tell, <<word>>) = Tell[word] /\ Each(Tell, <<AudioPart>>) = Tell[AudioPart]
            BY <2>2, TellType, EachOne
        <3>2. Tell[word] = m.content /\ Tell[AudioPart] = <<>>
            BY <2>2 DEF Tell
        <3> QED
            BY <2>1, <3>1, <3>2 DEF sound
    <2>10. Each(Tell, said \o sound) = m.content
        <3>1. Each(Tell, said \o sound) = Each(Tell, said) \o Each(Tell, sound)
            BY <2>3, <2>4, TellType, EachConcat
        <3> QED
            BY <1>2, <2>9, <3>1, TextsConcat
    <2>11. ASSUME NEW t PROVE OfType(said \o sound, t) = OfType(said, t) \o OfType(sound, t)
        BY <2>3, <2>4, OfTypeConcat
    <2>12. <<>> \o <<>> = <<>> /\ <<>> \o sound = sound
        BY <2>4
    <2>13. /\ OfType(PartsOf(x.content), "tool_use") = <<>> /\ OfType(PartsOf(x.content), "tool_result") = <<>>
           /\ OfType(PartsOf(x.content), "input_audio") = sound
        BY <2>5, <2>6, <2>7, <2>8, <2>11, <2>12
    <2> QED
        BY <1>3, <1>7, <2>1, <2>5, <2>10, <2>13, TurnAlone DEF sound
<1> QED
    BY <1>5, <1>6, <1>7

\* The turns of anthropic.rs: the prompt, a reply with its blocks, outputs.
Prompt(p) == [role |-> "user", text |-> p, blocks |-> None]
Raw(role, bs) == [role |-> role, text |-> <<>>, blocks |-> bs]

LEMMA TurnPrompt ==
    ASSUME NEW p \in Texts, p # <<>>, NEW x, x = AnthropicTurn(Prompt(p))
    PROVE  /\ Turn(x) = <<User(p)>> /\ User(p) \in Messages
           /\ OfType(PartsOf(x.content), "input_audio") = <<>>
<1>1. x = Message("user", Text(p), <<>>, None)
    BY DEF AnthropicTurn, Prompt
<1>2. x.role = "user" /\ x.content = Text(p) /\ x.tool_calls = <<>> /\ x.tool_call_id = None
    BY <1>1 DEF Message
<1>3. PartsOf(x.content) = <<>> /\ ContentText(x.content) = p
    BY <1>2, ContentPlain
<1>4. User(p) \in Messages
    BY DEF User, Message, Messages
<1>5. User(p).role = "user" /\ User(p).content = p /\ User(p).tool_calls = <<>> /\ User(p).tool_call_id = None
    BY DEF User, Message
<1> QED
    BY <1>2, <1>3, <1>4, <1>5, OfTypeEmpty, TurnAlone

LEMMA TurnRaw ==
    ASSUME NEW bs \in Seq(Blocks), NEW role, NEW x, x = AnthropicTurn(Raw(role, bs))
    PROVE  /\ x.role = role /\ x.tool_calls = <<>> /\ x.tool_call_id = None
           /\ PartsOf(x.content) = bs /\ ContentText(x.content) = Each(Tell, bs)
           /\ bs \in Seq(AllParts)
<1>1. bs # None /\ bs \in Seq(AllParts)
    <2>1. bs # None
        BY NoneAssumption
    <2>2. \A i \in 1..Len(bs) : bs[i] \in AllParts
        BY DEF AllParts
    <2>3. bs \in [1..Len(bs) -> AllParts] /\ Len(bs) \in Nat
        BY <2>2
    <2> QED
        BY <2>1, <2>3, FcnIsSeq
<1>2. x = Message(role, Parts(bs), <<>>, None)
    BY <1>1 DEF AnthropicTurn, Raw
<1>3. x.role = role /\ x.content = Parts(bs) /\ x.tool_calls = <<>> /\ x.tool_call_id = None
    BY <1>2 DEF Message
<1> QED
    BY <1>1, <1>3, ContentParts

LEMMA TurnReply ==
    ASSUME NEW es \in Seq(Events), NEW x,
           x = AnthropicTurn(Raw("assistant", AnthropicMessageBody(es).content))
    PROVE  /\ Turn(x) = <<Message("assistant", Joined(es, "text"), NormalCalls(Calls(es)), None)>>
           /\ OfType(PartsOf(x.content), "input_audio") = <<>>
<1> DEFINE content == AnthropicMessageBody(es).content
           us == UseBlocks(Calls(es))
           said == Joined(es, "text")
<1>1. /\ content \in Seq(Blocks) /\ OfType(content, "tool_use") = us
      /\ OfType(content, "tool_result") = <<>> /\ OfType(content, "input_audio") = <<>>
      /\ Each(Tell, content) = said
    BY BodyContent
<1>2. Calls(es) \in Seq(ToolCalls)
    BY CallsType
<1>3. [i \in DOMAIN us |-> CallOf(us[i], us[i].input)] = NormalCalls(Calls(es))
    BY <1>2, CallsOfBlocks
<1>4. x = AnthropicTurn(Raw("assistant", content))
    OBVIOUS
<1> HIDE DEF content, us, said
<1>5. /\ x.role = "assistant" /\ x.tool_calls = <<>> /\ x.tool_call_id = None
      /\ PartsOf(x.content) = content /\ ContentText(x.content) = said
    BY <1>1, <1>4, TurnRaw
<1> DEFINE told == [i \in DOMAIN <<>> |-> Message("tool", <<>>[i].s, <<>>, <<>>[i].id)]
           nc == NormalCalls(Calls(es))
<1>6. Turn(x) = told \o (IF said # <<>> \/ "assistant" \in {"assistant", "tool"} \/ <<>> \o nc # <<>>
                         THEN <<Message("assistant", said, <<>> \o nc, None)>> ELSE <<>>)
    BY <1>1, <1>3, <1>5, Zenon DEF Turn
<1>7. nc \in Seq(ToolCalls)
    BY <1>2, NormalCallsType
<1> HIDE DEF nc
<1>8. told = <<>> /\ <<>> \o nc = nc
    BY <1>7
<1> HIDE DEF told
<1> DEFINE m == Message("assistant", said, nc, None)
<1>9. Turn(x) = <<>> \o <<m>>
    BY <1>6, <1>8
<1> HIDE DEF m
<1>10. <<>> \o <<m>> = <<m>>
    OBVIOUS
<1> QED
    BY <1>1, <1>5, <1>9, <1>10 DEF m, nc, said

Outputs == [id : Ids, out : Texts]
ResultBlocks(rs) == [i \in DOMAIN rs |-> [type |-> "tool_result", id |-> rs[i].id, s |-> rs[i].out]]

LEMMA ToolMessagesType ==
    ASSUME NEW rs \in Seq(Outputs)
    PROVE  /\ ToolMessages(rs) \in Seq(Messages) /\ Len(ToolMessages(rs)) = Len(rs)
           /\ \A i \in 1..Len(rs) : /\ ToolMessages(rs)[i].role = "tool"
                                    /\ ToolMessages(rs)[i].tool_calls = <<>>
                                    /\ ToolMessages(rs)[i].tool_call_id = rs[i].id
<1>1. ASSUME NEW r \in Outputs
      PROVE  LET m == Message("tool", r.out, <<>>, r.id)
             IN  m \in Messages /\ m.role = "tool" /\ m.tool_calls = <<>> /\ m.tool_call_id = r.id
    BY DEF Outputs, Message, Messages
<1>2. \A i \in 1..Len(rs) : rs[i] \in Outputs
    OBVIOUS
<1>3. ToolMessages(rs) \in [1..Len(rs) -> Messages]
    BY <1>1, <1>2 DEF ToolMessages
<1>4. \A i \in 1..Len(rs) : ToolMessages(rs)[i] = Message("tool", rs[i].out, <<>>, rs[i].id)
    BY DEF ToolMessages
<1>5. ToolMessages(rs) \in Seq(Messages) /\ Len(ToolMessages(rs)) = Len(rs)
    BY <1>3, FcnIsSeq
<1> QED
    BY <1>1, <1>2, <1>4, <1>5

LEMMA TurnOutputs ==
    ASSUME NEW rs \in Seq(Outputs), NEW x, x = AnthropicTurn(Raw("user", ResultBlocks(rs)))
    PROVE  /\ Turn(x) = ToolMessages(rs) /\ ResultBlocks(rs) \in Seq(Blocks)
           /\ OfType(PartsOf(x.content), "input_audio") = <<>>
<1> DEFINE bs == ResultBlocks(rs)
<1>1. ASSUME NEW r \in Outputs
      PROVE  [type |-> "tool_result", id |-> r.id, s |-> r.out] \in Blocks
    BY DEF Outputs, Blocks
<1>2. \A i \in 1..Len(rs) : rs[i] \in Outputs
    OBVIOUS
<1>3. bs \in [1..Len(rs) -> Blocks] /\ DOMAIN bs = DOMAIN rs
    BY <1>1, <1>2 DEF ResultBlocks
<1>4. \A i \in DOMAIN bs : bs[i].type = "tool_result" /\ bs[i].s = rs[i].out /\ bs[i].id = rs[i].id
    BY DEF ResultBlocks
<1>5. x = AnthropicTurn(Raw("user", bs))
    OBVIOUS
<1> HIDE DEF bs
<1>6. bs \in Seq(Blocks)
    BY <1>3, FcnIsSeq
<1>7. /\ x.role = "user" /\ x.tool_calls = <<>> /\ x.tool_call_id = None
      /\ PartsOf(x.content) = bs /\ ContentText(x.content) = Each(Tell, bs)
      /\ bs \in Seq(AllParts)
    BY <1>5, <1>6, TurnRaw
<1>8. OfType(bs, "tool_use") = <<>> /\ OfType(bs, "input_audio") = <<>> /\ OfType(bs, "tool_result") = bs
    BY <1>4, <1>7, OfTypeNone, OfTypeAll
<1>9. Each(Tell, bs) = <<>>
    <2>1. \A i \in DOMAIN bs : Tell[bs[i]] = <<>>
        BY <1>4, <1>7 DEF Tell
    <2> QED
        BY <1>7, <2>1, EachDropped
<1>10. [i \in DOMAIN bs |-> Message("tool", bs[i].s, <<>>, bs[i].id)] = ToolMessages(rs)
    BY <1>3, <1>4 DEF ToolMessages
<1> DEFINE none == <<>> \o [i \in DOMAIN <<>> |-> CallOf(<<>>[i], <<>>[i].input)]
<1>11. Turn(x) = ToolMessages(rs) \o
                   (IF <<>> # <<>> \/ "user" \in {"assistant", "tool"} \/ none # <<>>
                    THEN <<Message("user", <<>>, none, None)>> ELSE <<>>)
    BY <1>7, <1>8, <1>9, <1>10, Zenon DEF Turn
<1>12. none = <<>>
    OBVIOUS
<1> HIDE DEF none
<1>13. Turn(x) = ToolMessages(rs) \o <<>>
    BY <1>11, <1>12
<1>14. ToolMessages(rs) \o <<>> = ToolMessages(rs)
    BY ToolMessagesType
<1> QED
    BY <1>6, <1>7, <1>8, <1>13, <1>14 DEF bs

-----------------------------------------------------------------------------
(* Conversations.                                                          *)

\* A conversation starts with what the user says, who says no more.
Opening(d) ==
    /\ d \in Seq(Messages) /\ d # <<>>
    /\ d[1].role = "user" /\ d[1].content # <<>>
    /\ \A i \in 2..Len(d) : d[i].role # "user"

LEMMA OpenAiBody ==
    ASSUME NEW d, Opening(d), NEW audio \in BOOLEAN, NEW msgs,
           msgs = [i \in DOMAIN d |-> ToOpenAiMessage(d[i], audio)]
    PROVE  /\ MessagesFromBody(msgs) = d
           /\ AudioParts(msgs) = IF audio THEN <<AudioPart>> ELSE <<>>
<1>1. d \in Seq(Messages) /\ DOMAIN d = 1..Len(d) /\ Len(d) \in Nat \ {0} /\ DOMAIN msgs = DOMAIN d
    BY DEF Opening
<1>2. ASSUME NEW i \in DOMAIN d
      PROVE  /\ Turn(msgs[i]) = <<d[i]>>
             /\ OfType(PartsOf(msgs[i].content), "input_audio")
                  = IF i = 1 /\ audio THEN <<AudioPart>> ELSE <<>>
    <2>1. d[i] \in Messages /\ (d[i].role = "user" <=> i = 1) /\ (i = 1 => d[i].content # <<>>)
        BY <1>1 DEF Opening
    <2>2. msgs[i] = ToOpenAiMessage(d[i], audio)
        OBVIOUS
    <2> QED
        BY <2>1, <2>2, TurnOpenAi
<1>3. MessagesFromBody(msgs) = d
    <2>1. [i \in DOMAIN msgs |-> Turn(msgs[i])] = [i \in DOMAIN d |-> <<d[i]>>]
        BY <1>1, <1>2
    <2>2. FlattenSeq([i \in DOMAIN d |-> <<d[i]>>]) = d
        BY <1>1, FlattenSingles
    <2> QED
        BY <2>1, <2>2, Zenon DEF MessagesFromBody
<1>4. AudioParts(msgs) = IF audio THEN <<AudioPart>> ELSE <<>>
    <2> DEFINE ss == [i \in DOMAIN msgs |-> OfType(PartsOf(msgs[i].content), "input_audio")]
               V == Seq({AudioPart})
    <2>1. AudioParts(msgs) = FlattenSeq(ss)
        BY DEF AudioParts
    <2>2. <<AudioPart>> \in V /\ <<>> \in V
        OBVIOUS
    <2>3. DOMAIN ss = 1..Len(d) /\ \A i \in 1..Len(d) : ss[i] = IF i = 1 /\ audio THEN <<AudioPart>> ELSE <<>>
        BY <1>1, <1>2
    <2>4. ss = [i \in 1..Len(d) |-> ss[i]]
        BY <1>1
    <2> HIDE DEF ss, V
    <2>5. ss \in [1..Len(d) -> V]
        BY <2>2, <2>3, <2>4
    <2>6. ss \in Seq(V) /\ Len(ss) = Len(d) /\ ss # <<>>
        BY <1>1, <2>5, FcnIsSeq
    <2>7. \A i \in 2..Len(ss) : ss[i] = <<>>
        BY <1>1, <2>3, <2>6
    <2>8. FlattenSeq(ss) = ss[1]
        BY <2>6, <2>7, FlattenFirst DEF V
    <2> QED
        BY <1>1, <2>1, <2>3, <2>8
<1> QED
    BY <1>3, <1>4

\* openai.rs sends no part that serve.rs does not know.
LEMMA OpenAiAcceptable ==
    ASSUME NEW d \in Seq(Messages), NEW audio \in BOOLEAN, NEW msgs,
           msgs = [i \in DOMAIN d |-> ToOpenAiMessage(d[i], audio)]
    PROVE  \A i \in DOMAIN msgs : Acceptable(msgs[i].content)
<1> SUFFICES ASSUME NEW i \in DOMAIN msgs PROVE Acceptable(msgs[i].content)
    OBVIOUS
<1> DEFINE m == d[i]
           word == [type |-> "text", s |-> m.content]
           said == IF m.content = <<>> THEN <<>> ELSE <<word>>
           ps == said \o <<AudioPart>>
           c == msgs[i].content
<1>1. m \in Messages /\ m.content \in Texts
    <2>1. m \in Messages
        OBVIOUS
    <2> QED
        BY <2>1 DEF Messages
<1>2. c \in {None, Parts(ps), Text(m.content)}
    <2>1. msgs[i] = ToOpenAiMessage(m, audio)
        OBVIOUS
    <2>2. "content" \in DOMAIN m
        BY <1>1 DEF Messages
    <2>3. c = IF m.role = "assistant" /\ m.tool_calls # <<>> /\ m.content = <<>> THEN None
              ELSE IF m.role = "user" /\ audio THEN Parts(ps) ELSE Text(m.content)
        BY <2>1, <2>2 DEF ToOpenAiMessage, AudioPart
    <2> QED
        BY <2>3, Zenon
<1>3. word \in AllParts /\ word.type = "text" /\ AudioPart \in AllParts /\ AudioPart.type = "input_audio"
    BY <1>1 DEF AllParts, Blocks, AudioPart
<1> HIDE DEF word, AudioPart
<1>4. ps \in Seq(AllParts) /\ \A j \in DOMAIN ps : ps[j] \in {word, AudioPart}
    <2>1. CASE m.content = <<>>
        BY <1>3, <2>1
    <2>2. CASE m.content # <<>>
        BY <1>3, <2>2
    <2> QED
        BY <2>1, <2>2
<1> HIDE DEF ps
<1>5. PartsOf(Parts(ps)) = ps
    BY <1>4, ContentParts
<1>6. CASE c = Parts(ps)
    BY <1>3, <1>4, <1>5, <1>6 DEF Acceptable, Known
<1>7. CASE c \in {None, Text(m.content)}
    <2>1. PartsOf(c) = <<>>
        BY <1>1, <1>7, ContentNull, ContentPlain
    <2> QED
        BY <2>1 DEF Acceptable
<1> QED
    BY <1>2, <1>6, <1>7

\* Turns that serve.rs reads as messages, and that carry no audio.
GoodTurns ==
    {t \in [role : {"user", "assistant"}, text : Texts, blocks : Seq(Blocks) \cup {None}] :
        /\ Turn(AnthropicTurn(t)) \in Seq(Messages)
        /\ OfType(PartsOf(AnthropicTurn(t).content), "input_audio") = <<>>}
TurnOf == [t \in GoodTurns |-> Turn(AnthropicTurn(t))]

LEMMA TurnOfType == Maps(TurnOf, GoodTurns, Messages)
BY DEF TurnOf, Maps, GoodTurns

LEMMA AnthropicBody ==
    ASSUME NEW h \in Seq(GoodTurns), NEW msgs, msgs = [i \in DOMAIN h |-> AnthropicTurn(h[i])]
    PROVE  MessagesFromBody(msgs) = Each(TurnOf, h) /\ AudioParts(msgs) = <<>>
<1>1. \A i \in DOMAIN h : h[i] \in GoodTurns
    OBVIOUS
<1>2. DOMAIN msgs = DOMAIN h /\ \A i \in DOMAIN h : msgs[i] = AnthropicTurn(h[i])
    OBVIOUS
<1>3. [i \in DOMAIN msgs |-> Turn(msgs[i])] = [i \in DOMAIN h |-> TurnOf[h[i]]]
    BY <1>1, <1>2 DEF TurnOf
<1>4. MessagesFromBody(msgs) = Each(TurnOf, h)
    BY <1>3, Zenon DEF MessagesFromBody, Each
<1> DEFINE F == [t \in GoodTurns |-> OfType(PartsOf(AnthropicTurn(t).content), "input_audio")]
<1>5. [i \in DOMAIN msgs |-> OfType(PartsOf(msgs[i].content), "input_audio")] = [i \in DOMAIN h |-> F[h[i]]]
    BY <1>1, <1>2
<1>6. \A i \in DOMAIN h : F[h[i]] = <<>>
    BY <1>1 DEF GoodTurns
<1>7. AudioParts(msgs) = Each(F, h)
    BY <1>5, Zenon DEF AudioParts, Each
<1> HIDE DEF F
<1>8. Each(F, h) = <<>>
    BY <1>6, EachDropped
<1> QED
    BY <1>4, <1>7, <1>8

\* What NormalMessages makes of messages put together.
NormalMessage(m) == [m EXCEPT !.tool_calls = NormalCalls(@)]

LEMMA NormalMessageType ==
    ASSUME NEW m \in Messages
    PROVE  /\ NormalMessage(m) \in Messages
           /\ NormalMessage(m) = Message(m.role, m.content, NormalCalls(m.tool_calls), m.tool_call_id)
<1> DEFINE cs == NormalCalls(m.tool_calls)
<1>1. cs \in Seq(ToolCalls)
    BY NormalCallsType DEF Messages
<1>2. NormalMessage(m) = [m EXCEPT !.tool_calls = cs]
    BY DEF NormalMessage
<1> HIDE DEF cs
<1>3. [m EXCEPT !.tool_calls = cs] = Message(m.role, m.content, cs, m.tool_call_id)
    BY DEF Messages, Message
<1>4. Message(m.role, m.content, cs, m.tool_call_id) \in Messages
    BY <1>1 DEF Messages, Message
<1> QED
    BY <1>2, <1>3, <1>4 DEF cs

LEMMA NormalType ==
    ASSUME NEW d \in Seq(Messages)
    PROVE  /\ NormalMessages(d) \in Seq(Messages) /\ Len(NormalMessages(d)) = Len(d)
           /\ \A i \in 1..Len(d) : NormalMessages(d)[i] = NormalMessage(d[i])
<1>1. \A i \in 1..Len(d) : d[i] \in Messages
    OBVIOUS
<1>2. \A i \in 1..Len(d) : NormalMessages(d)[i] = NormalMessage(d[i])
    BY DEF NormalMessages, NormalMessage
<1>3. NormalMessages(d) = [i \in 1..Len(d) |-> NormalMessages(d)[i]]
    BY DEF NormalMessages
<1>4. NormalMessages(d) \in [1..Len(d) -> Messages]
    BY <1>1, <1>2, <1>3, NormalMessageType
<1> QED
    BY <1>2, <1>4, FcnIsSeq

LEMMA NormalConcat ==
    ASSUME NEW d \in Seq(Messages), NEW e \in Seq(Messages)
    PROVE  NormalMessages(d \o e) = NormalMessages(d) \o NormalMessages(e)
<1> DEFINE x == NormalMessages(d)
           y == NormalMessages(e)
           z == NormalMessages(d \o e)
<1>1. /\ x \in Seq(Messages) /\ Len(x) = Len(d) /\ \A i \in 1..Len(d) : x[i] = NormalMessage(d[i])
    BY NormalType
<1>2. /\ y \in Seq(Messages) /\ Len(y) = Len(e) /\ \A i \in 1..Len(e) : y[i] = NormalMessage(e[i])
    BY NormalType
<1>0. d \o e \in Seq(Messages) /\ Len(d \o e) = Len(d) + Len(e)
    OBVIOUS
<1>3. /\ z \in Seq(Messages) /\ Len(z) = Len(d) + Len(e)
      /\ \A i \in 1..Len(d) + Len(e) : z[i] = NormalMessage((d \o e)[i])
    BY <1>0, NormalType
<1> HIDE DEF x, y, z
<1>4. x \o y \in Seq(Messages) /\ Len(x \o y) = Len(d) + Len(e)
    <2>1. x \in Seq(Messages) /\ y \in Seq(Messages)
        BY <1>1, <1>2
    <2>2. x \o y \in Seq(Messages) /\ Len(x \o y) = Len(x) + Len(y)
        BY <2>1, ConcatProperties
    <2> QED
        BY <1>1, <1>2, <2>2
<1>5. ASSUME NEW i \in 1..Len(d) + Len(e) PROVE z[i] = (x \o y)[i]
    <2>1. CASE i <= Len(d)
        <3>1. (d \o e)[i] = d[i] /\ (x \o y)[i] = x[i] /\ i \in 1..Len(d)
            BY <1>1, <1>2, <2>1
        <3> QED
            BY <1>1, <1>3, <3>1
    <2>2. CASE i > Len(d)
        <3>1. (d \o e)[i] = e[i - Len(d)] /\ (x \o y)[i] = y[i - Len(d)] /\ i - Len(d) \in 1..Len(e)
            BY <1>1, <1>2, <2>2
        <3> QED
            BY <1>2, <1>3, <3>1
    <2>3. i <= Len(d) \/ i > Len(d)
        OBVIOUS
    <2> QED
        BY <2>1, <2>2, <2>3
<1>6. z = x \o y
    BY <1>3, <1>4, <1>5, SeqEqual
<1> QED
    BY <1>6 DEF x, y, z

LEMMA NormalOne ==
    ASSUME NEW m \in Messages PROVE NormalMessages(<<m>>) = <<NormalMessage(m)>>
<1>1. <<m>> \in Seq(Messages) /\ Len(<<m>>) = 1 /\ <<m>>[1] = m
    OBVIOUS
<1>2. NormalMessages(<<m>>) = [i \in 1..1 |-> NormalMessage(m)]
    BY DEF NormalMessages, NormalMessage
<1> QED
    BY <1>2

LEMMA NormalTool ==
    ASSUME NEW rs \in Seq(Outputs) PROVE NormalMessages(ToolMessages(rs)) = ToolMessages(rs)
<1> DEFINE x == ToolMessages(rs)
           y == NormalMessages(x)
<1>1. x \in Seq(Messages) /\ \A i \in 1..Len(x) : x[i].tool_calls = <<>>
    BY ToolMessagesType
<1>2. y \in Seq(Messages) /\ Len(y) = Len(x) /\ \A i \in 1..Len(x) : y[i] = NormalMessage(x[i])
    BY <1>1, NormalType
<1> HIDE DEF x, y
<1>3. ASSUME NEW i \in 1..Len(x) PROVE y[i] = x[i]
    <2>1. x[i] \in Messages /\ x[i].tool_calls = <<>>
        BY <1>1
    <2>2. NormalCalls(<<>>) = <<>>
        BY DEF NormalCalls
    <2> QED
        BY <1>2, <2>1, <2>2, NormalMessageType, MessageEq
<1>4. y = x
    BY <1>1, <1>2, <1>3, SeqEqual
<1> QED
    BY <1>4 DEF x, y

-----------------------------------------------------------------------------
(* The history of a transport against the direct one.                      *)

Jobs ==
    [transport : Transports, structured : BOOLEAN, pref : {"auto", "native", "asr"},
     audio : BOOLEAN, capable : BOOLEAN, tools : ToolSets]

JobOK == job \in Jobs /\ (job.transport = "anthropic" => ~job.capable)

WireInv(h, d) ==
    IF job.transport = "anthropic" THEN h \in Seq(GoodTurns) /\ Each(TurnOf, h) = NormalMessages(d)
    ELSE h = d

\* A turn more is its messages more.
LEMMA WireAppend ==
    ASSUME job.transport = "anthropic", NEW h, NEW d \in Seq(Messages), WireInv(h, d),
           NEW e \in Seq(Messages), NEW t \in GoodTurns,
           Turn(AnthropicTurn(t)) = NormalMessages(e)
    PROVE  WireInv(Append(h, t), d \o e)
<1>1. h \in Seq(GoodTurns) /\ Each(TurnOf, h) = NormalMessages(d)
    BY DEF WireInv
<1>2. Append(h, t) = h \o <<t>> /\ <<t>> \in Seq(GoodTurns) /\ Append(h, t) \in Seq(GoodTurns)
    BY <1>1
<1>3. Each(TurnOf, <<t>>) = NormalMessages(e)
    BY TurnOfType, EachOne DEF TurnOf
<1>4. Each(TurnOf, h \o <<t>>) = Each(TurnOf, h) \o Each(TurnOf, <<t>>)
    <2> DEFINE one == <<t>>
    <2>1. one \in Seq(GoodTurns)
        BY <1>2
    <2> HIDE DEF one
    <2>2. Each(TurnOf, h \o one) = Each(TurnOf, h) \o Each(TurnOf, one)
        BY <1>1, <2>1, TurnOfType, EachConcat
    <2> QED
        BY <2>2 DEF one
<1>5. NormalMessages(d \o e) = NormalMessages(d) \o NormalMessages(e)
    BY NormalConcat
<1> QED
    BY <1>1, <1>2, <1>3, <1>4, <1>5 DEF WireInv

LEMMA WireResults ==
    ASSUME NEW h, NEW d \in Seq(Messages), WireInv(h, d), results \in Seq(Outputs)
    PROVE  WireInv(PushResults(h), d \o ToolMessages(results))
<1>1. CASE job.transport # "anthropic"
    BY <1>1 DEF WireInv, PushResults
<1>2. CASE job.transport = "anthropic" /\ results = <<>>
    <2>1. ToolMessages(results) = <<>>
        BY <1>2 DEF ToolMessages
    <2>2. d \o <<>> = d
        OBVIOUS
    <2> QED
        BY <1>2, <2>1, <2>2 DEF WireInv, PushResults
<1>3. CASE job.transport = "anthropic" /\ results # <<>>
    <2> DEFINE t == Raw("user", ResultBlocks(results))
    <2>1. PushResults(h) = Append(h, t)
        BY <1>3 DEF PushResults, Raw, ResultBlocks
    <2>2. /\ Turn(AnthropicTurn(t)) = ToolMessages(results) /\ ResultBlocks(results) \in Seq(Blocks)
          /\ OfType(PartsOf(AnthropicTurn(t).content), "input_audio") = <<>>
        BY TurnOutputs
    <2>3. ToolMessages(results) \in Seq(Messages) /\ NormalMessages(ToolMessages(results)) = ToolMessages(results)
        BY ToolMessagesType, NormalTool
    <2>4. t \in [role : {"user", "assistant"}, text : Texts, blocks : Seq(Blocks) \cup {None}]
        BY <2>2, TextsConcat DEF Raw
    <2> HIDE DEF t
    <2>5. t \in GoodTurns
        BY <2>2, <2>3, <2>4 DEF GoodTurns
    <2> QED
        BY <1>3, <2>1, <2>2, <2>3, <2>5, WireAppend
<1> QED
    BY <1>1, <1>2, <1>3

\* The calls that the client hears, and the turn that it remembers.
Reply(es) == Message("assistant", Joined(es, "text"), Calls(es), None)

LEMMA ReplyType == ASSUME NEW es \in Seq(Events) PROVE Reply(es) \in Messages
<1>1. Joined(es, "text") \in Texts /\ Calls(es) \in Seq(ToolCalls)
    BY JoinedIs, CallsType DEF Kinds
<1> QED
    BY <1>1 DEF Reply, Message, Messages

LEMMA HeardCalls ==
    ASSUME NEW es \in Seq(Events)
    PROVE  Calls(Heard(es)) = IF job.transport = "anthropic" THEN NormalCalls(Calls(es)) ELSE Calls(es)
<1>1. CASE job.transport = "openai"
    BY <1>1, HeardByOpenAi DEF Heard
<1>2. CASE job.transport = "anthropic"
    BY <1>2, HeardByAnthropic DEF Heard
<1>3. CASE job.transport \notin {"openai", "anthropic"}
    BY <1>3 DEF Heard
<1> QED
    BY <1>1, <1>2, <1>3

LEMMA WireCalls ==
    ASSUME NEW h, NEW d \in Seq(Messages), WireInv(h, d), NEW es \in Seq(Events), Calls(es) # <<>>
    PROVE  WireInv(PushCalls(h, Heard(es)), Append(d, Reply(es)))
<1>1. Reply(es) \in Messages /\ Calls(es) \in Seq(ToolCalls)
    BY ReplyType, CallsType
<1>2. Calls(Heard(es)) # <<>>
    BY <1>1, HeardCalls, NormalCallsType
<1>3. CASE job.transport # "anthropic"
    <2>1. Joined(Heard(es), "text") = Joined(es, "text") /\ Calls(Heard(es)) = Calls(es)
        <3>1. CASE job.transport = "openai"
            BY <3>1, HeardByOpenAi DEF Heard
        <3>2. CASE job.transport # "openai"
            BY <1>3, <3>2 DEF Heard
        <3> QED
            BY <3>1, <3>2
    <2>2. PushCalls(h, Heard(es)) = Append(h, Reply(es))
        BY <1>2, <1>3, <2>1 DEF PushCalls, Reply
    <2> QED
        BY <1>3, <2>2 DEF WireInv
<1>4. CASE job.transport = "anthropic"
    <2> DEFINE content == AnthropicMessageBody(es).content
               t == Raw("assistant", content)
               heard == Heard(es)
               use == CHOOSE i \in DOMAIN heard : heard[i].k = "calls"
    <2>1. heard = ParseMessage(AnthropicMessageBody(es))
        BY <1>4 DEF Heard
    <2>2. heard[use].content = content
        BY <2>1, HeardByAnthropic
    <2>3. PushCalls(h, heard) = Append(h, t)
        <3>1. PushCalls(h, heard) = Append(h, [role |-> "assistant", text |-> <<>>, blocks |-> heard[use].content])
            BY <1>2, <1>4, Zenon DEF PushCalls
        <3> HIDE DEF heard, use, content
        <3> QED
            BY <2>2, <3>1 DEF Raw
    <2>4. /\ Turn(AnthropicTurn(t)) = <<Message("assistant", Joined(es, "text"), NormalCalls(Calls(es)), None)>>
          /\ OfType(PartsOf(AnthropicTurn(t).content), "input_audio") = <<>>
        BY TurnReply
    <2>5. content \in Seq(Blocks)
        BY BodyContent
    <2>6. NormalMessages(<<Reply(es)>>) = Turn(AnthropicTurn(t)) /\ NormalMessage(Reply(es)) \in Messages
        <3>1. /\ NormalMessage(Reply(es)) \in Messages
              /\ NormalMessage(Reply(es)) = Message(Reply(es).role, Reply(es).content,
                                                    NormalCalls(Reply(es).tool_calls), Reply(es).tool_call_id)
            BY <1>1, NormalMessageType
        <3>2. /\ Reply(es).role = "assistant" /\ Reply(es).content = Joined(es, "text")
              /\ Reply(es).tool_calls = Calls(es) /\ Reply(es).tool_call_id = None
            BY DEF Reply, Message
        <3>3. NormalMessages(<<Reply(es)>>) = <<NormalMessage(Reply(es))>>
            BY <1>1, NormalOne
        <3> HIDE DEF t
        <3> QED
            BY <2>4, <3>1, <3>2, <3>3
    <2>7. t \in [role : {"user", "assistant"}, text : Texts, blocks : Seq(Blocks) \cup {None}]
        <3> HIDE DEF content
        <3> QED
            BY <2>5, TextsConcat DEF Raw
    <2>8. <<Reply(es)>> \in Seq(Messages) /\ Append(d, Reply(es)) = d \o <<Reply(es)>>
        BY <1>1
    <2> HIDE DEF t, heard
    <2>9. Turn(AnthropicTurn(t)) \in Seq(Messages)
        BY <1>1, <2>6, <2>8, NormalType
    <2>10. t \in GoodTurns
        BY <2>4, <2>7, <2>9 DEF GoodTurns
    <2>11. WireInv(Append(h, t), d \o <<Reply(es)>>)
        BY <1>4, <2>6, <2>8, <2>10, WireAppend
    <2> QED
        BY <2>3, <2>8, <2>11 DEF heard
<1> QED
    BY <1>3, <1>4

\* What the engine gets is the direct conversation, as far as JSON lets it.
LEMMA DeliveredIs ==
    ASSUME JobOK, NEW h, NEW d, Opening(d), WireInv(h, d), NEW got, got = Delivered(h), got # None
    PROVE  /\ got.messages = Normal(d) /\ got.audio = WithAudio
           /\ job.structured \/ got.tools = job.tools
           /\ got.tools \subseteq ToolNames
<1> DEFINE asked == ClientTools(job.transport, job.tools, job.structured)
           T(tools, choice) == EngineTools(tools, choice)
<1>1. job.tools \subseteq ToolNames /\ AnswerTool \in ToolNames
    <2>1. job.tools \in ToolSets
        BY DEF JobOK, Jobs
    <2>2. \A x \in job.tools : x \in UNION ToolSets
        BY <2>1
    <2> QED
        BY <2>2 DEF ToolNames
<1>2. asked.tools \subseteq ToolNames /\ (~job.structured => asked.tools = job.tools /\ asked.choice = None)
    BY <1>1 DEF ClientTools
<1>3. job.transport # "anthropic" => asked.tools = job.tools /\ asked.choice = None
    BY DEF ClientTools
<1> HIDE DEF asked
<1>4. \A tools, choice : T(tools, choice).tools \subseteq tools /\ (choice = None => T(tools, choice).tools = tools)
    BY DEF EngineTools
<1> HIDE DEF T
<1>5. WithAudio \in BOOLEAN /\ (job.transport = "anthropic" => ~WithAudio)
    BY DEF WithAudio, SelectAudioRoute, JobOK, Jobs
<1>6. CASE job.transport = "openai"
    <2> DEFINE msgs == [i \in DOMAIN h |-> ToOpenAiMessage(h[i], WithAudio)]
    <2>1. got = Received(msgs, asked, TRUE) /\ h = d
        BY <1>6 DEF Delivered, asked, WireInv
    <2>2. MessagesFromBody(msgs) = d /\ AudioParts(msgs) = IF WithAudio THEN <<AudioPart>> ELSE <<>>
        BY <1>5, <2>1, OpenAiBody
    <2> HIDE DEF msgs
    <2>3. got = GenerateRequest(MessagesFromBody(msgs), Len(AudioParts(msgs)) = 1, asked.schema,
                                T(asked.tools, asked.choice))
        BY <2>1 DEF Received, T
    <2>4. (Len(AudioParts(msgs)) = 1) = WithAudio
        BY <1>5, <2>2
    <2>5. /\ got.messages = d /\ got.audio = (Len(AudioParts(msgs)) = 1)
          /\ got.tools = T(asked.tools, asked.choice).tools
        BY <2>2, <2>3 DEF GenerateRequest
    <2> QED
        BY <1>2, <1>3, <1>4, <1>6, <2>4, <2>5 DEF Normal
<1>7. CASE job.transport = "anthropic"
    <2> DEFINE msgs == [i \in DOMAIN h |-> AnthropicTurn(h[i])]
    <2>1. got = Received(msgs, asked, FALSE)
        BY <1>7 DEF Delivered, asked
    <2>2. MessagesFromBody(msgs) = NormalMessages(d) /\ AudioParts(msgs) = <<>>
        BY <1>7, AnthropicBody DEF WireInv
    <2> HIDE DEF msgs
    <2>3. got = GenerateRequest(MessagesFromBody(msgs), Len(AudioParts(msgs)) = 1, asked.schema,
                                T(asked.tools, asked.choice))
        BY <2>1 DEF Received, T
    <2>4. (Len(AudioParts(msgs)) = 1) = WithAudio
        BY <1>5, <1>7, <2>2
    <2>5. /\ got.messages = NormalMessages(d) /\ got.audio = (Len(AudioParts(msgs)) = 1)
          /\ got.tools = T(asked.tools, asked.choice).tools
        BY <2>2, <2>3 DEF GenerateRequest
    <2> QED
        BY <1>2, <1>4, <1>7, <2>4, <2>5 DEF Normal
<1>8. CASE job.transport \notin {"openai", "anthropic"}
    <2>1. got = GenerateRequest(h, WithAudio, asked.schema, T(asked.tools, None)) /\ h = d
        BY <1>8 DEF Delivered, asked, T, WireInv
    <2>2. got.messages = d /\ got.audio = WithAudio /\ got.tools = T(asked.tools, None).tools
        BY <2>1 DEF GenerateRequest
    <2> QED
        BY <1>2, <1>3, <1>4, <1>8, <2>2 DEF Normal
<1> QED
    BY <1>6, <1>7, <1>8

\* What a client may ask for is a request that an engine may get.
LEMMA RequestType ==
    ASSUME JobOK, NEW asked, asked = ClientTools(job.transport, job.tools, job.structured),
           NEW ms \in Seq(Messages), NEW audio \in BOOLEAN, NEW choice \in {asked.choice, None}
    PROVE  GenerateRequest(ms, audio, asked.schema, EngineTools(asked.tools, choice)) # None
<1> DEFINE o == EngineTools(asked.tools, choice)
           g == GenerateRequest(ms, audio, asked.schema, o)
<1>1. job.tools \subseteq ToolNames /\ AnswerTool \in ToolNames /\ job.structured \in BOOLEAN
    <2>1. job.tools \in ToolSets /\ job.structured \in BOOLEAN
        BY DEF JobOK, Jobs
    <2>2. \A x \in job.tools : x \in UNION ToolSets
        BY <2>1
    <2> QED
        BY <2>1, <2>2 DEF ToolNames
<1>2. asked.tools \subseteq ToolNames /\ asked.schema \in BOOLEAN
    BY <1>1 DEF ClientTools
<1>3. choice = None \/ choice.type = "tool"
    BY DEF ClientTools
<1>4. o.tools \subseteq asked.tools /\ o.choice \in {None, "auto", "required"}
    BY <1>3 DEF EngineTools
<1> HIDE DEF o
<1>5. g \in EngineRequests
    BY <1>2, <1>4 DEF GenerateRequest, EngineRequests
<1> QED
    BY <1>5, NoneAssumption DEF o

\* A turn that serve.rs does not take has a thinking block.
LEMMA NotAcceptable ==
    ASSUME NEW t \in GoodTurns, ~Acceptable(AnthropicTurn(t).content)
    PROVE  t.blocks # None /\ OfType(t.blocks, "thinking") # <<>>
<1>1. t.text \in Texts /\ t.blocks \in Seq(Blocks) \cup {None}
    BY DEF GoodTurns
<1>2. AnthropicTurn(t).content = IF t.blocks # None THEN Parts(t.blocks) ELSE Text(t.text)
    BY DEF AnthropicTurn, Message
<1>3. t.blocks # None
    <2> SUFFICES ASSUME t.blocks = None PROVE FALSE
        OBVIOUS
    <2>1. PartsOf(AnthropicTurn(t).content) = <<>>
        BY <1>1, <1>2, ContentPlain
    <2> QED
        BY <2>1 DEF Acceptable
<1>4. t.blocks \in Seq(AllParts)
    <2>1. \A b \in Blocks : b \in AllParts
        BY DEF AllParts
    <2> HIDE DEF Blocks, AllParts
    <2> QED
        BY <1>1, <1>3, <2>1
<1>5. PartsOf(AnthropicTurn(t).content) = t.blocks
    BY <1>2, <1>3, <1>4, ContentParts
<1>6. PICK i \in DOMAIN t.blocks : t.blocks[i].type \notin Known
    BY <1>5 DEF Acceptable
<1>7. t.blocks[i] \in Blocks
    BY <1>1, <1>3
<1>8. t.blocks[i].type = "thinking"
    BY <1>6, <1>7 DEF Blocks, Known
<1>9. OfType(t.blocks, "thinking") # <<>>
    BY <1>4, <1>6, <1>8, OfTypeSome
<1> QED
    BY <1>3, <1>9

\* The server refuses a request for nothing but a thinking block.
LEMMA RefusedIs ==
    ASSUME JobOK, NEW h, NEW d, Opening(d), WireInv(h, d), Delivered(h) = None
    PROVE  /\ job.transport = "anthropic"
           /\ \E i \in DOMAIN h : h[i].blocks # None /\ OfType(h[i].blocks, "thinking") # <<>>
<1> DEFINE asked == ClientTools(job.transport, job.tools, job.structured)
<1>1. WithAudio \in BOOLEAN /\ d \in Seq(Messages) /\ d # <<>>
    BY DEF WithAudio, SelectAudioRoute, JobOK, Jobs, Opening
<1>2. ASSUME NEW ms \in Seq(Messages), NEW audio \in BOOLEAN, NEW choice \in {asked.choice, None}
      PROVE  GenerateRequest(ms, audio, asked.schema, EngineTools(asked.tools, choice)) # None
    BY RequestType
<1>3. CASE job.transport = "openai"
    <2> DEFINE msgs == [i \in DOMAIN h |-> ToOpenAiMessage(h[i], WithAudio)]
    <2>1. Received(msgs, asked, TRUE) = None /\ h = d
        BY <1>3 DEF Delivered, WireInv
    <2>2. MessagesFromBody(msgs) = d /\ AudioParts(msgs) = IF WithAudio THEN <<AudioPart>> ELSE <<>>
        BY <1>1, <2>1, OpenAiBody
    <2>3. \A i \in DOMAIN msgs : Acceptable(msgs[i].content)
        BY <1>1, <2>1, OpenAiAcceptable
    <2> HIDE DEF msgs, asked
    <2>4. Len(AudioParts(msgs)) \in {0, 1}
        BY <1>1, <2>2
    <2>5. GenerateRequest(MessagesFromBody(msgs), Len(AudioParts(msgs)) = 1, asked.schema,
                          EngineTools(asked.tools, asked.choice)) = None
        BY <1>1, <2>1, <2>2, <2>3, <2>4 DEF Received
    <2> QED
        BY <1>1, <1>2, <2>2, <2>5
<1>4. CASE job.transport = "anthropic"
    <2> DEFINE msgs == [i \in DOMAIN h |-> AnthropicTurn(h[i])]
    <2>1. Received(msgs, asked, FALSE) = None /\ h \in Seq(GoodTurns)
        BY <1>4 DEF Delivered, WireInv
    <2>2. MessagesFromBody(msgs) = NormalMessages(d) /\ AudioParts(msgs) = <<>>
        BY <1>4, AnthropicBody DEF WireInv
    <2>3. NormalMessages(d) \in Seq(Messages) /\ Len(NormalMessages(d)) = Len(d)
        BY <1>1, NormalType
    <2>4. DOMAIN msgs = DOMAIN h /\ \A i \in DOMAIN h : msgs[i] = AnthropicTurn(h[i]) /\ h[i] \in GoodTurns
        BY <2>1
    <2> HIDE DEF msgs, asked
    <2>5. Len(AudioParts(msgs)) = 0 /\ MessagesFromBody(msgs) # <<>>
        BY <1>1, <2>2, <2>3
    <2>6. GenerateRequest(MessagesFromBody(msgs), Len(AudioParts(msgs)) = 1, asked.schema,
                          EngineTools(asked.tools, asked.choice)) # None
        BY <1>2, <2>2, <2>3
    <2>7. PICK i \in DOMAIN msgs : ~Acceptable(msgs[i].content)
        BY <2>1, <2>5, <2>6 DEF Received
    <2>8. h[i].blocks # None /\ OfType(h[i].blocks, "thinking") # <<>>
        BY <2>4, <2>7, NotAcceptable
    <2> QED
        BY <1>4, <2>4, <2>8
<1>5. CASE job.transport \notin {"openai", "anthropic"}
    <2>1. GenerateRequest(d, WithAudio, asked.schema, EngineTools(asked.tools, None)) = None
        BY <1>5 DEF Delivered, WireInv
    <2> HIDE DEF asked
    <2> QED
        BY <1>1, <1>2, <2>1
<1> QED
    BY <1>3, <1>4, <1>5

-----------------------------------------------------------------------------
(* Replies.                                                                *)

Quiet == [k : Kinds, s : Texts] \cup [k : {"usage", "done"}]
FoldStates ==
    [ready : Seq(Quiet), show : BOOLEAN, emitted : BOOLEAN, finished : BOOLEAN, failed : BOOLEAN]

LEMMA PieceType == ASSUME NEW k \in Kinds, NEW x \in Texts PROVE Piece(k, x) \in Seq(Quiet)
<1> DEFINE e == [k |-> k, s |-> x]
<1>1. e \in Quiet /\ (Piece(k, x) = <<e>> \/ Piece(k, x) = <<>>)
    BY DEF Quiet, Piece
<1> HIDE DEF e
<1> QED
    BY <1>1, OneIsSeq

LEMMA CloseType == ASSUME NEW f \in FoldStates PROVE Close(f) \in FoldStates
<1> DEFINE ends == <<[k |-> "usage"], [k |-> "done"]>>
<1>1. ends \in Seq(Quiet)
    <2>1. [k |-> "usage"] \in Quiet /\ [k |-> "done"] \in Quiet
        BY DEF Quiet
    <2> QED
        BY <2>1
<1>2. Close(f) = IF f.finished THEN f ELSE [f EXCEPT !.ready = @ \o ends, !.finished = TRUE]
    BY DEF Close
<1> HIDE DEF ends
<1>3. f.ready \o ends \in Seq(Quiet)
    BY <1>1 DEF FoldStates
<1> QED
    BY <1>2, <1>3 DEF FoldStates

LEMMA FoldStepType ==
    ASSUME NEW f \in FoldStates, NEW r \in MistralResponses PROVE FoldStep(f, r) \in FoldStates
<1> DEFINE shown(x) == IF f.show THEN Piece("reasoning", x) ELSE <<>>
<1>1. f.ready \in Seq(Quiet)
    BY DEF FoldStates
<1>2. ASSUME NEW x \in Texts PROVE shown(x) \in Seq(Quiet)
    BY PieceType DEF Kinds
<1>3. \A a, b \in Seq(Quiet) : a \o b \in Seq(Quiet)
    BY ConcatProperties
<1>4. CASE r.kind = "chunk"
    <2>1. r.text \in Texts /\ r.reasoning \in Texts /\ r.calls \in Texts
        BY <1>4 DEF MistralResponses
    <2> DEFINE a == Piece("text", r.text)
               b == shown(r.reasoning)
               c == Piece("text", r.calls)
               v == ((f.ready \o a) \o b) \o c
               w == f.emitted \/ r.text # <<>> \/ r.calls # <<>>
    <2>2. a \in Seq(Quiet) /\ b \in Seq(Quiet) /\ c \in Seq(Quiet)
        BY <1>2, <2>1, PieceType DEF Kinds
    <2>3. AbsorbChunk(f, r) = [f EXCEPT !.ready = v, !.emitted = w]
        BY DEF AbsorbChunk
    <2>4. v \in Seq(Quiet)
        <3> HIDE DEF a, b, c
        <3> QED
            BY <1>1, <1>3, <2>2
    <2>5. w \in BOOLEAN
        BY DEF FoldStates
    <2> HIDE DEF v, w
    <2>6. AbsorbChunk(f, r) \in FoldStates
        BY <2>3, <2>4, <2>5 DEF FoldStates
    <2> QED
        BY <1>4, <2>6, CloseType DEF FoldStep
<1>5. CASE r.kind = "done"
    <2>1. r.text \in Texts /\ r.reasoning \in Texts
        BY <1>5 DEF MistralResponses
    <2> DEFINE a == Piece("text", r.text)
               b == shown(r.reasoning)
               v == (f.ready \o a) \o b
    <2>2. a \in Seq(Quiet) /\ b \in Seq(Quiet)
        BY <1>2, <2>1, PieceType DEF Kinds
    <2>3. AbsorbDone(f, r) = IF f.emitted THEN f ELSE [f EXCEPT !.ready = v]
        BY DEF AbsorbDone
    <2>4. v \in Seq(Quiet)
        <3> HIDE DEF a, b
        <3> QED
            BY <1>1, <1>3, <2>2
    <2> HIDE DEF v
    <2>6. AbsorbDone(f, r) \in FoldStates
        BY <2>3, <2>4 DEF FoldStates
    <2> QED
        BY <1>5, <2>6, CloseType DEF FoldStep
<1>6. CASE r.kind \notin {"chunk", "done"}
    BY <1>6 DEF FoldStep, FoldStates
<1> QED
    BY <1>4, <1>5, <1>6

\* mistral.rs never calls a tool.
LEMMA FoldType ==
    ASSUME NEW rs \in Seq(MistralResponses), NEW show \in BOOLEAN
    PROVE  Fold(rs, show) \in FoldStates
<1> DEFINE n == Len(rs)
           start == [ready |-> <<>>, show |-> show, emitted |-> FALSE, finished |-> FALSE, failed |-> FALSE]
           Is(f) == f = [i \in 0..n |-> IF i = 0 THEN start ELSE FoldStep(f[i - 1], rs[i])]
           f0 == CHOOSE f : Is(f)
           step == [p \in (1..n) \X FoldStates |-> FoldStep(p[2], rs[p[1]])]
<1>1. n \in Nat /\ start \in FoldStates /\ \A i \in 1..n : rs[i] \in MistralResponses
    BY DEF FoldStates
<1>2. Fold(rs, show) = IF f0[n].failed THEN f0[n] ELSE Close(f0[n])
    BY Zenon DEF Fold
<1> HIDE DEF n, start
<1>3. step \in [(1..n) \X FoldStates -> FoldStates]
    BY <1>1, FoldStepType
<1>4. \A i \in 1..n, x \in FoldStates : step[<<i, x>>] = FoldStep(x, rs[i])
    OBVIOUS
<1> HIDE DEF step
<1>5. PICK g \in [0..n -> FoldStates] : Recursion(g, n, start, step)
    BY <1>1, <1>3, RecExists
<1>6. Is(g)
    <2>1. ASSUME NEW i \in 0..n PROVE g[i] = IF i = 0 THEN start ELSE FoldStep(g[i - 1], rs[i])
        <3>1. CASE i = 0
            BY <1>5, <3>1 DEF Recursion
        <3>2. CASE i # 0
            <4>1. i \in 1..n /\ i - 1 \in 0..n
                BY <1>1, <3>2
            <4>2. g[i - 1] \in FoldStates /\ g[i] = step[<<i, g[i - 1]>>]
                BY <1>5, <4>1 DEF Recursion
            <4> QED
                BY <1>4, <3>2, <4>1, <4>2
        <3> QED
            BY <3>1, <3>2
    <2>2. g = [i \in 0..n |-> g[i]]
        OBVIOUS
    <2> QED
        BY <2>1, <2>2
<1>7. Is(f0)
    <2> HIDE DEF Is
    <2> QED
        BY <1>6
<1> HIDE DEF f0
<1> DEFINE T == {i \in 0..n : f0[i] \in FoldStates}
<1>8. 0 \in T
    BY <1>1, <1>7
<1>9. ASSUME NEW i \in 0..n - 1, i \in T PROVE i + 1 \in T
    <2>1. i + 1 \in 0..n /\ i + 1 # 0 /\ (i + 1) - 1 = i /\ i + 1 \in 1..n
        BY <1>1
    <2>2. f0[i + 1] = FoldStep(f0[i], rs[i + 1])
        BY <1>7, <2>1
    <2> HIDE DEF Is
    <2> QED
        BY <1>1, <1>9, <2>1, <2>2, FoldStepType
<1>10. \A i \in 0..n : i \in T
    <2> HIDE DEF T
    <2> QED
        BY <1>1, <1>8, <1>9, UpTo
<1>11. f0[n] \in FoldStates
    <2>1. n \in 0..n
        BY <1>1
    <2> QED
        BY <1>10, <2>1
<1> QED
    BY <1>2, <1>11, CloseType

Called(n, name, args) ==
    IF args = <<>> THEN <<>> ELSE <<[k |-> "calls", calls |-> Asked(n, name, args)]>>

LEMMA PiecesType ==
    ASSUME NEW n \in Nat, NEW sh \in Seq({"text", "reasoning", "empty"})
    PROVE  Pieces(n, sh) \in Seq(Events)
<1>1. ASSUME NEW i \in 1..Len(sh) PROVE Pieces(n, sh)[i] \in Events
    <2> DEFINE x == IF sh[i] = "empty" THEN <<>> ELSE <<<<n, i>>>>
               kind == IF sh[i] = "reasoning" THEN "reasoning" ELSE "text"
    <2>1. x \in Texts
        <3>1. <<n, i>> \in Atoms
            BY DEF Atoms
        <3>2. <<<<n, i>>>> \in Seq(Atoms)
            BY <3>1
        <3> QED
            BY <3>2, TextsConcat DEF Texts
    <2>2. Pieces(n, sh)[i] = [k |-> kind, s |-> x] /\ kind \in {"text", "reasoning"}
        BY DEF Pieces
    <2> HIDE DEF x, kind
    <2> QED
        BY <2>1, <2>2 DEF Events
<1>2. Pieces(n, sh) = [i \in 1..Len(sh) |-> Pieces(n, sh)[i]] /\ Len(sh) \in Nat
    BY DEF Pieces
<1>3. Pieces(n, sh) \in [1..Len(sh) -> Events]
    BY <1>1, <1>2
<1> QED
    BY <1>2, <1>3, FcnIsSeq

LEMMA CalledType ==
    ASSUME NEW n \in Nat, NEW name \in ToolNames, NEW args \in Seq(Arguments)
    PROVE  Called(n, name, args) \in Seq(Events)
<1>1. ASSUME NEW i \in 1..Len(args) PROVE Asked(n, name, args)[i] \in ToolCalls
    <2>0. i \in DOMAIN args /\ i \in Nat /\ args[i] \in Arguments
        OBVIOUS
    <2>1. Asked(n, name, args)[i] = [id |-> <<n, i>>, name |-> name, arguments |-> args[i]]
        BY <2>0, Zenon DEF Asked
    <2>2. <<n, i>> \in Ids
        BY <2>0 DEF Ids
    <2> DEFINE p == <<n, i>>
               x == args[i]
    <2>3. [id |-> p, name |-> name, arguments |-> x] \in ToolCalls
        <3>1. p \in Ids /\ x \in Arguments
            BY <2>0, <2>2
        <3> HIDE DEF p, x
        <3> QED
            BY <3>1 DEF ToolCalls
    <2> QED
        BY <2>1, <2>3
<1>2. Asked(n, name, args) = [i \in 1..Len(args) |-> Asked(n, name, args)[i]] /\ Len(args) \in Nat
    <2>1. DOMAIN args = 1..Len(args) /\ Len(args) \in Nat
        OBVIOUS
    <2>2. Asked(n, name, args) = [i \in DOMAIN args |-> Asked(n, name, args)[i]]
        BY Zenon DEF Asked
    <2> QED
        BY <2>1, <2>2
<1>3. Asked(n, name, args) \in [1..Len(args) -> ToolCalls]
    BY <1>1, <1>2
<1>4. Asked(n, name, args) \in Seq(ToolCalls)
    BY <1>2, <1>3, FcnIsSeq
<1> DEFINE e == [k |-> "calls", calls |-> Asked(n, name, args)]
<1>5. e \in Events /\ (Called(n, name, args) = <<e>> \/ Called(n, name, args) = <<>>)
    BY <1>4 DEF Events, Called
<1> HIDE DEF e
<1> QED
    BY <1>5, OneIsSeq

LEMMA RepliesType ==
    ASSUME seen'.tools \subseteq ToolNames, round \in Nat
    PROVE  \A r \in Replies : r.ready \in Seq(Events)
<1>0. \A e \in Quiet : e \in Events
    BY DEF Quiet, Events, Kinds
<1>1. CASE job.transport = "mistral"
    <2>1. Replies = {Fold(rs, TRUE) : rs \in Responses}
        BY <1>1 DEF Replies
    <2>2. ASSUME NEW rs \in Responses PROVE Fold(rs, TRUE).ready \in Seq(Events)
        <3>1. rs \in Seq(MistralResponses)
            BY LoopAssumption
        <3>2. Fold(rs, TRUE) \in FoldStates
            BY <3>1, FoldType
        <3>3. Fold(rs, TRUE).ready \in Seq(Quiet)
            BY <3>2 DEF FoldStates
        <3> HIDE DEF Quiet
        <3>4. \A x \in Seq(Quiet) : x \in Seq(Events)
            BY <1>0
        <3> QED
            BY <3>3, <3>4
    <2> QED
        BY <2>1, <2>2
<1>2. CASE job.transport # "mistral"
    <2> DEFINE name == CHOOSE n \in seen'.tools : TRUE
               callSets == IF seen'.tools = {} THEN {<<>>} ELSE CallShapes
               ends == <<[k |-> "usage"], [k |-> "done"]>>
               R(sh, args) == Answer(round, name, sh, args)
    <2>1. \A r \in Replies : \E sh \in Shapes, args \in callSets : r = R(sh, args)
        BY <1>2 DEF Replies
    <2>2. seen'.tools # {} => name \in ToolNames
        OBVIOUS
    <2>3. ends \in Seq(Events)
        <3>1. [k |-> "usage"] \in Events /\ [k |-> "done"] \in Events
            BY DEF Events
        <3> QED
            BY <3>1
    <2> HIDE DEF name
    <2>4. ASSUME NEW sh \in Shapes, NEW args \in callSets PROVE R(sh, args).ready \in Seq(Events)
        <3>1. Pieces(round, sh) \in Seq(Events)
            <4>1. sh \in Seq({"text", "reasoning", "empty"})
                BY LoopAssumption
            <4> QED
                BY <4>1, PiecesType
        <3>2. Called(round, name, args) \in Seq(Events)
            <4>1. CASE args = <<>>
                BY <4>1 DEF Called
            <4>2. CASE args # <<>>
                <5>1. seen'.tools # {} /\ args \in Seq(Arguments)
                    BY <4>2, LoopAssumption
                <5> QED
                    BY <2>2, <5>1, CalledType
            <4> QED
                BY <4>1, <4>2
        <3> DEFINE x == Pieces(round, sh)
                   y == Called(round, name, args)
        <3>3. R(sh, args).ready = (x \o y) \o ends
            BY DEF Answer, Called
        <3>4. x \in Seq(Events) /\ y \in Seq(Events)
            BY <3>1, <3>2
        <3> HIDE DEF x, y, R, ends
        <3>5. x \o y \in Seq(Events)
            BY <3>4, ConcatProperties
        <3>6. (x \o y) \o ends \in Seq(Events)
            BY <2>3, <3>5, ConcatProperties
        <3> QED
            BY <3>3, <3>6
    <2> HIDE DEF R, callSets
    <2> QED
        BY <2>1, <2>4
<1> QED
    BY <1>1, <1>2

-----------------------------------------------------------------------------
(* The inductive invariant.                                                *)

\* Calls and outputs by their ids; what is still to be answered in this round,
\* in the order of the calls.
IdsOf(cs) == [i \in DOMAIN cs |-> cs[i].id]
Outstanding == IdsOf(results) \o IdsOf(todo)

\* In d, continued by answers to ids, every call is followed by its answer.
Answered(d, ids) ==
    \A i \in 1..Len(d) : \A j \in 1..Len(d[i].tool_calls) :
        /\ i + j <= Len(d) + Len(ids)
        /\ i + j <= Len(d) => d[i + j].tool_call_id = d[i].tool_calls[j].id
        /\ i + j > Len(d) => ids[i + j - Len(d)] = d[i].tool_calls[j].id

IdsIn(s) == {s[i] : i \in DOMAIN s}
CallIds(d) == UNION {IdsIn(IdsOf(d[i].tool_calls)) : i \in DOMAIN d}

LoopType ==
    /\ JobOK /\ round \in Nat /\ results \in Seq(Outputs) /\ todo \in Seq(ToolCalls)
    /\ at \in {"audio", "step", "tools", "done", "failed", "refused"}

\* While the loop runs: the two histories agree, and the calls of the direct one
\* are answered, or their outputs or turns are still held.
Running ==
    /\ Opening(direct) /\ WireInv(hist, direct) /\ Answered(direct, Outstanding)
    /\ CallIds(direct) = sent \cup IdsIn(Outstanding)
    /\ at = "step" => todo = <<>>
    /\ at = "tools" => todo # <<>>

LoopInv ==
    /\ LoopType
    /\ at = "audio" => seen = None /\ results = <<>> /\ todo = <<>> /\ sent = {}
    /\ at \in {"step", "tools"} => Running
    /\ SameConversation /\ EveryCallAnswered

LEMMA IdsOfType ==
    ASSUME NEW C, NEW cs \in Seq(C)
    PROVE  /\ IdsOf(cs) \in Seq({cs[i].id : i \in DOMAIN cs}) /\ Len(IdsOf(cs)) = Len(cs)
           /\ \A i \in 1..Len(cs) : IdsOf(cs)[i] = cs[i].id
<1> DEFINE V == {cs[i].id : i \in DOMAIN cs}
<1>1. DOMAIN cs = 1..Len(cs) /\ Len(cs) \in Nat
    OBVIOUS
<1>2. IdsOf(cs) \in [1..Len(cs) -> V] /\ \A i \in 1..Len(cs) : IdsOf(cs)[i] = cs[i].id
    BY <1>1 DEF IdsOf
<1> HIDE DEF V
<1>3. IdsOf(cs) \in Seq(V) /\ Len(IdsOf(cs)) = Len(cs)
    BY <1>1, <1>2, FcnIsSeq
<1> QED
    BY <1>2, <1>3 DEF V

LEMMA MessageCalls ==
    ASSUME NEW d \in Seq(Messages), NEW i \in 1..Len(d)
    PROVE  d[i] \in Messages /\ d[i].tool_calls \in Seq(ToolCalls) /\ Len(d[i].tool_calls) \in Nat
<1>1. d[i] \in Messages
    OBVIOUS
<1>2. d[i].tool_calls \in Seq(ToolCalls)
    BY <1>1 DEF Messages
<1> QED
    BY <1>1, <1>2

\* The outputs answer what is outstanding.
LEMMA AnsweredResults ==
    ASSUME NEW d \in Seq(Messages), NEW rs \in Seq(Outputs), Answered(d, IdsOf(rs))
    PROVE  Answered(d \o ToolMessages(rs), <<>>)
<1> DEFINE ts == ToolMessages(rs)
           e == d \o ts
<1>1. /\ ts \in Seq(Messages) /\ Len(ts) = Len(rs)
      /\ \A i \in 1..Len(rs) : ts[i].tool_calls = <<>> /\ ts[i].tool_call_id = rs[i].id
    BY ToolMessagesType
<1>2. Len(IdsOf(rs)) = Len(rs) /\ \A i \in 1..Len(rs) : IdsOf(rs)[i] = rs[i].id
    BY IdsOfType
<1> HIDE DEF ts
<1>3. /\ e \in Seq(Messages) /\ Len(e) = Len(d) + Len(rs)
      /\ \A i \in 1..Len(d) : e[i] = d[i]
      /\ \A i \in 1..Len(rs) : e[Len(d) + i] = ts[i]
    <2>1. e \in Seq(Messages) /\ Len(e) = Len(d) + Len(ts)
        BY <1>1, ConcatProperties
    <2>2. \A i \in 1..Len(d) + Len(ts) : e[i] = IF i <= Len(d) THEN d[i] ELSE ts[i - Len(d)]
        BY <1>1, ConcatProperties
    <2>3. Len(d) \in Nat /\ Len(rs) \in Nat
        OBVIOUS
    <2> HIDE DEF e
    <2>4. ASSUME NEW i \in 1..Len(rs) PROVE e[Len(d) + i] = ts[i]
        <3>1. Len(d) + i \in 1..Len(d) + Len(ts) /\ ~(Len(d) + i <= Len(d)) /\ (Len(d) + i) - Len(d) = i
            BY <1>1, <2>3
        <3> QED
            BY <2>2, <3>1
    <2>5. ASSUME NEW i \in 1..Len(d) PROVE e[i] = d[i]
        <3>1. i \in 1..Len(d) + Len(ts) /\ i <= Len(d)
            BY <1>1, <2>3
        <3> QED
            BY <2>2, <3>1
    <2> QED
        BY <1>1, <2>1, <2>4, <2>5
<1> HIDE DEF e
<1>4. ASSUME NEW i \in 1..Len(e), NEW j \in 1..Len(e[i].tool_calls)
      PROVE  i + j <= Len(e) /\ e[i + j].tool_call_id = e[i].tool_calls[j].id
    <2>0. Len(d) \in Nat /\ Len(rs) \in Nat
        OBVIOUS
    <2>1. i \in 1..Len(d) /\ e[i] = d[i]
        <3>1. CASE i <= Len(d)
            BY <1>3, <2>0, <3>1
        <3>2. CASE i > Len(d)
            <4>1. i - Len(d) \in 1..Len(rs) /\ Len(d) + (i - Len(d)) = i
                BY <1>3, <2>0, <3>2
            <4>2. e[i] = ts[i - Len(d)]
                BY <1>3, <4>1
            <4>3. e[i].tool_calls = <<>>
                BY <1>1, <4>1, <4>2
            <4> QED
                BY <4>3
        <3>3. i <= Len(d) \/ i > Len(d)
            BY <1>3, <2>0
        <3> QED
            BY <3>1, <3>2, <3>3
    <2>2. j \in Nat /\ j \in 1..Len(d[i].tool_calls)
        BY <2>1, MessageCalls
    <2>3. /\ i + j <= Len(d) + Len(rs)
          /\ i + j <= Len(d) => d[i + j].tool_call_id = d[i].tool_calls[j].id
          /\ i + j > Len(d) => IdsOf(rs)[i + j - Len(d)] = d[i].tool_calls[j].id
        BY <1>2, <2>1, <2>2 DEF Answered
    <2>4. CASE i + j <= Len(d)
        <3>1. i + j \in 1..Len(d)
            BY <2>0, <2>1, <2>2, <2>4
        <3> QED
            BY <1>3, <2>1, <2>3, <2>4, <3>1
    <2>5. CASE i + j > Len(d)
        <3> DEFINE q == i + j - Len(d)
        <3>1. q \in 1..Len(rs) /\ Len(d) + q = i + j
            <4>1. i \in Nat /\ i + j <= Len(d) + Len(rs)
                BY <2>1, <2>3
            <4> QED
                BY <2>0, <2>2, <2>5, <4>1
        <3>2. IdsOf(rs)[q] = d[i].tool_calls[j].id
            BY <2>3, <2>5
        <3> HIDE DEF q
        <3>3. e[i + j] = ts[q] /\ ts[q].tool_call_id = rs[q].id /\ IdsOf(rs)[q] = rs[q].id
            BY <1>1, <1>2, <1>3, <3>1
        <3> QED
            BY <1>3, <2>1, <2>3, <3>2, <3>3
    <2>6. i + j <= Len(d) \/ i + j > Len(d)
        BY <2>0, <2>1, <2>2
    <2> QED
        BY <2>4, <2>5, <2>6
<1>5. Len(<<>>) = 0 /\ Len(e) \in Nat
    BY <1>3
<1>6. ASSUME NEW i \in 1..Len(e), NEW j \in 1..Len(e[i].tool_calls) PROVE i + j \in Nat
    BY <1>3, MessageCalls
<1>7. Answered(e, <<>>)
    BY <1>4, <1>5, <1>6 DEF Answered
<1> QED
    BY <1>7 DEF e, ts

LEMMA AnsweredReply ==
    ASSUME NEW d \in Seq(Messages), Answered(d, <<>>), NEW m \in Messages
    PROVE  Answered(Append(d, m), IdsOf(m.tool_calls))
<1> DEFINE e == Append(d, m)
<1>1. /\ e \in Seq(Messages) /\ Len(e) = Len(d) + 1 /\ Len(d) \in Nat
      /\ e[Len(d) + 1] = m /\ \A i \in 1..Len(d) : e[i] = d[i]
    OBVIOUS
<1>2. m.tool_calls \in Seq(ToolCalls)
    BY DEF Messages
<1>3. /\ Len(IdsOf(m.tool_calls)) = Len(m.tool_calls) /\ Len(m.tool_calls) \in Nat
      /\ \A i \in 1..Len(m.tool_calls) : IdsOf(m.tool_calls)[i] = m.tool_calls[i].id
    <2> DEFINE cs == m.tool_calls
    <2>1. cs \in Seq(ToolCalls)
        BY <1>2
    <2> HIDE DEF cs
    <2>2. Len(IdsOf(cs)) = Len(cs) /\ \A i \in 1..Len(cs) : IdsOf(cs)[i] = cs[i].id
        BY <2>1, IdsOfType
    <2>3. Len(cs) \in Nat
        BY <2>1
    <2> QED
        BY <2>2, <2>3 DEF cs
<1> HIDE DEF e
<1>4. ASSUME NEW i \in 1..Len(e), NEW j \in 1..Len(e[i].tool_calls)
      PROVE  /\ i + j <= Len(e) + Len(IdsOf(m.tool_calls))
             /\ i + j <= Len(e) => e[i + j].tool_call_id = e[i].tool_calls[j].id
             /\ i + j > Len(e) => IdsOf(m.tool_calls)[i + j - Len(e)] = e[i].tool_calls[j].id
    <2>1. CASE i <= Len(d)
        <3>1. i \in 1..Len(d) /\ e[i] = d[i]
            BY <1>1, <2>1
        <3>2. j \in Nat /\ j \in 1..Len(d[i].tool_calls)
            BY <3>1, MessageCalls
        <3>3. i + j <= Len(d) /\ d[i + j].tool_call_id = d[i].tool_calls[j].id
            BY <1>1, <3>1, <3>2 DEF Answered
        <3>4. i + j \in 1..Len(d)
            BY <1>1, <3>1, <3>2, <3>3
        <3>5. e[i + j] = d[i + j] /\ e[i + j].tool_call_id = e[i].tool_calls[j].id
            BY <1>1, <3>1, <3>3, <3>4
        <3>6. i + j <= Len(e) /\ ~(i + j > Len(e)) /\ i + j <= Len(e) + Len(IdsOf(m.tool_calls))
            <4> DEFINE k == i + j
                       n == Len(IdsOf(m.tool_calls))
            <4>1. k \in 1..Len(d) /\ n \in Nat /\ Len(d) \in Nat /\ Len(e) = Len(d) + 1
                BY <1>1, <1>3, <3>4
            <4> HIDE DEF k, n
            <4>2. k <= Len(e) /\ ~(k > Len(e)) /\ k <= Len(e) + n
                BY <4>1
            <4> QED
                BY <4>2 DEF k, n
        <3> QED
            BY <3>5, <3>6
    <2>2. CASE i = Len(d) + 1
        <3>1. e[i] = m /\ j \in 1..Len(m.tool_calls) /\ i + j - Len(e) = j /\ i + j > Len(e)
                /\ i + j <= Len(e) + Len(m.tool_calls) /\ ~(i + j <= Len(e))
            BY <1>1, <1>3, <2>2
        <3> QED
            BY <1>3, <3>1
    <2>3. i <= Len(d) \/ i = Len(d) + 1
        BY <1>1
    <2> QED
        BY <2>1, <2>2, <2>3
<1>5. Answered(e, IdsOf(m.tool_calls))
    BY <1>4 DEF Answered
<1> QED
    BY <1>5 DEF e

LEMMA AnsweredNormal ==
    ASSUME NEW d \in Seq(Messages), Answered(d, <<>>)
    PROVE  Answered(NormalMessages(d), <<>>)
<1> DEFINE e == NormalMessages(d)
<1>1. e \in Seq(Messages) /\ Len(e) = Len(d) /\ Len(d) \in Nat /\ \A i \in 1..Len(d) : e[i] = NormalMessage(d[i])
    BY NormalType
<1> HIDE DEF e
<1>2. ASSUME NEW i \in 1..Len(d)
      PROVE  /\ e[i].tool_call_id = d[i].tool_call_id /\ Len(e[i].tool_calls) = Len(d[i].tool_calls)
             /\ \A j \in 1..Len(d[i].tool_calls) : e[i].tool_calls[j].id = d[i].tool_calls[j].id
    <2>1. d[i] \in Messages /\ d[i].tool_calls \in Seq(ToolCalls)
        BY MessageCalls
    <2>2. e[i] = Message(d[i].role, d[i].content, NormalCalls(d[i].tool_calls), d[i].tool_call_id)
        BY <1>1, <2>1, NormalMessageType
    <2>3. e[i].tool_calls = NormalCalls(d[i].tool_calls) /\ e[i].tool_call_id = d[i].tool_call_id
        BY <2>2 DEF Message
    <2>4. /\ Len(NormalCalls(d[i].tool_calls)) = Len(d[i].tool_calls)
          /\ \A j \in DOMAIN d[i].tool_calls : NormalCalls(d[i].tool_calls)[j].id = d[i].tool_calls[j].id
        BY <2>1, NormalCallsType
    <2>5. DOMAIN d[i].tool_calls = 1..Len(d[i].tool_calls)
        BY <2>1
    <2> QED
        BY <2>3, <2>4, <2>5
<1>3. ASSUME NEW i \in 1..Len(e), NEW j \in 1..Len(e[i].tool_calls)
      PROVE  i + j <= Len(e) /\ e[i + j].tool_call_id = e[i].tool_calls[j].id
    <2>1. i \in 1..Len(d) /\ j \in 1..Len(d[i].tool_calls)
        BY <1>1, <1>2
    <2>2. j \in Nat /\ j > 0
        BY <2>1, MessageCalls
    <2>3. i + j <= Len(d) /\ d[i + j].tool_call_id = d[i].tool_calls[j].id
        BY <1>1, <2>1, <2>2 DEF Answered
    <2>4. i + j \in 1..Len(d)
        BY <1>1, <2>1, <2>2, <2>3
    <2> QED
        BY <1>1, <1>2, <2>1, <2>3, <2>4
<1>4. ASSUME NEW i \in 1..Len(e), NEW j \in 1..Len(e[i].tool_calls) PROVE i + j \in Nat
    BY <1>1, MessageCalls
<1>5. Len(<<>>) = 0 /\ Len(e) \in Nat
    BY <1>1
<1>6. Answered(e, <<>>)
    BY <1>3, <1>4, <1>5 DEF Answered
<1> QED
    BY <1>6 DEF e

LEMMA CallIdsIs ==
    ASSUME NEW d \in Seq(Messages), NEW x
    PROVE  x \in CallIds(d) <=> \E i \in 1..Len(d) : x \in IdsIn(IdsOf(d[i].tool_calls))
<1>1. DOMAIN d = 1..Len(d)
    OBVIOUS
<1> QED
    BY <1>1, Zenon DEF CallIds

LEMMA IdsInEmpty == IdsIn(IdsOf(<<>>)) = {} /\ IdsIn(<<>>) = {}
BY DEF IdsIn, IdsOf

LEMMA CallIdsResults ==
    ASSUME NEW d \in Seq(Messages), NEW rs \in Seq(Outputs)
    PROVE  CallIds(d \o ToolMessages(rs)) = CallIds(d)
<1> DEFINE ts == ToolMessages(rs)
           e == d \o ts
<1>1. ts \in Seq(Messages) /\ \A i \in 1..Len(ts) : ts[i].tool_calls = <<>>
    BY ToolMessagesType
<1> HIDE DEF ts
<1>2. /\ e \in Seq(Messages) /\ Len(e) = Len(d) + Len(ts)
      /\ \A i \in 1..Len(d) + Len(ts) : e[i] = IF i <= Len(d) THEN d[i] ELSE ts[i - Len(d)]
    BY <1>1, ConcatProperties
<1>3. Len(d) \in Nat /\ Len(ts) \in Nat
    BY <1>1
<1> HIDE DEF e
<1>4. ASSUME NEW x, x \in CallIds(e) PROVE x \in CallIds(d)
    <2>1. PICK i \in 1..Len(e) : x \in IdsIn(IdsOf(e[i].tool_calls))
        BY <1>2, <1>4, CallIdsIs
    <2>2. CASE i <= Len(d)
        <3>1. i \in 1..Len(d) /\ e[i] = d[i]
            BY <1>2, <1>3, <2>2
        <3> QED
            BY <2>1, <3>1, CallIdsIs
    <2>3. CASE i > Len(d)
        <3>1. i - Len(d) \in 1..Len(ts) /\ e[i] = ts[i - Len(d)]
            BY <1>2, <1>3, <2>3
        <3>2. e[i].tool_calls = <<>>
            BY <1>1, <3>1
        <3> QED
            BY <2>1, <3>2, IdsInEmpty
    <2>4. i <= Len(d) \/ i > Len(d)
        BY <1>2, <1>3
    <2> QED
        BY <2>2, <2>3, <2>4
<1>5. ASSUME NEW x, x \in CallIds(d) PROVE x \in CallIds(e)
    <2>1. PICK i \in 1..Len(d) : x \in IdsIn(IdsOf(d[i].tool_calls))
        BY <1>5, CallIdsIs
    <2>2. i \in 1..Len(e) /\ e[i] = d[i]
        BY <1>2, <1>3
    <2> QED
        BY <1>2, <2>1, <2>2, CallIdsIs
<1>6. CallIds(e) = CallIds(d)
    BY <1>4, <1>5
<1> QED
    BY <1>6 DEF e, ts

LEMMA CallIdsReply ==
    ASSUME NEW d \in Seq(Messages), NEW m \in Messages
    PROVE  CallIds(Append(d, m)) = CallIds(d) \cup IdsIn(IdsOf(m.tool_calls))
<1> DEFINE e == Append(d, m)
<1>1. /\ e \in Seq(Messages) /\ Len(e) = Len(d) + 1 /\ Len(d) \in Nat
      /\ e[Len(d) + 1] = m /\ \A i \in 1..Len(d) : e[i] = d[i]
    OBVIOUS
<1> HIDE DEF e
<1>2. ASSUME NEW x, x \in CallIds(e) PROVE x \in CallIds(d) \cup IdsIn(IdsOf(m.tool_calls))
    <2>1. PICK i \in 1..Len(e) : x \in IdsIn(IdsOf(e[i].tool_calls))
        BY <1>1, <1>2, CallIdsIs
    <2>2. CASE i \in 1..Len(d)
        BY <1>1, <2>1, <2>2, CallIdsIs
    <2>3. CASE i = Len(d) + 1
        BY <1>1, <2>1, <2>3
    <2>4. i \in 1..Len(d) \/ i = Len(d) + 1
        BY <1>1
    <2> QED
        BY <2>2, <2>3, <2>4
<1>3. ASSUME NEW x, x \in CallIds(d) \cup IdsIn(IdsOf(m.tool_calls)) PROVE x \in CallIds(e)
    <2>1. CASE x \in CallIds(d)
        <3>1. PICK i \in 1..Len(d) : x \in IdsIn(IdsOf(d[i].tool_calls))
            BY <2>1, CallIdsIs
        <3>2. i \in 1..Len(e) /\ e[i] = d[i]
            BY <1>1
        <3> QED
            BY <1>1, <3>1, <3>2, CallIdsIs
    <2>2. CASE x \in IdsIn(IdsOf(m.tool_calls))
        <3>1. Len(d) + 1 \in 1..Len(e)
            BY <1>1
        <3> QED
            BY <1>1, <2>2, <3>1, CallIdsIs
    <2> QED
        BY <1>3, <2>1, <2>2
<1>4. CallIds(e) = CallIds(d) \cup IdsIn(IdsOf(m.tool_calls))
    BY <1>2, <1>3
<1> QED
    BY <1>4 DEF e

LEMMA OpeningResults ==
    ASSUME NEW d, Opening(d), NEW rs \in Seq(Outputs) PROVE Opening(d \o ToolMessages(rs))
<1> DEFINE ts == ToolMessages(rs)
           e == d \o ts
<1>1. ts \in Seq(Messages) /\ \A i \in 1..Len(ts) : ts[i].role = "tool"
    BY ToolMessagesType
<1>2. d \in Seq(Messages) /\ d # <<>>
    BY DEF Opening
<1> HIDE DEF ts
<1>3. /\ e \in Seq(Messages) /\ Len(e) = Len(d) + Len(ts)
      /\ \A i \in 1..Len(d) + Len(ts) : e[i] = IF i <= Len(d) THEN d[i] ELSE ts[i - Len(d)]
    BY <1>1, <1>2, ConcatProperties
<1>4. Len(d) \in Nat \ {0} /\ Len(ts) \in Nat
    BY <1>1, <1>2
<1> HIDE DEF e
<1>5. e # <<>> /\ e[1] = d[1]
    <2>1. 1 \in 1..Len(d) + Len(ts) /\ 1 <= Len(d)
        BY <1>4
    <2>2. e[1] = d[1]
        BY <1>3, <2>1
    <2> QED
        BY <1>3, <1>4, <2>2
<1>6. ASSUME NEW i \in 2..Len(e) PROVE e[i].role # "user"
    <2>1. CASE i <= Len(d)
        <3>1. i \in 2..Len(d) /\ e[i] = d[i]
            BY <1>3, <1>4, <2>1
        <3> QED
            BY <3>1 DEF Opening
    <2>2. CASE i > Len(d)
        <3>1. i - Len(d) \in 1..Len(ts) /\ e[i] = ts[i - Len(d)]
            BY <1>3, <1>4, <2>2
        <3> QED
            BY <1>1, <3>1
    <2>3. i <= Len(d) \/ i > Len(d)
        BY <1>3, <1>4
    <2> QED
        BY <2>1, <2>2, <2>3
<1>7. Opening(e)
    BY <1>3, <1>5, <1>6 DEF Opening
<1> QED
    BY <1>7 DEF e, ts

LEMMA OpeningReply ==
    ASSUME NEW d, Opening(d), NEW m \in Messages, m.role = "assistant" PROVE Opening(Append(d, m))
<1> DEFINE e == Append(d, m)
<1>1. d \in Seq(Messages) /\ d # <<>>
    BY DEF Opening
<1>2. /\ e \in Seq(Messages) /\ Len(e) = Len(d) + 1 /\ Len(d) \in Nat \ {0}
      /\ e[Len(d) + 1] = m /\ \A i \in 1..Len(d) : e[i] = d[i]
    BY <1>1
<1> HIDE DEF e
<1>3. e # <<>> /\ e[1] = d[1]
    BY <1>2
<1>4. ASSUME NEW i \in 2..Len(e) PROVE e[i].role # "user"
    <2>1. CASE i \in 2..Len(d)
        BY <1>2, <2>1 DEF Opening
    <2>2. CASE i = Len(d) + 1
        BY <1>2, <2>2
    <2>3. i \in 2..Len(d) \/ i = Len(d) + 1
        BY <1>2
    <2> QED
        BY <2>1, <2>2, <2>3
<1>5. Opening(e)
    BY <1>2, <1>3, <1>4 DEF Opening
<1> QED
    BY <1>5 DEF e

-----------------------------------------------------------------------------
(* The steps of the loop.                                                  *)

\* What the engine got is the direct history, or that without the last reply.
LEMMA SameNow ==
    ASSUME NEW d \in Seq(Messages), NEW e, e = d \/ (\E m \in Messages : e = Append(d, m)),
           NEW ms, ms = Normal(d)
    PROVE  Len(e) \in {Len(ms), Len(ms) + 1} /\ ms = Normal(SubSeq(e, 1, Len(ms)))
<1>1. Len(ms) = Len(d) /\ Len(d) \in Nat
    BY NormalType DEF Normal
<1>2. Len(e) \in {Len(d), Len(d) + 1} /\ SubSeq(e, 1, Len(d)) = d
    <2>1. CASE e = d
        BY <1>1, <2>1
    <2>2. CASE \E m \in Messages : e = Append(d, m)
        BY <1>1, <2>2
    <2> QED
        BY <2>1, <2>2
<1> QED
    BY <1>1, <1>2

LEMMA AnsweredNow ==
    ASSUME NEW d \in Seq(Messages), Answered(d, <<>>), NEW ms, ms = Normal(d)
    PROVE  \A i \in DOMAIN ms : \A j \in DOMAIN ms[i].tool_calls :
              i + j <= Len(ms) /\ ms[i + j].tool_call_id = ms[i].tool_calls[j].id
<1>1. ms \in Seq(Messages) /\ Answered(ms, <<>>)
    BY NormalType, AnsweredNormal DEF Normal
<1>2. DOMAIN ms = 1..Len(ms) /\ Len(ms) \in Nat
    BY <1>1
<1>3. ASSUME NEW i \in DOMAIN ms, NEW j \in DOMAIN ms[i].tool_calls
      PROVE  i + j <= Len(ms) /\ ms[i + j].tool_call_id = ms[i].tool_calls[j].id
    <2>1. i \in 1..Len(ms) /\ ms[i].tool_calls \in Seq(ToolCalls)
        BY <1>1, <1>2, MessageCalls
    <2>2. j \in 1..Len(ms[i].tool_calls)
        BY <2>1
    <2>3. i + j <= Len(ms) + Len(<<>>) /\ (i + j <= Len(ms) => ms[i + j].tool_call_id = ms[i].tool_calls[j].id)
        BY <1>1, <2>1, <2>2 DEF Answered
    <2>4. Len(ms) + Len(<<>>) = Len(ms)
        BY <1>2
    <2> QED
        BY <2>3, <2>4
<1> QED
    BY <1>3

\* The properties look at the job, both histories, what the engine got and sent.
LEMMA Unmoved ==
    /\ SameConversation /\ EveryCallAnswered /\ UNCHANGED <<job, direct, seen, sent>>
    /\ at # "audio" /\ (at' = at \/ at' \notin {"done", "refused"}) /\ hist' = hist
    => SameConversation' /\ EveryCallAnswered'
<1> SUFFICES ASSUME SameConversation, EveryCallAnswered, at # "audio", at' = at \/ at' \notin {"done", "refused"},
                    hist' = hist, job' = job, direct' = direct, seen' = seen, sent' = sent
             PROVE  SameConversation' /\ EveryCallAnswered'
    OBVIOUS
<1>1. SameConversation'
    BY DEF SameConversation, ThinkingSentBack, Normal, WithAudio
<1>2. EveryCallAnswered'
    BY DEF EveryCallAnswered
<1> QED
    BY <1>1, <1>2

LEMMA WordText == ASSUME NEW w \in Words PROVE <<w>> \in Atoms /\ <<<<w>>>> \in Texts
<1> HIDE DEF Words
<1>1. <<w>> \in Seq(Words)
    OBVIOUS
<1>2. <<w>> \in Atoms
    BY <1>1 DEF Atoms
<1> DEFINE a == <<w>>
<1>3. a \in Atoms
    BY <1>2
<1> HIDE DEF a
<1>4. <<a>> \in Texts
    BY <1>3 DEF Texts
<1> QED
    BY <1>2, <1>4 DEF a

LEMMA PairText == ASSUME NEW a \in Atoms, NEW b \in Atoms PROVE <<a, b>> \in Texts
BY DEF Texts

LEMMA AnsweredOpening == ASSUME NEW p PROVE Answered(<<User(p)>>, <<>>) /\ CallIds(<<User(p)>>) = {}
<1> DEFINE d == <<User(p)>>
<1>1. Len(d) = 1 /\ DOMAIN d = {1} /\ d[1].tool_calls = <<>>
    BY DEF User, Message
<1> HIDE DEF d
<1>2. Answered(d, <<>>)
    BY <1>1 DEF Answered
<1>3. CallIds(d) = {}
    BY <1>1, IdsInEmpty DEF CallIds
<1> QED
    BY <1>2, <1>3 DEF d

LEMMA InitLoop == Init => LoopInv
<1> SUFFICES ASSUME Init PROVE LoopInv
    OBVIOUS
<1>1. LoopType
    BY DEF Init, LoopType, JobOK, Jobs
<1>2. SameConversation /\ EveryCallAnswered
    BY DEF Init, SameConversation, EveryCallAnswered
<1> QED
    BY <1>1, <1>2 DEF Init, LoopInv

LEMMA PrepareAudioLoop == ASSUME LoopInv, PrepareAudio PROVE LoopInv'
<1>1. at = "audio" /\ LoopType /\ seen = None /\ results = <<>> /\ todo = <<>> /\ sent = {}
    BY DEF LoopInv, PrepareAudio
<1>2. UNCHANGED <<job, seen, todo, results, round, sent>> /\ at' \in {"step", "failed"}
    BY DEF PrepareAudio
<1>3. LoopType'
    BY <1>1, <1>2 DEF LoopType, JobOK, Jobs
<1>4. SameConversation' /\ EveryCallAnswered'
    BY <1>1, <1>2 DEF SameConversation, EveryCallAnswered
<1>5. ASSUME at' = "step" PROVE Running'
    <2>1. PICK p \in {<<<<"prompt">>, <<"transcript">>>>, <<<<"prompt">>>>} :
             /\ direct' = <<User(p)>>
             /\ hist' = IF job.transport = "anthropic" THEN <<Prompt(p)>> ELSE <<User(p)>>
        BY <1>5 DEF PrepareAudio, Prompt
    <2>2. p \in Texts /\ p # <<>>
        <3>1. "prompt" \in Words /\ "transcript" \in Words
            BY DEF Words
        <3>2. <<<<"prompt">>>> \in Texts /\ <<"prompt">> \in Atoms /\ <<"transcript">> \in Atoms
            BY <3>1, WordText
        <3>3. <<<<"prompt">>, <<"transcript">>>> \in Texts
            BY <3>2, PairText
        <3> QED
            BY <3>2, <3>3
    <2> DEFINE x == AnthropicTurn(Prompt(p))
    <2>3. /\ Turn(x) = <<User(p)>> /\ User(p) \in Messages
          /\ OfType(PartsOf(x.content), "input_audio") = <<>>
        BY <2>2, TurnPrompt
    <2>4. Opening(<<User(p)>>)
        <3>1. <<User(p)>> \in Seq(Messages) /\ <<User(p)>> # <<>> /\ Len(<<User(p)>>) = 1
            BY <2>3
        <3>2. <<User(p)>>[1].role = "user" /\ <<User(p)>>[1].content = p
            BY DEF User, Message
        <3> QED
            BY <2>2, <3>1, <3>2 DEF Opening
    <2>5. WireInv(hist', direct')
        <3>1. CASE job.transport = "anthropic"
            <4>1. Prompt(p) \in GoodTurns
                <5>1. Prompt(p) \in [role : {"user", "assistant"}, text : Texts, blocks : Seq(Blocks) \cup {None}]
                    BY <2>2 DEF Prompt
                <5>2. Turn(x) \in Seq(Messages)
                    BY <2>3
                <5> QED
                    BY <2>3, <5>1, <5>2 DEF GoodTurns
            <4>2. Each(TurnOf, <<Prompt(p)>>) = <<User(p)>>
                <5>1. TurnOf[Prompt(p)] = <<User(p)>>
                    BY <2>3, <4>1 DEF TurnOf
                <5> QED
                    BY <4>1, <5>1, TurnOfType, EachOne
            <4>3. NormalMessages(<<User(p)>>) = <<User(p)>>
                <5>1. NormalMessage(User(p)) = User(p)
                    <6>1. NormalMessage(User(p)) = Message("user", p, NormalCalls(<<>>), None)
                        BY <2>3, NormalMessageType DEF User, Message
                    <6>2. NormalCalls(<<>>) = <<>>
                        BY DEF NormalCalls
                    <6> QED
                        BY <6>1, <6>2 DEF User
                <5> QED
                    BY <2>3, <5>1, NormalOne
            <4>4. <<Prompt(p)>> \in Seq(GoodTurns)
                BY <4>1
            <4> QED
                BY <2>1, <3>1, <4>2, <4>3, <4>4 DEF WireInv
        <3>2. CASE job.transport # "anthropic"
            BY <2>1, <3>2 DEF WireInv
        <3> QED
            BY <3>1, <3>2
    <2>6. Answered(<<User(p)>>, <<>>) /\ CallIds(<<User(p)>>) = {}
        BY AnsweredOpening
    <2>7. IdsOf(<<>>) \o IdsOf(<<>>) = <<>>
        BY DEF IdsOf
    <2>8. Outstanding' = <<>>
        BY <1>1, <1>2, <2>7 DEF Outstanding
    <2>9. WireInv(hist, direct)'
        BY <1>2, <2>5 DEF WireInv
    <2> QED
        BY <1>1, <1>2, <1>5, <2>1, <2>4, <2>6, <2>8, <2>9, IdsInEmpty DEF Running
<1> QED
    BY <1>2, <1>3, <1>4, <1>5 DEF LoopInv

LEMMA OverloadedLoop == ASSUME LoopInv, Overloaded \/ TransportFails \/ UNCHANGED vars PROVE LoopInv'
<1>1. /\ UNCHANGED <<job, hist, direct, seen, todo, results, round, sent>>
      /\ at' = at \/ (at = "step" /\ at' = "failed")
    BY DEF Overloaded, TransportFails, vars
<1>2. LoopType'
    BY <1>1 DEF LoopInv, LoopType, JobOK, Jobs
<1>3. at' = at /\ Running => Running'
    BY <1>1 DEF Running, Outstanding, WireInv
<1>4. SameConversation' /\ EveryCallAnswered'
    <2>1. CASE at = "audio"
        BY <1>1, <2>1 DEF LoopInv, SameConversation, EveryCallAnswered
    <2>2. CASE at # "audio"
        BY <1>1, <2>2, Unmoved DEF LoopInv
    <2> QED
        BY <2>1, <2>2
<1> QED
    BY <1>1, <1>2, <1>3, <1>4 DEF LoopInv

LEMMA IdsAre == ASSUME NEW cs \in Seq(ToolCalls) \cup Seq(Outputs) PROVE IdsOf(cs) \in Seq(Ids)
<1>1. DOMAIN cs = 1..Len(cs) /\ Len(cs) \in Nat
    OBVIOUS
<1>2. \A i \in 1..Len(cs) : cs[i].id \in Ids
    <2>1. CASE cs \in Seq(ToolCalls)
        <3>1. \A i \in 1..Len(cs) : cs[i] \in ToolCalls
            BY <2>1
        <3> QED
            BY <3>1 DEF ToolCalls
    <2>2. CASE cs \in Seq(Outputs)
        <3>1. \A i \in 1..Len(cs) : cs[i] \in Outputs
            BY <2>2
        <3> QED
            BY <3>1 DEF Outputs
    <2> QED
        BY <2>1, <2>2
<1> HIDE DEF Ids
<1>3. IdsOf(cs) \in [1..Len(cs) -> Ids]
    BY <1>1, <1>2 DEF IdsOf
<1> QED
    BY <1>1, <1>3, FcnIsSeq

\* A call made is an output held: what is outstanding stays.
LEMMA OutstandingMoves ==
    ASSUME NEW rs \in Seq(Outputs), NEW cs \in Seq(ToolCalls), cs # <<>>,
           NEW r \in Outputs, r.id = Head(cs).id
    PROVE  IdsOf(Append(rs, r)) \o IdsOf(Tail(cs)) = IdsOf(rs) \o IdsOf(cs)
<1> DEFINE a == IdsOf(Append(rs, r))
           b == IdsOf(Tail(cs))
           p == IdsOf(rs)
           q == IdsOf(cs)
           x == a \o b
           y == p \o q
<1> HIDE DEF Ids
<1>1. /\ Append(rs, r) \in Seq(Outputs) /\ Len(Append(rs, r)) = Len(rs) + 1 /\ Len(rs) \in Nat
      /\ Append(rs, r)[Len(rs) + 1] = r /\ \A i \in 1..Len(rs) : Append(rs, r)[i] = rs[i]
    OBVIOUS
<1>2. /\ Tail(cs) \in Seq(ToolCalls) /\ Len(cs) \in Nat \ {0} /\ Len(Tail(cs)) = Len(cs) - 1
      /\ \A i \in 1..Len(cs) - 1 : Tail(cs)[i] = cs[i + 1]
    OBVIOUS
<1>3. a \in Seq(Ids) /\ b \in Seq(Ids) /\ p \in Seq(Ids) /\ q \in Seq(Ids)
    BY <1>1, <1>2, IdsAre
<1>4. /\ Len(a) = Len(rs) + 1 /\ a[Len(rs) + 1] = r.id /\ \A i \in 1..Len(rs) : a[i] = rs[i].id
    <2>1. Len(a) = Len(Append(rs, r)) /\ \A i \in 1..Len(Append(rs, r)) : a[i] = Append(rs, r)[i].id
        BY <1>1, IdsOfType
    <2> QED
        BY <1>1, <2>1
<1>5. Len(b) = Len(cs) - 1 /\ \A i \in 1..Len(cs) - 1 : b[i] = cs[i + 1].id
    <2>1. Len(b) = Len(Tail(cs)) /\ \A i \in 1..Len(Tail(cs)) : b[i] = Tail(cs)[i].id
        BY <1>2, IdsOfType
    <2> QED
        BY <1>2, <2>1
<1>6. /\ Len(p) = Len(rs) /\ \A i \in 1..Len(rs) : p[i] = rs[i].id
      /\ Len(q) = Len(cs) /\ \A i \in 1..Len(cs) : q[i] = cs[i].id
    BY IdsOfType
<1>7. r.id = cs[1].id
    BY <1>2
<1> HIDE DEF a, b, p, q
<1>8. /\ x \in Seq(Ids) /\ Len(x) = Len(a) + Len(b)
      /\ \A i \in 1..Len(a) + Len(b) : x[i] = IF i <= Len(a) THEN a[i] ELSE b[i - Len(a)]
    BY <1>3, ConcatProperties
<1>9. /\ y \in Seq(Ids) /\ Len(y) = Len(p) + Len(q)
      /\ \A i \in 1..Len(p) + Len(q) : y[i] = IF i <= Len(p) THEN p[i] ELSE q[i - Len(p)]
    BY <1>3, ConcatProperties
<1> HIDE DEF x, y
<1>10. Len(x) = Len(rs) + Len(cs) /\ Len(y) = Len(rs) + Len(cs)
    BY <1>1, <1>2, <1>4, <1>5, <1>6, <1>8, <1>9
<1>11. ASSUME NEW i \in 1..Len(x) PROVE x[i] = y[i]
    <2>1. CASE i \in 1..Len(rs)
        <3>1. x[i] = a[i] /\ y[i] = p[i]
            BY <1>1, <1>4, <1>5, <1>6, <1>8, <1>9, <1>10, <2>1
        <3> QED
            BY <1>4, <1>6, <2>1, <3>1
    <2>2. CASE i = Len(rs) + 1
        <3>1. x[i] = a[i] /\ ~(i <= Len(p)) /\ i - Len(p) = 1
            BY <1>1, <1>4, <1>5, <1>6, <1>8, <1>10, <2>2
        <3>2. y[i] = q[1]
            BY <1>6, <1>8, <1>9, <1>10, <3>1
        <3>3. q[1] = cs[1].id
            BY <1>2, <1>6
        <3> QED
            BY <1>4, <1>7, <2>2, <3>1, <3>2, <3>3
    <2>3. CASE i > Len(rs) + 1
        <3> DEFINE k == i - (Len(rs) + 1)
        <3>1. k \in 1..Len(cs) - 1 /\ i - Len(a) = k /\ ~(i <= Len(a)) /\ ~(i <= Len(p)) /\ i - Len(p) = k + 1
                /\ k + 1 \in 1..Len(cs)
            BY <1>1, <1>2, <1>4, <1>6, <1>10, <2>3
        <3> HIDE DEF k
        <3>2. x[i] = b[k]
            BY <1>8, <3>1
        <3>3. y[i] = q[k + 1]
            BY <1>8, <1>9, <1>10, <3>1
        <3> QED
            BY <1>5, <1>6, <3>1, <3>2, <3>3
    <2>4. i \in 1..Len(rs) \/ i = Len(rs) + 1 \/ i > Len(rs) + 1
        BY <1>1, <1>10
    <2> QED
        BY <2>1, <2>2, <2>3, <2>4
<1>12. x = y
    BY <1>8, <1>9, <1>10, <1>11, SeqEqual
<1> QED
    BY <1>12 DEF x, y, a, b, p, q

LEMMA CallToolLoop == ASSUME LoopInv, CallTool PROVE LoopInv'
<1>1. at = "tools" /\ LoopType /\ Running /\ todo # <<>> /\ results \in Seq(Outputs) /\ todo \in Seq(ToolCalls)
    BY DEF LoopInv, Running, LoopType, CallTool
<1>2. PICK out \in {"output", "error"} : results' = Append(results, [id |-> Head(todo).id, out |-> <<<<out>>>>])
    BY DEF CallTool
<1> DEFINE r == [id |-> Head(todo).id, out |-> <<<<out>>>>]
<1>3. r \in Outputs /\ r.id = Head(todo).id
    <2>1. Head(todo) \in ToolCalls
        BY <1>1
    <2>2. Head(todo).id \in Ids
        BY <2>1 DEF ToolCalls
    <2>3. <<<<out>>>> \in Texts
        <3>1. out \in Words
            BY DEF Words
        <3> QED
            BY <3>1, WordText
    <2> HIDE DEF Ids, Texts
    <2> QED
        BY <2>2, <2>3 DEF Outputs
<1>4. results' = Append(results, r) /\ todo' = Tail(todo) /\ UNCHANGED <<job, hist, direct, seen, sent>>
    BY <1>2 DEF CallTool
<1>5. \/ Len(todo) > 1 /\ at' = at /\ round' = round
      \/ ~(Len(todo) > 1) /\ at' \in {"step", "failed"} /\ round' = round + 1
    BY DEF CallTool
<1> HIDE DEF r
<1>6. results' \in Seq(Outputs) /\ todo' \in Seq(ToolCalls)
    BY <1>1, <1>3, <1>4
<1>7. LoopType'
    BY <1>1, <1>4, <1>5, <1>6 DEF LoopType, JobOK, Jobs
<1>8. Len(todo) > 1 => todo' # <<>>
    BY <1>1, <1>4
<1>9. ~(Len(todo) > 1) => todo' = <<>>
    BY <1>1, <1>4
<1>10. Outstanding' = Outstanding
    BY <1>1, <1>3, <1>4, OutstandingMoves DEF Outstanding
<1>11. Running'
    BY <1>1, <1>4, <1>5, <1>8, <1>9, <1>10 DEF Running, WireInv
<1>12. SameConversation' /\ EveryCallAnswered'
    BY <1>1, <1>4, <1>5, Unmoved DEF LoopInv
<1> QED
    BY <1>1, <1>5, <1>7, <1>11, <1>12 DEF LoopInv

LEMMA IdsNormal == ASSUME NEW cs \in Seq(ToolCalls) PROVE IdsOf(NormalCalls(cs)) = IdsOf(cs)
<1> DEFINE ns == NormalCalls(cs)
<1>1. ns \in Seq(ToolCalls) /\ Len(ns) = Len(cs) /\ \A i \in DOMAIN cs : ns[i].id = cs[i].id
    BY NormalCallsType
<1> HIDE DEF ns
<1>2. DOMAIN ns = DOMAIN cs
    BY <1>1
<1>3. IdsOf(ns) = IdsOf(cs)
    BY <1>1, <1>2 DEF IdsOf
<1> QED
    BY <1>3 DEF ns

LEMMA CallIdsUnion ==
    ASSUME NEW d \in Seq(Messages)
    PROVE  CallIds(d) = UNION {{d[i].tool_calls[j].id : j \in DOMAIN d[i].tool_calls} : i \in DOMAIN d}
<1>1. ASSUME NEW cs PROVE IdsIn(IdsOf(cs)) = {cs[j].id : j \in DOMAIN cs}
    <2>1. DOMAIN IdsOf(cs) = DOMAIN cs /\ \A j \in DOMAIN cs : IdsOf(cs)[j] = cs[j].id
        BY DEF IdsOf
    <2> QED
        BY <2>1 DEF IdsIn
<1> QED
    BY <1>1 DEF CallIds

\* The facts of a step, all about the direct history with the outputs appended.
LEMMA StepLoop == ASSUME LoopInv, Step PROVE LoopInv'
<1> DEFINE d == direct \o ToolMessages(results)
           h == PushResults(hist)
<1>1. /\ at = "step" /\ LoopType /\ Running /\ todo = <<>> /\ JobOK /\ round \in Nat
      /\ results \in Seq(Outputs) /\ Opening(direct) /\ direct \in Seq(Messages)
      /\ WireInv(hist, direct)
    BY DEF LoopInv, Running, LoopType, Step, Opening
<1>2. job' = job /\ round' = round /\ seen' = Delivered(h)
    BY DEF Step
<1>3. Outstanding = IdsOf(results)
    <2>1. IdsOf(results) \in Seq(Ids)
        BY <1>1, IdsAre
    <2>2. IdsOf(<<>>) = <<>>
        BY DEF IdsOf
    <2> DEFINE ids == IdsOf(results)
    <2> HIDE DEF ids, Ids
    <2>3. ids \in Seq(Ids)
        BY <2>1 DEF ids
    <2>4. ids \o <<>> = ids
        BY <2>3
    <2> QED
        BY <1>1, <2>2, <2>4 DEF Outstanding, ids
<1>4. Answered(direct, IdsOf(results)) /\ CallIds(direct) = sent \cup IdsIn(IdsOf(results))
    BY <1>1, <1>3 DEF Running
<1>5. Opening(d) /\ d \in Seq(Messages) /\ WireInv(h, d) /\ Answered(d, <<>>) /\ CallIds(d) = CallIds(direct)
    <2>1. Opening(d)
        BY <1>1, OpeningResults
    <2>2. WireInv(h, d)
        BY <1>1, WireResults
    <2>3. Answered(d, <<>>) /\ CallIds(d) = CallIds(direct)
        BY <1>1, <1>4, AnsweredResults, CallIdsResults
    <2> QED
        BY <2>1, <2>2, <2>3 DEF Opening
<1>6. LoopInv' \/ seen' # None
    <2> SUFFICES ASSUME seen' = None PROVE LoopInv'
        OBVIOUS
    <2>1. at' = "refused" /\ UNCHANGED <<todo, results>> /\ hist' = h
        BY DEF Step
    <2>0. Delivered(h) = None
        BY <1>2
    <2> HIDE DEF h, d
    <2>2. LoopType'
        BY <1>1, <1>2, <2>1 DEF LoopType, JobOK, Jobs
    <2>3. ThinkingSentBack'
        <3>1. /\ job.transport = "anthropic"
              /\ \E i \in DOMAIN h : h[i].blocks # None /\ OfType(h[i].blocks, "thinking") # <<>>
            BY <1>1, <1>5, <2>0, RefusedIs
        <3> QED
            BY <1>2, <2>1, <3>1 DEF ThinkingSentBack
    <2>4. SameConversation' /\ EveryCallAnswered'
        BY <2>1, <2>3 DEF SameConversation, EveryCallAnswered
    <2> QED
        BY <2>1, <2>2, <2>4 DEF LoopInv
<1> SUFFICES ASSUME seen' # None PROVE LoopInv'
    BY <1>6
<1>7. PICK r \in Replies :
         LET forced == job.transport = "anthropic" /\ job.structured
             calls == IF forced THEN <<>> ELSE Calls(Heard(r.ready))
         IN  /\ sent' = sent \cup {results[i].id : i \in DOMAIN results}
             /\ results' = <<>>
             /\ at' = IF r.failed THEN "failed" ELSE IF calls = <<>> THEN "done" ELSE "tools"
             /\ todo' = calls
             /\ hist' = IF forced THEN h ELSE PushCalls(h, Heard(r.ready))
             /\ direct' = IF Calls(r.ready) = <<>> \/ forced THEN d
                          ELSE Append(d, Reply(r.ready))
    BY DEF Step, Reply
<1> DEFINE es == r.ready
           m == Reply(es)
           forced == job.transport = "anthropic" /\ job.structured
           calls == IF forced THEN <<>> ELSE Calls(Heard(es))
<1> HIDE DEF d, h
<1>8. /\ seen'.messages = Normal(d) /\ seen'.audio = WithAudio
      /\ job.structured \/ seen'.tools = job.tools
      /\ seen'.tools \subseteq ToolNames
    BY <1>1, <1>2, <1>5, DeliveredIs
<1>9. es \in Seq(Events)
    BY <1>1, <1>8, RepliesType
<1>10. /\ sent' = sent \cup {results[i].id : i \in DOMAIN results} /\ results' = <<>>
       /\ at' = IF r.failed THEN "failed" ELSE IF calls = <<>> THEN "done" ELSE "tools"
       /\ todo' = calls
       /\ hist' = IF forced THEN h ELSE PushCalls(h, Heard(es))
       /\ direct' = IF Calls(es) = <<>> \/ forced THEN d ELSE Append(d, m)
    BY <1>7
<1> HIDE DEF es, m
<1>11. Calls(es) \in Seq(ToolCalls) /\ m \in Messages /\ m.tool_calls = Calls(es) /\ m.role = "assistant"
    BY <1>9, CallsType, ReplyType DEF m, Reply, Message
<1>12. Calls(Heard(es)) = IF job.transport = "anthropic" THEN NormalCalls(Calls(es)) ELSE Calls(es)
    BY <1>9, HeardCalls
<1>13. /\ Calls(Heard(es)) \in Seq(ToolCalls) /\ (Calls(Heard(es)) = <<>> <=> Calls(es) = <<>>)
       /\ IdsOf(Calls(Heard(es))) = IdsOf(Calls(es))
    BY <1>11, <1>12, NormalCallsType, IdsNormal
<1>14. direct' = d \/ direct' = Append(d, m)
    BY <1>10
<1>15. LoopType'
    <2>1. results' \in Seq(Outputs) /\ todo' \in Seq(ToolCalls) /\ at' \in {"failed", "done", "tools"}
        BY <1>10, <1>13
    <2> HIDE DEF forced, calls
    <2> QED
        BY <1>1, <1>2, <2>1 DEF LoopType, JobOK, Jobs
<1>16. sent' = CallIds(d)
    <2>1. IdsIn(IdsOf(results)) = {results[i].id : i \in DOMAIN results}
        <3>1. DOMAIN IdsOf(results) = DOMAIN results /\ \A j \in DOMAIN results : IdsOf(results)[j] = results[j].id
            BY DEF IdsOf
        <3> QED
            BY <3>1 DEF IdsIn
    <2> QED
        BY <1>4, <1>5, <1>10, <2>1
<1>17. SameConversation'
    <2> DEFINE ms == seen'.messages
    <2>1. ms = Normal(d)
        BY <1>8
    <2>2. direct' = d \/ (\E x \in Messages : direct' = Append(d, x))
        BY <1>11, <1>14
    <2> HIDE DEF ms, forced, calls
    <2>3. Len(direct') \in {Len(ms), Len(ms) + 1} /\ ms = Normal(SubSeq(direct', 1, Len(ms)))
        BY <1>5, <2>1, <2>2, SameNow
    <2> QED
        BY <1>2, <1>8, <1>10, <2>3 DEF SameConversation, Normal, WithAudio, ms
<1>18. EveryCallAnswered'
    <2>1. \A i \in DOMAIN seen'.messages : \A j \in DOMAIN seen'.messages[i].tool_calls :
              /\ i + j <= Len(seen'.messages)
              /\ seen'.messages[i + j].tool_call_id = seen'.messages[i].tool_calls[j].id
        BY <1>5, <1>8, AnsweredNow
    <2>2. at' = "done" /\ ~job.structured => direct' = d
        BY <1>10, <1>13
    <2>3. at' = "done" /\ ~job.structured => sent' = CallIds(direct')
        BY <1>16, <2>2
    <2>4. direct' \in Seq(Messages)
        BY <1>5, <1>11, <1>14
    <2> DEFINE dd == direct'
    <2>5. CallIds(dd) = UNION {{dd[i].tool_calls[j].id : j \in DOMAIN dd[i].tool_calls} : i \in DOMAIN dd}
        BY <2>4, CallIdsUnion
    <2> HIDE DEF forced, calls
    <2> QED
        BY <1>2, <2>1, <2>3, <2>5 DEF EveryCallAnswered
<1>19. ASSUME at' = "tools" PROVE Running'
    <2>1. ~forced /\ Calls(es) # <<>> /\ todo' = Calls(Heard(es)) /\ todo' # <<>>
        BY <1>10, <1>13, <1>19
    <2>2. hist' = PushCalls(h, Heard(es)) /\ direct' = Append(d, m)
        BY <1>10, <2>1
    <2>3. WireInv(hist', direct')
        BY <1>5, <1>9, <2>1, <2>2, WireCalls DEF m
    <2>4. WireInv(hist, direct)'
        BY <1>2, <2>3 DEF WireInv
    <2>5. Opening(direct')
        BY <1>5, <1>11, <2>2, OpeningReply
    <2>6. Outstanding' = IdsOf(Calls(es))
        <3> DEFINE ids == IdsOf(Calls(es))
        <3>1. ids \in Seq(Ids)
            BY <1>11, IdsAre
        <3>2. IdsOf(<<>>) = <<>>
            BY DEF IdsOf
        <3> HIDE DEF ids, Ids
        <3>3. <<>> \o ids = ids
            BY <3>1
        <3> QED
            BY <1>10, <1>13, <2>1, <3>2, <3>3 DEF Outstanding, ids
    <2>7. Answered(direct', Outstanding')
        BY <1>5, <1>11, <2>2, <2>6, AnsweredReply
    <2>8. CallIds(direct') = sent' \cup IdsIn(Outstanding')
        BY <1>5, <1>11, <1>16, <2>2, <2>6, CallIdsReply
    <2> HIDE DEF forced, calls
    <2> QED
        BY <1>19, <2>1, <2>4, <2>5, <2>7, <2>8 DEF Running
<1>20. at' \in {"failed", "done", "tools"}
    BY <1>10
<1> HIDE DEF forced, calls
<1> QED
    BY <1>15, <1>17, <1>18, <1>19, <1>20 DEF LoopInv

\* The inductive invariant of the loop (`tool_loop` of mcp.rs over each of its
\* transports): the history a transport keeps and the direct one tell the same,
\* and every call is answered there or still held by the loop.
THEOREM LoopInvariant == Spec => []LoopInv
<1>1. Init => LoopInv
    BY InitLoop
<1>2. LoopInv /\ [Next]_vars => LoopInv'
    <2> SUFFICES ASSUME LoopInv, [Next]_vars PROVE LoopInv'
        OBVIOUS
    <2>1. CASE PrepareAudio
        BY <2>1, PrepareAudioLoop
    <2>2. CASE Step
        BY <2>2, StepLoop
    <2>3. CASE Overloaded \/ TransportFails \/ UNCHANGED vars
        BY <2>3, OverloadedLoop
    <2>4. CASE CallTool
        BY <2>4, CallToolLoop
    <2> QED
        BY <2>1, <2>2, <2>3, <2>4 DEF Next
<1> QED
    BY <1>1, <1>2, PTL DEF Spec

\* Whatever the transport (the local engine, or one of the two HTTP APIs with
\* the translations of serve.rs and of the clients of runa-cloud in between),
\* the tools, the replies and the number of rounds: the engine gets in every
\* round that the server takes the conversation it would get directly, and the
\* server refuses a round only for the thinking block of an earlier reply that
\* the Anthropic client sends back.
THEOREM ConversationKept == Spec => []SameConversation
<1>1. LoopInv => SameConversation
    BY DEF LoopInv
<1> QED
    BY <1>1, LoopInvariant, PTL

\* In what the engine gets, every call is followed by its result in the order
\* of the calls, and when the loop is done the outputs that reached the engine
\* are those of the calls it made (`tool_loop`, `push_tool_results`).
THEOREM CallsAreAnswered == Spec => []EveryCallAnswered
<1>1. LoopInv => EveryCallAnswered
    BY DEF LoopInv
<1> QED
    BY <1>1, LoopInvariant, PTL
==============================================================================
