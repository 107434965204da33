-------------------------- MODULE GenerationProofs ---------------------------
(***************************************************************************)
(* The context of a model through any number of generations, for every     *)
(* prompt, batch size, number of drafts and way of cutting text: its cells *)
(* are those of the prompt and of the tokens that were kept.               *)
(***************************************************************************)
EXTENDS Generation, WellFoundedInduction, SequenceTheorems, TLAPS

-----------------------------------------------------------------------------
(* Tokens through commit_tokens.                                           *)

Vocab == Tokens \cup {Eos}
StreamFields == {"toks", "pending", "parser", "clock", "text", "reasoning", "reasoned", "stop"}
Reasons == {"none", "eos", "max_tokens", "stop", "panic"}

\* A set of naturals has a least element.
LEMMA NatMin == ASSUME NEW T \in SUBSET Nat, T # {} PROVE \E m \in T : \A n \in T : m <= n
<1>1. PICK m \in T : \A n \in T : ~(<<n, m>> \in OpToRel(<, Nat))
    BY NatLessThanWellFounded, WFMin
<1>2. \A n \in T : ~(n < m)
    BY <1>1 DEF OpToRel
<1> QED
    BY <1>2

\* Parsing adds to the text and to the reasoning only.
LEMMA ParsedKeeps ==
    ASSUME NEW s, NEW w, DOMAIN s = StreamFields
    PROVE  DOMAIN Parsed(s, w) = StreamFields /\ Parsed(s, w).toks = s.toks /\ Parsed(s, w).stop = s.stop
<1> DEFINE p == Push(s.parser, w)
<1>1. Parsed(s, w) = s \/ Parsed(s, w) = [s EXCEPT !.parser = ParserOf(p), !.text = @ \o p.text,
                                                    !.reasoning = @ \o p.reasoning]
    BY Zenon DEF Parsed
<1> HIDE DEF p
<1> QED
    BY <1>1 DEF StreamFields

\* A stream that ends says why.
LEMMA FinishEnds ==
    ASSUME NEW s, NEW why, DOMAIN s = StreamFields
    PROVE  DOMAIN Finish(s, why) = StreamFields /\ Finish(s, why).stop = why /\ Finish(s, why).toks = s.toks
<1> DEFINE r == Parsed(s, s.pending)
           p == Flush(Push(r.parser, <<>>))
<1>1. DOMAIN r = StreamFields /\ r.toks = s.toks
    BY ParsedKeeps
<1>2. Finish(s, why) = [r EXCEPT !.pending = <<>>, !.parser = ParserOf(p), !.text = @ \o p.text,
                                 !.reasoning = @ \o p.reasoning, !.stop = why]
    BY Zenon DEF Finish
<1> HIDE DEF r, p
<1> QED
    BY <1>1, <1>2 DEF StreamFields

\* A token is counted, below the limit, or the stream has ended.
LEMMA AcceptKeeps ==
    ASSUME NEW s, NEW t, DOMAIN s = StreamFields
    PROVE  /\ DOMAIN Accept(s, t) = StreamFields
           /\ Accept(s, t).stop = "none" => s.stop = "none" /\ Accept(s, t).toks = Append(s.toks, t)
           /\ \/ Accept(s, t).toks = s.toks
              \/ ~(Len(s.toks) >= MaxTokens) /\ Accept(s, t).toks = Append(s.toks, t)
           /\ s.stop \in Reasons => Accept(s, t).stop \in Reasons
<1> DEFINE w == s.pending \o Piece[t]
           keep == Held(w, stops)
           r == [s EXCEPT !.toks = Append(@, t)]
           cut == SubSeq(w, 1, Min(Hits(w, stops)) - 1)
           over == [r EXCEPT !.pending = w, !.stop = "panic"]
           out == [Parsed(r, SubSeq(w, 1, Len(w) - keep)) EXCEPT !.pending = From(w, Len(w) - keep + 1)]
<1>1. DOMAIN r = StreamFields /\ r.toks = Append(s.toks, t) /\ r.stop = s.stop
    BY DEF StreamFields
<1>2. \/ s.stop # "none" /\ Accept(s, t) = s
      \/ Accept(s, t) = Finish(s, "eos")
      \/ Accept(s, t) = Finish(s, "max_tokens")
      \/ ~(Len(s.toks) >= MaxTokens) /\ Accept(s, t) = Finish([r EXCEPT !.pending = cut], "stop")
      \/ ~(Len(s.toks) >= MaxTokens) /\ Accept(s, t) = over
      \/ s.stop = "none" /\ ~(Len(s.toks) >= MaxTokens) /\ Accept(s, t) = Observed(out)
    BY Zenon DEF Accept
<1> HIDE DEF r, cut, w, keep
<1>3. DOMAIN [r EXCEPT !.pending = cut] = StreamFields /\ [r EXCEPT !.pending = cut].toks = r.toks
    BY <1>1 DEF StreamFields
<1>0. DOMAIN over = StreamFields /\ over.toks = r.toks /\ over.stop = "panic"
    BY <1>1 DEF StreamFields
<1> HIDE DEF over
<1>4. DOMAIN out = StreamFields /\ out.toks = r.toks /\ out.stop = r.stop
    <2> DEFINE q == Parsed(r, SubSeq(w, 1, Len(w) - keep))
    <2>1. DOMAIN q = StreamFields /\ q.toks = r.toks /\ q.stop = r.stop
        BY <1>1, ParsedKeeps
    <2> HIDE DEF q
    <2>2. LET o == [q EXCEPT !.pending = From(w, Len(w) - keep + 1)]
          IN  DOMAIN o = StreamFields /\ o.toks = r.toks /\ o.stop = r.stop
        BY <2>1 DEF StreamFields
    <2> QED
        BY <2>2 DEF q
<1> HIDE DEF out
<1>5. DOMAIN Observed(out) = StreamFields /\ Observed(out).toks = out.toks /\ Observed(out).stop = out.stop
    BY <1>4 DEF Observed, StreamFields
<1>6. \A why : LET e == Finish([r EXCEPT !.pending = cut], why)
                IN  DOMAIN e = StreamFields /\ e.stop = why /\ e.toks = r.toks
    BY <1>3, FinishEnds
<1>7. \A why : LET e == Finish(s, why)
                IN  DOMAIN e = StreamFields /\ e.stop = why /\ e.toks = s.toks
    BY FinishEnds
<1> DEFINE a == Accept(s, t)
<1>8. \/ s.stop # "none" /\ a = s
      \/ DOMAIN a = StreamFields /\ a.stop \in {"eos", "max_tokens"} /\ a.toks = s.toks
      \/ /\ DOMAIN a = StreamFields /\ a.stop \in {"stop", "panic"} /\ ~(Len(s.toks) >= MaxTokens)
         /\ a.toks = Append(s.toks, t)
      \/ /\ DOMAIN a = StreamFields /\ a.stop = s.stop /\ s.stop = "none" /\ ~(Len(s.toks) >= MaxTokens)
         /\ a.toks = Append(s.toks, t)
    BY <1>0, <1>1, <1>2, <1>4, <1>5, <1>6, <1>7
<1> HIDE DEF a
<1>9. /\ DOMAIN a = StreamFields
      /\ a.stop = "none" => s.stop = "none" /\ a.toks = Append(s.toks, t)
      /\ a.toks = s.toks \/ (~(Len(s.toks) >= MaxTokens) /\ a.toks = Append(s.toks, t))
      /\ s.stop \in Reasons => a.stop \in Reasons
    BY <1>8 DEF Reasons
<1> QED
    BY <1>9 DEF a

\* One more token of a sequence.
LEMMA OneMore ==
    ASSUME NEW S, NEW a \in Seq(S), NEW b \in Seq(S), NEW i \in 1..Len(b)
    PROVE  Append(a \o SubSeq(b, 1, i - 1), b[i]) = a \o SubSeq(b, 1, i)
<1>1. SubSeq(b, 1, i - 1) \in Seq(S) /\ SubSeq(b, 1, i) \in Seq(S) /\ b[i] \in S
    OBVIOUS
<1>2. SubSeq(b, 1, i) = Append(SubSeq(b, 1, i - 1), b[i])
    BY <1>1
<1> QED
    BY <1>1, <1>2

\* What AcceptAll passes through: a state for each of the first n tokens.
Passes(f, s, ts, n) == f = [i \in 0..n |-> IF i = 0 THEN s ELSE Accept(f[i - 1], ts[i])]

\* There are such states, however many tokens there are.
LEMMA PassesExists ==
    ASSUME NEW s, NEW ts, NEW n \in Nat
    PROVE  \E f : Passes(f, s, ts, n)
<1> DEFINE T == {m \in Nat : ~\E f : Passes(f, s, ts, m)}
<1> SUFFICES ASSUME T # {} PROVE FALSE
    OBVIOUS
<1>1. PICK m \in T : \A k \in T : m <= k
    <2> HIDE DEF T
    <2>1. T \in SUBSET Nat
        BY DEF T
    <2> QED
        BY <2>1, NatMin
<1>2. m # 0
    <2>1. Passes([i \in 0..0 |-> s], s, ts, 0)
        <3> DEFINE f == [i \in 0..0 |-> s]
        <3>1. f = [i \in 0..0 |-> IF i = 0 THEN s ELSE Accept(f[i - 1], ts[i])]
            OBVIOUS
        <3> QED
            BY <3>1 DEF Passes
    <2> QED
        BY <2>1
<1>3. m - 1 \in Nat /\ m - 1 \notin T
    BY <1>1, <1>2
<1>4. PICK f : Passes(f, s, ts, m - 1)
    BY <1>3
<1> DEFINE g == [i \in 0..m |-> IF i = m THEN Accept(f[m - 1], ts[m]) ELSE f[i]]
<1>5. \A i \in 0..m - 1 : f[i] = IF i = 0 THEN s ELSE Accept(f[i - 1], ts[i])
    BY <1>3, <1>4 DEF Passes
<1>6. \A i \in 0..m : g[i] = IF i = 0 THEN s ELSE Accept(g[i - 1], ts[i])
    <2> SUFFICES ASSUME NEW i \in 0..m PROVE g[i] = IF i = 0 THEN s ELSE Accept(g[i - 1], ts[i])
        OBVIOUS
    <2>1. m \in Nat /\ m # 0
        BY <1>1, <1>2
    <2>2. \A j \in 0..m - 1 : g[j] = f[j]
        BY <2>1
    <2>3. g[m] = Accept(f[m - 1], ts[m])
        BY <2>1
    <2> HIDE DEF g
    <2>4. CASE i = m
        BY <2>1, <2>2, <2>3, <2>4
    <2>5. CASE i # m
        BY <1>5, <2>1, <2>2, <2>5
    <2> QED
        BY <2>4, <2>5
<1>7. g = [i \in 0..m |-> g[i]]
    OBVIOUS
<1> HIDE DEF g
<1>8. Passes(g, s, ts, m)
    BY <1>6, <1>7 DEF Passes
<1> QED
    BY <1>1, <1>8

\* No more tokens than max_tokens, and a reason of the end.
StreamOK(s) ==
    /\ DOMAIN s = StreamFields /\ s.toks \in Seq(Vocab) /\ Len(s.toks) <= MaxTokens
    /\ s.stop \in Reasons

\* One token more, or the end.
LEMMA AcceptOK ==
    ASSUME NEW s, NEW t \in Vocab, StreamOK(s)
    PROVE  StreamOK(Accept(s, t))
<1> DEFINE r == Accept(s, t)
<1>1. /\ DOMAIN r = StreamFields /\ r.stop \in Reasons
      /\ r.toks = s.toks \/ (~(Len(s.toks) >= MaxTokens) /\ r.toks = Append(s.toks, t))
    BY AcceptKeeps DEF StreamOK
<1> HIDE DEF r
<1>2. Append(s.toks, t) \in Seq(Vocab) /\ Len(Append(s.toks, t)) = Len(s.toks) + 1 /\ Len(s.toks) \in Nat
    BY DEF StreamOK
<1>3. MaxTokens \in Nat
    BY GenerationAssumption
<1>4. r.toks \in Seq(Vocab) /\ Len(r.toks) <= MaxTokens
    <2>1. CASE r.toks = s.toks
        BY <2>1, Zenon DEF StreamOK
    <2>2. CASE ~(Len(s.toks) >= MaxTokens) /\ r.toks = Append(s.toks, t)
        <3>1. Len(s.toks) + 1 <= MaxTokens
            BY <1>2, <1>3, <2>2
        <3> QED
            BY <1>2, <2>2, <3>1, Zenon
    <2> QED
        BY <1>1, <2>1, <2>2, Zenon
<1>5. StreamOK(r)
    BY <1>1, <1>4 DEF StreamOK
<1> QED
    BY <1>5 DEF r

\* Tokens that do not end the stream are all counted, in order.
LEMMA AcceptAllKeeps ==
    ASSUME NEW s, NEW ts \in Seq(Vocab), StreamOK(s)
    PROVE  /\ StreamOK(AcceptAll(s, ts))
           /\ AcceptAll(s, ts).stop = "none" => AcceptAll(s, ts).toks = s.toks \o ts
<1>0. ASSUME NEW i \in 1..Len(ts)
      PROVE  Append(s.toks \o SubSeq(ts, 1, i - 1), ts[i]) = s.toks \o SubSeq(ts, 1, i)
    BY OneMore DEF StreamOK
<1> DEFINE n == Len(ts)
           f == CHOOSE f : Passes(f, s, ts, n)
<1>1. n \in Nat
    OBVIOUS
<1>2. Passes(f, s, ts, n)
    <2>1. \E g : Passes(g, s, ts, n)
        BY <1>1, PassesExists
    <2> QED
        BY <2>1, Zenon
<1>3. AcceptAll(s, ts) = f[n]
    BY Zenon DEF AcceptAll, Passes
<1> HIDE DEF f
<1>4. f[0] = s /\ \A i \in 1..n : f[i] = Accept(f[i - 1], ts[i])
    BY <1>1, <1>2 DEF Passes
<1> DEFINE Good(i) == /\ StreamOK(f[i])
                      /\ f[i].stop = "none" => f[i].toks = s.toks \o SubSeq(ts, 1, i)
           T == {i \in 0..n : ~Good(i)}
<1>5. T = {}
    <2> SUFFICES ASSUME T # {} PROVE FALSE
        OBVIOUS
    <2>1. PICK m \in T : \A k \in T : m <= k
        <3> HIDE DEF T
        <3>1. T \in SUBSET Nat
            BY <1>1 DEF T
        <3> QED
            BY <3>1, NatMin
    <2>2. Good(0)
        <3>1. SubSeq(ts, 1, 0) = <<>> /\ s.toks \o <<>> = s.toks
            BY DEF StreamOK
        <3> QED
            BY <1>4, <3>1
    <2>3. m \in 1..n /\ m - 1 \in 0..n /\ m - 1 \notin T
        <3> HIDE DEF Good
        <3> QED
            BY <1>1, <2>1, <2>2
    <2>4. Good(m - 1)
        <3> HIDE DEF Good
        <3> QED
            BY <2>3
    <2>5. f[m] = Accept(f[m - 1], ts[m])
        BY <1>4, <2>3
    <2>6. f[m].stop = "none" => f[m - 1].stop = "none" /\ f[m].toks = Append(f[m - 1].toks, ts[m])
        BY <2>4, <2>5, AcceptKeeps DEF StreamOK
    <2>7. Append(s.toks \o SubSeq(ts, 1, m - 1), ts[m]) = s.toks \o SubSeq(ts, 1, m)
        <3> HIDE DEF T
        <3> QED
            BY <1>0, <2>3
    <2>8. StreamOK(f[m])
        <3>1. ts[m] \in Vocab
            BY <2>3
        <3> QED
            BY <2>4, <2>5, <3>1, AcceptOK
    <2>9. Good(m)
        BY <2>4, <2>6, <2>7, <2>8
    <2> HIDE DEF Good
    <2> QED
        BY <2>1, <2>9
<1>6. Good(n)
    <2> HIDE DEF Good
    <2> QED
        BY <1>1, <1>5
<1>7. SubSeq(ts, 1, n) = ts
    OBVIOUS
<1> QED
    BY <1>3, <1>6, <1>7

-----------------------------------------------------------------------------
(* The cells of the context.                                               *)

\* Adding a run of tokens at the end.
LEMMA CellsOfConcat ==
    ASSUME NEW S, NEW a \in Seq(S), NEW b \in Seq(S)
    PROVE  CellsOf(a \o b) = CellsOf(a) \cup {<<Len(a) + i - 1, b[i]>> : i \in 1..Len(b)}
<1>1. /\ Len(a) \in Nat /\ Len(b) \in Nat /\ Len(a \o b) = Len(a) + Len(b)
      /\ \A i \in 1..Len(a) : (a \o b)[i] = a[i]
      /\ \A i \in 1..Len(b) : (a \o b)[Len(a) + i] = b[i]
    OBVIOUS
<1>2. ASSUME NEW c \in CellsOf(a \o b)
      PROVE  c \in CellsOf(a) \cup {<<Len(a) + i - 1, b[i]>> : i \in 1..Len(b)}
    <2>1. PICK i \in 1..Len(a) + Len(b) : c = <<i - 1, (a \o b)[i]>>
        BY <1>1 DEF CellsOf
    <2>2. CASE i <= Len(a)
        BY <1>1, <2>1, <2>2 DEF CellsOf
    <2>3. CASE i > Len(a)
        <3>1. i - Len(a) \in 1..Len(b) /\ Len(a) + (i - Len(a)) = i
            BY <1>1, <2>1, <2>3
        <3>2. c = <<Len(a) + (i - Len(a)) - 1, b[i - Len(a)]>>
            BY <1>1, <2>1, <3>1
        <3> QED
            BY <3>1, <3>2
    <2>4. i \in Nat /\ Len(a) \in Nat
        BY <1>1, <2>1
    <2> QED
        BY <2>2, <2>3, <2>4
<1>3. CellsOf(a) \subseteq CellsOf(a \o b)
    <2> SUFFICES ASSUME NEW i \in 1..Len(a) PROVE <<i - 1, a[i]>> \in CellsOf(a \o b)
        BY DEF CellsOf
    <2> QED
        BY <1>1 DEF CellsOf
<1>4. ASSUME NEW i \in 1..Len(b) PROVE <<Len(a) + i - 1, b[i]>> \in CellsOf(a \o b)
    <2>1. Len(a) + i \in 1..Len(a \o b) /\ (a \o b)[Len(a) + i] = b[i]
        BY <1>1
    <2> QED
        BY <2>1 DEF CellsOf
<1> QED
    BY <1>2, <1>3, <1>4

\* Taking out the cells from a position on.
LEMMA CellsOfCut ==
    ASSUME NEW a \in Seq(Vocab), NEW b \in Seq(Vocab), NEW k \in 1..Len(b)
    PROVE  {c \in CellsOf(a \o b) : c[1] < Len(a) + k} = CellsOf(a \o SubSeq(b, 1, k))
<1> DEFINE d == SubSeq(b, 1, k)
<1>1. /\ Len(a) \in Nat /\ Len(b) \in Nat /\ Len(a \o b) = Len(a) + Len(b)
      /\ \A i \in 1..Len(a) : (a \o b)[i] = a[i]
      /\ \A i \in 1..Len(b) : (a \o b)[Len(a) + i] = b[i]
    OBVIOUS
<1>2. d \in Seq(Vocab) /\ Len(d) = k /\ \A i \in 1..k : d[i] = b[i]
    OBVIOUS
<1> HIDE DEF d
<1>3. /\ Len(a \o d) = Len(a) + k
      /\ \A i \in 1..Len(a) : (a \o d)[i] = a[i]
      /\ \A i \in 1..k : (a \o d)[Len(a) + i] = d[i]
    BY <1>2
<1>4. \A i \in 1..Len(a) + k : (a \o d)[i] = (a \o b)[i]
    <2> SUFFICES ASSUME NEW i \in 1..Len(a) + k PROVE (a \o d)[i] = (a \o b)[i]
        OBVIOUS
    <2>1. CASE i <= Len(a)
        BY <1>1, <1>3, <2>1
    <2>2. CASE i > Len(a)
        <3>1. i - Len(a) \in 1..k /\ i - Len(a) \in 1..Len(b) /\ Len(a) + (i - Len(a)) = i
            BY <1>1, <2>2
        <3> QED
            BY <1>1, <1>2, <1>3, <3>1
    <2>3. i <= Len(a) \/ i > Len(a)
        BY <1>1
    <2> QED
        BY <2>1, <2>2, <2>3, Zenon
<1>5. ASSUME NEW c \in CellsOf(a \o b), c[1] < Len(a) + k PROVE c \in CellsOf(a \o d)
    <2>1. PICK i \in 1..Len(a) + Len(b) : c = <<i - 1, (a \o b)[i]>>
        BY <1>1 DEF CellsOf
    <2>2. i \in 1..Len(a) + k
        BY <1>1, <1>5, <2>1
    <2> QED
        BY <1>3, <1>4, <2>1, <2>2 DEF CellsOf
<1>6. ASSUME NEW c \in CellsOf(a \o d) PROVE c \in CellsOf(a \o b) /\ c[1] < Len(a) + k
    <2>1. PICK i \in 1..Len(a) + k : c = <<i - 1, (a \o d)[i]>>
        BY <1>3 DEF CellsOf
    <2>2. c = <<i - 1, (a \o b)[i]>>
        BY <1>4, <2>1
    <2>3. Len(a) \in Nat /\ Len(b) \in Nat /\ Len(a \o b) = Len(a) + Len(b) /\ c[1] = i - 1
        BY <1>1, <2>1
    <2>4. i \in 1..Len(a \o b) /\ i - 1 < Len(a) + k
        BY <2>3
    <2> QED
        BY <2>2, <2>3, <2>4 DEF CellsOf
<1> QED
    BY <1>5, <1>6 DEF d

\* The remainder of a number that is written with its quotient.
LEMMA ModUnique ==
    ASSUME NEW b \in Nat \ {0}, NEW c \in Nat, NEW r \in 0..b - 1
    PROVE  (c * b + r) % b = r
<1> DEFINE a == c * b + r
           q == a \div b
           m == a % b
<1>1. a \in Nat /\ a = c * b + r
    OBVIOUS
<1>2. q \in Int /\ m \in 0..b - 1 /\ a = b * q + m
    BY <1>1
<1> HIDE DEF a, q, m
<1>3. b * q \in Int /\ b * c \in Int /\ c * b = b * c
    BY <1>2
<1>4. q = c
    <2>1. CASE q < c
        <3>1. b * (q + 1) <= b * c
            BY <1>2, <2>1
        <3>2. b * (q + 1) = b * q + b
            BY <1>2
        <3> QED
            BY <1>1, <1>2, <1>3, <3>1, <3>2
    <2>2. CASE q > c
        <3>1. b * (c + 1) <= b * q
            BY <1>2, <2>2
        <3>2. b * (c + 1) = b * c + b
            OBVIOUS
        <3> QED
            BY <1>1, <1>2, <1>3, <3>1, <3>2
    <2> QED
        BY <1>2, <2>1, <2>2
<1>5. m = r
    BY <1>1, <1>2, <1>3, <1>4
<1> QED
    BY <1>5 DEF m, a

\* The least of two numbers.
LEMMA MinOfTwo ==
    ASSUME NEW x \in Int, NEW y \in Int
    PROVE  Min({x, y}) = IF x <= y THEN x ELSE y
<1>1. \A u, v \in {x, y} : (\A z \in {x, y} : u <= z) /\ (\A z \in {x, y} : v <= z) => u = v
    OBVIOUS
<1>2. \A z \in {x, y} : (IF x <= y THEN x ELSE y) <= z
    OBVIOUS
<1> QED
    BY <1>1, <1>2 DEF Min

\* The row that a restored prompt samples from is the last row of its last
\* chunk.
LEMMA LastRow ==
    ASSUME NEW c \in Nat, c * NBatch < Len(Prompt), Len(Prompt) <= c * NBatch + NBatch
    PROVE  LastPrefillIdx = Len(Prompt) - c * NBatch - 1
<1> DEFINE L == Len(Prompt)
           from == c * NBatch
<1>1. L \in Nat /\ NBatch \in Nat \ {0} /\ from \in Nat
    BY GenerationAssumption
<1>2. from < L /\ L <= from + NBatch
    OBVIOUS
<1>3. CASE L = from + NBatch
    <2>1. L = (c + 1) * NBatch + 0
        BY <1>1, <1>3
    <2>2. L % NBatch = 0
        BY <1>1, <2>1, ModUnique
    <2>3. NBatch <= L
        BY <1>1, <1>3
    <2>4. Min({NBatch, L}) = NBatch
        BY <1>1, <2>3, MinOfTwo
    <2> HIDE DEF from, L
    <2>5. LastPrefillIdx = NBatch - 1
        BY <2>2, <2>4 DEF LastPrefillIdx, L
    <2> QED
        BY <1>1, <1>3, <2>5 DEF from, L
<1>4. CASE L < from + NBatch
    <2> DEFINE r == L - from
    <2>1. r \in 0..NBatch - 1 /\ r # 0 /\ L = c * NBatch + r
        BY <1>1, <1>2, <1>4
    <2> HIDE DEF r
    <2>2. L % NBatch = r
        BY <1>1, <2>1, ModUnique
    <2>3. LastPrefillIdx = r - 1
        BY <2>1, <2>2 DEF LastPrefillIdx
    <2> QED
        BY <2>3 DEF r
<1> QED
    BY <1>1, <1>2, <1>3, <1>4

-----------------------------------------------------------------------------
(* The inductive invariant.                                                *)

\* Before a chunk, and after the last one.
PrefillInv ==
    /\ chunk \in Nat /\ chunk * NBatch < Len(Prompt) /\ n_past = chunk * NBatch
    /\ cells = CellsOf(SubSeq(Prompt, 1, n_past))

\* The cells of a context: those of ts, and no others unless some are stuck.
\* Those of the prompt are never among these.
Holds(cs, ts, n) ==
    /\ CellsOf(ts) \subseteq cs
    /\ n = 0 => cs = CellsOf(ts)
    /\ \A c \in cs : c[1] < Len(Prompt) => c \in CellsOf(Prompt)

DecodeInv ==
    /\ n_past = Len(Prompt) + Len(stream.toks)
    /\ Holds(cells, Prompt \o stream.toks, stuck)
    /\ base \in Int /\ last_idx \in Int /\ base + last_idx = n_past - 1

\* The entry of the prompt cache: the cells of the prompt, and the logits of its
\* last token in the row that a restored generation samples from.
StoredInv(e) ==
    /\ e.cells = CellsOf(Prompt)
    /\ e.base \in Int /\ e.base + LastPrefillIdx = Len(Prompt) - 1

GenInv ==
    /\ phase = "start" => chunk = 0
    /\ phase \in {"start", "prefill"} => stream = NewStream
    /\ phase = "prefill" => PrefillInv
    /\ phase = "decode" => DecodeInv
    /\ stored # NoState => StoredInv(stored)
    /\ StreamOK(stream) /\ inject \in Seq(Tokens) /\ closeToks \in CloseTokens
    /\ stuck \in Nat

\* What is assumed of the constants, in the form the proofs use.
LEMMA ConstantTypes ==
    /\ NBatch \in Nat \ {0} /\ Len(Prompt) \in Nat \ {0} /\ Prompt \in Seq(Tokens) /\ Prompt \in Seq(Vocab)
    /\ Message \in Seq(Tokens) /\ CloseTokens \subseteq Seq(Tokens) /\ DraftTokens \subseteq Vocab
<1>1. Prompt \in Seq(Tokens) /\ Prompt # <<>> /\ NBatch \in Nat \ {0}
    BY GenerationAssumption
<1>2. Len(Prompt) \in Nat \ {0}
    BY <1>1
<1>3. Prompt \in Seq(Vocab)
    BY <1>1 DEF Vocab
<1> QED
    BY <1>1, <1>2, <1>3, GenerationAssumption DEF Vocab

\* A new stream has no token.
LEMMA NewStreamEmpty ==
    StreamOK(NewStream) /\ NewStream.toks = <<>> /\ Prompt \o NewStream.toks = Prompt
<1>1. DOMAIN NewStream = StreamFields /\ NewStream.toks = <<>> /\ NewStream.stop = "none"
    BY DEF NewStream, StreamFields
<1>2. MaxTokens \in Nat
    BY GenerationAssumption
<1>3. <<>> \in Seq(Vocab) /\ Len(<<>>) = 0
    OBVIOUS
<1>4. StreamOK(NewStream)
    BY <1>1, <1>2, <1>3 DEF StreamOK, Reasons
<1> QED
    BY <1>1, <1>4, ConstantTypes

\* The prompt is in the context, by prefilling or by restoring it.
LEMMA PromptReady ==
    ASSUME stream' = NewStream, n_past' = Len(Prompt), cells' = CellsOf(Prompt),
           base' \in Int, last_idx' \in Int, base' + last_idx' = Len(Prompt) - 1
    PROVE  DecodeInv'
<1>1. NewStream.toks \in Seq(Vocab) /\ Len(NewStream.toks) = 0
    BY NewStreamEmpty
<1>2. n_past' = Len(Prompt) + Len(NewStream.toks)
    BY <1>1, ConstantTypes
<1> QED
    BY <1>1, <1>2, NewStreamEmpty DEF DecodeInv, Holds

\* A prompt from the prompt cache.
LEMMA RestoreKeeps == GenInv /\ Restore => GenInv'
<1> SUFFICES ASSUME GenInv, Restore PROVE GenInv'
    OBVIOUS
<1>1. LastPrefillIdx \in Int
    <2>1. Len(Prompt) \in Nat /\ NBatch \in Nat \ {0}
        BY ConstantTypes
    <2>2. Min({NBatch, Len(Prompt)}) \in Int /\ Len(Prompt) % NBatch \in Int
        BY <2>1, MinOfTwo
    <2> QED
        BY <2>2 DEF LastPrefillIdx
<1>2. StoredInv(stored) /\ stream = NewStream
    BY DEF Restore, GenInv
<1>3. DecodeInv'
    BY <1>1, <1>2, PromptReady DEF Restore, StoredInv
<1> QED
    BY <1>3 DEF GenInv, Restore

\* A prompt that is not in the cache.
LEMMA MissKeeps == GenInv /\ Miss => GenInv'
<1> SUFFICES ASSUME GenInv, Miss PROVE GenInv'
    OBVIOUS
<1>1. SubSeq(Prompt, 1, 0) = <<>> /\ CellsOf(<<>>) = {}
    BY ConstantTypes DEF CellsOf
<1>2. chunk' = 0 /\ n_past' = 0 /\ cells' = {}
    BY DEF Miss, GenInv
<1>3. 0 * NBatch = 0 /\ 0 < Len(Prompt)
    BY ConstantTypes
<1>4. PrefillInv'
    BY <1>1, <1>2, <1>3 DEF PrefillInv
<1> QED
    BY <1>4 DEF GenInv, Miss

\* A chunk of the prompt, with the state of the last one in the cache.
LEMMA PrefillKeeps == GenInv /\ PrefillStep => GenInv'
<1> SUFFICES ASSUME GenInv, PrefillStep PROVE GenInv'
    OBVIOUS
<1> DEFINE from == chunk * NBatch
           to == Min({from + NBatch, Len(Prompt)})
           L == Len(Prompt)
<1>1. PrefillInv /\ stream = NewStream /\ phase = "prefill"
    BY DEF GenInv, PrefillStep
<1>2. from \in Nat /\ from < L /\ n_past = from /\ chunk \in Nat /\ L \in Nat /\ NBatch \in Nat \ {0}
    BY <1>1, ConstantTypes DEF PrefillInv
<1>3. to = IF from + NBatch <= L THEN from + NBatch ELSE L
    BY <1>2, MinOfTwo
<1>4. /\ cells' = cells \cup {<<n_past + i - from - 1, Prompt[i]>> : i \in (from + 1)..to}
      /\ n_past' = n_past + to - from /\ last_idx' = to - from - 1 /\ base' = n_past /\ chunk' = chunk + 1
      /\ IF to = L THEN phase' = "decode" /\ StorePrompt ELSE UNCHANGED <<phase, stored>>
      /\ UNCHANGED <<stuck, stream, inject, injected, closeToks, past>>
    BY DEF PrefillStep
<1>5. cells = CellsOf(SubSeq(Prompt, 1, from))
    BY <1>1, <1>2 DEF PrefillInv
<1> HIDE DEF from, to, L
<1>6. to \in from + 1..L /\ to \in Nat
    BY <1>2, <1>3
<1>7. cells' = CellsOf(SubSeq(Prompt, 1, to))
    <2>1. Prompt \in Seq(Tokens) /\ Len(Prompt) = L
        BY ConstantTypes DEF L
    <2>2. /\ Len(SubSeq(Prompt, 1, from)) = from /\ Len(SubSeq(Prompt, 1, to)) = to
          /\ \A i \in 1..from : SubSeq(Prompt, 1, from)[i] = Prompt[i]
          /\ \A i \in 1..to : SubSeq(Prompt, 1, to)[i] = Prompt[i]
        BY <1>2, <1>6, <2>1
    <2>3. CellsOf(SubSeq(Prompt, 1, from)) = {<<i - 1, Prompt[i]>> : i \in 1..from}
        BY <2>2 DEF CellsOf
    <2>4. CellsOf(SubSeq(Prompt, 1, to)) = {<<i - 1, Prompt[i]>> : i \in 1..to}
        BY <2>2 DEF CellsOf
    <2>5. \A i \in (from + 1)..to : n_past + i - from - 1 = i - 1
        BY <1>2, <1>6
    <2>6. {<<n_past + i - from - 1, Prompt[i]>> : i \in (from + 1)..to} = {<<i - 1, Prompt[i]>> : i \in (from + 1)..to}
        BY <2>5
    <2>7. \A i : i \in 1..to <=> i \in 1..from \/ i \in (from + 1)..to
        BY <1>2, <1>6
    <2>8. {<<i - 1, Prompt[i]>> : i \in 1..to}
              = {<<i - 1, Prompt[i]>> : i \in 1..from} \cup {<<i - 1, Prompt[i]>> : i \in (from + 1)..to}
        BY <2>7
    <2> QED
        BY <1>4, <1>5, <2>3, <2>4, <2>6, <2>8
<1>8. CASE to # L
    <2>1. to = from + NBatch /\ to < L
        BY <1>2, <1>3, <1>6, <1>8
    <2>2. (chunk + 1) * NBatch = from + NBatch
        BY <1>2 DEF from
    <2>3. n_past' = to
        BY <1>2, <1>4, <1>6
    <2>4. chunk' \in Nat /\ chunk' * NBatch = to /\ to < Len(Prompt)
        <3>1. chunk' = chunk + 1 /\ chunk + 1 \in Nat
            BY <1>2, <1>4
        <3> QED
            BY <2>1, <2>2, <3>1 DEF L
    <2>5. PrefillInv'
        BY <1>7, <2>3, <2>4, Zenon DEF PrefillInv
    <2> QED
        BY <1>1, <1>4, <1>8, <2>5 DEF GenInv
<1>9. CASE to = L
    <2>1. SubSeq(Prompt, 1, L) = Prompt
        BY ConstantTypes DEF L
    <2>2. n_past' = L /\ last_idx' = L - from - 1 /\ base' = from /\ cells' = CellsOf(Prompt)
        <3>1. cells' = CellsOf(Prompt)
            BY <1>7, <1>9, <2>1, Zenon
        <3>2. n_past' = L
            BY <1>2, <1>4, <1>9
        <3> QED
            BY <1>2, <1>4, <1>9, <3>1, <3>2, Zenon
    <2>3. DecodeInv'
        <3>1. base' \in Int /\ last_idx' \in Int /\ base' + last_idx' = L - 1
            BY <1>2, <2>2
        <3> QED
            BY <1>1, <1>4, <2>2, <3>1, PromptReady DEF L
    <2>4. LastPrefillIdx = L - from - 1
        <3>1. L <= from + NBatch
            BY <1>2, <1>3, <1>9
        <3> QED
            BY <1>2, <3>1, LastRow DEF L, from
    <2>5. stored' # NoState => StoredInv(stored')
        <3> DEFINE e == [cells |-> cells', base |-> base']
        <3>1. stored' = stored \/ stored' = e
            BY <1>4, <1>9 DEF StorePrompt
        <3>2. e.cells = CellsOf(Prompt) /\ e.base = from
            BY <2>2
        <3>3. StoredInv(e)
            <4>1. from + LastPrefillIdx = L - 1
                BY <1>2, <2>4
            <4> HIDE DEF e
            <4> QED
                BY <1>2, <3>2, <4>1 DEF StoredInv, L
        <3> QED
            BY <3>1, <3>3 DEF GenInv
    <2> QED
        BY <1>4, <1>9, <2>3, <2>5 DEF GenInv
<1> QED
    BY <1>8, <1>9

\* A batch leaves the cells and the row of the tokens that were kept of it.
LEMMA CommitKeeps ==
    ASSUME DecodeInv, stuck \in Nat, StreamOK(stream), NEW seq \in Seq(Vocab), NEW k \in 1..Len(seq), Commit(seq, k)
    PROVE  StreamOK(stream') /\ (phase' = "decode" => DecodeInv')
<1>0. StreamOK(stream')
    <2>1. SubSeq(seq, 1, k) \in Seq(Vocab)
        OBVIOUS
    <2> QED
        BY <2>1, AcceptAllKeeps DEF Commit
<1> SUFFICES ASSUME phase' = "decode" PROVE DecodeInv'
    BY <1>0
<1> DEFINE toks == stream.toks
           kept == SubSeq(seq, 1, k)
           ctx == Prompt \o toks
           rows == {<<n_past + i - 1, seq[i]>> : i \in 1..Len(seq)}
<1>1. toks \in Seq(Vocab) /\ n_past = Len(Prompt) + Len(toks) /\ Holds(cells, ctx, stuck)
    BY DEF DecodeInv, StreamOK
<1>2. Prompt \in Seq(Vocab) /\ Len(Prompt) \in Nat /\ Len(toks) \in Nat
    BY <1>1, ConstantTypes
<1>3. kept \in Seq(Vocab) /\ Len(kept) = k /\ Len(seq) \in Nat
    OBVIOUS
<1>4. ctx \in Seq(Vocab) /\ Len(ctx) = n_past
    BY <1>1, <1>2
<1>5. /\ \/ /\ cells' = IF k < Len(seq) THEN {c \in cells \cup rows : c[1] < n_past + k} ELSE cells \cup rows
            /\ stuck' = stuck
         \/ cells' = cells \cup rows /\ stuck' = stuck + 1
      /\ n_past' = n_past + k /\ last_idx' = k - 1 /\ base' = n_past
      /\ stream' = AcceptAll(stream, kept) /\ stream'.stop = "none"
    BY DEF Commit, PhaseOf
<1>6. stream'.toks = toks \o kept
    BY <1>3, <1>5, AcceptAllKeeps
<1> HIDE DEF toks, kept
<1>7. stream'.toks \in Seq(Vocab) /\ Len(stream'.toks) = Len(toks) + k
    <2>1. toks \o kept \in Seq(Vocab) /\ Len(toks \o kept) = Len(toks) + Len(kept)
        BY <1>1, <1>3
    <2> QED
        BY <1>3, <1>6, <2>1, Zenon
<1>8. Prompt \o stream'.toks = ctx \o kept
    <2>1. Prompt \o (toks \o kept) = (Prompt \o toks) \o kept
        BY <1>1, <1>2, <1>3
    <2> QED
        BY <1>6, <2>1, Zenon
<1> HIDE DEF ctx
<1>9. CellsOf(ctx \o seq) = CellsOf(ctx) \cup rows
    <2>1. CellsOf(ctx \o seq) = CellsOf(ctx) \cup {<<Len(ctx) + i - 1, seq[i]>> : i \in 1..Len(seq)}
        BY <1>4, CellsOfConcat
    <2> QED
        BY <1>4, <2>1, Zenon
<1>20. \A c \in rows : ~(c[1] < Len(Prompt))
    BY <1>1, <1>2, <1>3
<1> DEFINE cut == {c \in CellsOf(ctx \o seq) : c[1] < n_past + k}
<1> HIDE DEF rows
<1>21. CellsOf(ctx \o kept) = IF k < Len(seq) THEN cut ELSE CellsOf(ctx \o seq)
    <2>1. CASE k < Len(seq)
        <3>1. {c \in CellsOf(ctx \o seq) : c[1] < Len(ctx) + k} = CellsOf(ctx \o SubSeq(seq, 1, k))
            BY <1>4, CellsOfCut, Zenon
        <3> QED
            BY <1>4, <2>1, <3>1, Zenon DEF kept
    <2>2. CASE ~(k < Len(seq))
        <3>1. kept = seq
            BY <2>2 DEF kept
        <3> QED
            BY <2>2, <3>1
    <2> QED
        BY <2>1, <2>2
<1>22. CellsOf(ctx) \subseteq cells /\ (stuck = 0 => cells = CellsOf(ctx))
    BY <1>1 DEF Holds
<1>23. CellsOf(ctx \o kept) \subseteq cells'
    <2>1. CellsOf(ctx \o seq) \subseteq cells \cup rows
        BY <1>9, <1>22
    <2>2. CellsOf(ctx \o kept) \subseteq cells \cup rows
        BY <1>21, <2>1
    <2>3. CASE cells' = cells \cup rows
        BY <2>2, <2>3
    <2>4. CASE k < Len(seq) /\ cells' = {c \in cells \cup rows : c[1] < n_past + k}
        <3>1. cut \subseteq {c \in cells \cup rows : c[1] < n_past + k}
            BY <2>1
        <3> HIDE DEF cut
        <3> QED
            BY <1>21, <2>4, <3>1
    <2> QED
        BY <1>5, <2>3, <2>4
<1>24. stuck' = 0 => cells' = CellsOf(ctx \o kept)
    <2> SUFFICES ASSUME stuck' = 0 PROVE cells' = CellsOf(ctx \o kept)
        OBVIOUS
    <2>0. stuck + 1 # 0
        OBVIOUS
    <2>1. /\ stuck = 0
          /\ cells' = IF k < Len(seq) THEN {c \in cells \cup rows : c[1] < n_past + k} ELSE cells \cup rows
        BY <1>5, <2>0
    <2>2. cells \cup rows = CellsOf(ctx \o seq)
        BY <1>9, <1>22, <2>1
    <2> QED
        BY <1>21, <2>1, <2>2, Zenon
<1>25. \A c \in cells' : c[1] < Len(Prompt) => c \in CellsOf(Prompt)
    <2>1. \A c \in cells' : c \in cells \/ c \in rows
        BY <1>5
    <2> QED
        BY <1>1, <1>20, <2>1 DEF Holds
<1> HIDE DEF cut
<1>10. Holds(cells', ctx \o kept, stuck')
    BY <1>23, <1>24, <1>25 DEF Holds
<1>11. n_past \in Nat /\ k \in Nat
    BY <1>1, <1>2
<1>12. n_past' = Len(Prompt) + Len(stream'.toks)
    BY <1>1, <1>2, <1>5, <1>7, <1>11
<1>13. base' \in Int /\ last_idx' \in Int /\ base' + last_idx' = n_past' - 1
    BY <1>5, <1>11
<1> QED
    BY <1>6, <1>7, <1>8, <1>10, <1>12, <1>13 DEF DecodeInv

\* What a forced or sampled token leaves: everything but the invariants of the
\* queue.
LEMMA BatchKeeps ==
    ASSUME GenInv, Ready, NEW t \in Tokens, NEW d \in Drafts, NEW k \in 1..NBatch, k <= Len(d) + 1,
           Commit(<<t>> \o d, k), inject' \in Seq(Tokens)
    PROVE  GenInv'
<1> DEFINE seq == <<t>> \o d
<1>1. PICK n \in 0..Room : d \in [1..n -> Vocab]
    BY ConstantTypes DEF Drafts
<1>2. d \in Seq(Vocab)
    <2>1. n \in Nat
        BY <1>1
    <2> QED
        BY <1>1, <2>1
<1>3. <<t>> \in Seq(Vocab) /\ Len(<<t>>) = 1
    BY DEF Vocab
<1>4. seq \in Seq(Vocab) /\ k \in 1..Len(seq)
    <2>1. seq \in Seq(Vocab) /\ Len(seq) = Len(d) + 1 /\ Len(d) \in Nat
        BY <1>2, <1>3
    <2> QED
        BY <2>1, ConstantTypes
<1>5. DecodeInv /\ StreamOK(stream) /\ stuck \in Nat
    BY DEF GenInv, Ready
<1> HIDE DEF seq
<1>6. Commit(seq, k)
    BY DEF seq
<1>7. StreamOK(stream') /\ (phase' = "decode" => DecodeInv')
    BY <1>4, <1>5, <1>6, CommitKeeps
<1>8. phase' \in {"decode", "done", "failed"} /\ UNCHANGED <<stored, closeToks>> /\ stuck' \in Nat
    BY <1>5, <1>6 DEF Commit, PhaseOf
<1> QED
    BY <1>7, <1>8 DEF GenInv

\* A forced token.
LEMMA InjectKeeps == GenInv /\ InjectStep => GenInv'
<1> SUFFICES ASSUME GenInv, InjectStep PROVE GenInv'
    OBVIOUS
<1>1. Queue \in Seq(Tokens)
    <2>1. inject \in Seq(Tokens) /\ closeToks \in Seq(Tokens) /\ Message \in Seq(Tokens)
        BY ConstantTypes DEF GenInv
    <2> QED
        BY <2>1 DEF Queue
<1>2. Ready /\ Queue # <<>> /\ inject' = Tail(Queue)
    BY DEF InjectStep
<1>3. Head(Queue) \in Tokens /\ Tail(Queue) \in Seq(Tokens)
    BY <1>1, <1>2
<1>4. PICK d \in Drafts, k \in 1..NBatch : k <= Len(d) + 1 /\ Commit(<<Head(Queue)>> \o d, k)
    BY DEF InjectStep
<1> QED
    BY <1>2, <1>3, <1>4, BatchKeeps

\* A sampled token.
LEMMA SampleKeeps == GenInv /\ SampleStep => GenInv'
<1> SUFFICES ASSUME GenInv, SampleStep PROVE GenInv'
    OBVIOUS
<1>1. PICK t \in Tokens, d \in Drafts, k \in 1..NBatch : k <= Len(d) + 1 /\ Commit(<<t>> \o d, k)
    BY DEF SampleStep
<1>2. Ready /\ inject' \in Seq(Tokens)
    BY DEF SampleStep, GenInv
<1> QED
    BY <1>1, <1>2, BatchKeeps

\* The end of a stream keeps its tokens.
LEMMA TerminalKeeps ==
    ASSUME GenInv, NEW why \in Reasons, Terminal(why), inject' = inject
    PROVE  GenInv'
<1>1. StreamOK(Finish(stream, why))
    BY FinishEnds DEF GenInv, StreamOK
<1> QED
    BY <1>1 DEF GenInv, Terminal

\* GenInv holds throughout.
LEMMA GenInvHolds == Spec => []GenInv
<1>1. Init => GenInv
    BY NewStreamEmpty DEF Init, GenInv
<1>2. GenInv /\ [Next]_vars => GenInv'
    <2> SUFFICES ASSUME GenInv, [Next]_vars PROVE GenInv'
        OBVIOUS
    <2>1. CASE Restore
        BY <2>1, RestoreKeeps
    <2>2. CASE Miss
        BY <2>2, MissKeeps
    <2>3. CASE PrefillStep
        BY <2>3, PrefillKeeps
    <2>4. CASE DecodeFails
        BY <2>4 DEF DecodeFails, GenInv
    <2>5. CASE Limit
        BY <2>5, TerminalKeeps DEF Limit, Reasons
    <2>6. CASE InjectStep
        BY <2>6, InjectKeeps
    <2>7. CASE SampleStep
        BY <2>7, SampleKeeps
    <2>8. CASE SampleEos
        BY <2>8, TerminalKeeps DEF SampleEos, Reasons
    <2>9. CASE NextGeneration
        BY <2>9, NewStreamEmpty DEF NextGeneration, GenInv
    <2>10. CASE UNCHANGED vars
        BY <2>10 DEF vars, GenInv, PrefillInv, DecodeInv
    <2> QED
        BY <2>1, <2>2, <2>3, <2>4, <2>5, <2>6, <2>7, <2>8, <2>9, <2>10 DEF Next
<1> QED
    BY <1>1, <1>2, PTL DEF Spec

\* Through any number of generations, restored or prefilled prompts, rejected
\* drafts, forced tokens, panics and failed decodes, the context holds the prompt
\* and the kept tokens, the prompt cache the prompt alone, and the next token is
\* sampled from the row of the last one.  A stale cell is one of a draft that was
\* rejected in the same generation and that clear_kv_cache_seq did not take out:
\* none is left of a generation before, and none takes a place of the prompt.
THEOREM KvAlwaysExact == Spec => []KvExact
<1>1. GenInv => KvExact
    BY DEF GenInv, KvExact, PrefillInv, DecodeInv, StoredInv, Holds
<1> QED
    BY <1>1, GenInvHolds, PTL

-----------------------------------------------------------------------------
(* How far a generation goes.                                              *)

\* The least of three numbers is none of the larger ones.
LEMMA MinOfThree ==
    ASSUME NEW x \in Int, NEW y \in Int, NEW z \in Int
    PROVE  LET m == Min({x, y, z}) IN m \in Int /\ m <= x /\ m <= y /\ m <= z
<1> DEFINE m == Min({x, y, z})
<1>1. \E u \in {x, y, z} : \A v \in {x, y, z} : u <= v
    OBVIOUS
<1>2. m \in {x, y, z} /\ \A v \in {x, y, z} : m <= v
    BY <1>1 DEF Min
<1> HIDE DEF m
<1>3. m \in Int /\ m <= x /\ m <= y /\ m <= z
    BY <1>2
<1> QED
    BY <1>3 DEF m

\* The row of a restored prompt is a row of a batch.
LEMMA LastRowInBatch == LastPrefillIdx \in 0..NBatch - 1
<1>1. Len(Prompt) \in Nat \ {0} /\ NBatch \in Nat \ {0}
    BY ConstantTypes
<1>2. Min({NBatch, Len(Prompt)}) \in 1..NBatch
    BY <1>1, MinOfTwo
<1>3. Len(Prompt) % NBatch \in 0..NBatch - 1
    BY <1>1
<1>4. CASE Len(Prompt) % NBatch = 0
    BY <1>1, <1>2, <1>4 DEF LastPrefillIdx
<1>5. CASE Len(Prompt) % NBatch # 0
    <2>1. LastPrefillIdx = (Len(Prompt) % NBatch) - 1
        BY <1>5 DEF LastPrefillIdx
    <2> QED
        BY <1>1, <1>3, <1>5, <2>1
<1> QED
    BY <1>4, <1>5

\* The bounds of a batch: no more tokens than max_tokens leaves.
LEMMA BatchBounded ==
    ASSUME GenInv, Ready, NEW t, NEW d \in Drafts, NEW k \in 1..NBatch, k <= Len(d) + 1,
           Commit(<<t>> \o d, k)
    PROVE  n_past' \in 0..(Len(Prompt) + MaxTokens) /\ last_idx' \in 0..(NBatch - 1)
<1>1. n_past = Len(Prompt) + Len(stream.toks) /\ Len(stream.toks) \in Nat /\ Len(stream.toks) < MaxTokens
    BY DEF GenInv, Ready, DecodeInv, StreamOK
<1>2. MaxTokens \in Nat /\ DraftN \in Nat /\ NBatch \in Nat \ {0} /\ Len(Prompt) \in Nat
    BY GenerationAssumption
<1>3. Room \in Int /\ Room <= MaxTokens - Len(stream.toks) - 1
    <2>1. MaxTokens - Len(stream.toks) - 1 \in Int /\ DraftN \in Int /\ NBatch - 1 \in Int
        BY <1>1, <1>2
    <2> QED
        BY <2>1, MinOfThree, Zenon DEF Room
<1>4. PICK n \in 0..Room : d \in [1..n -> Vocab]
    BY ConstantTypes DEF Drafts
<1>5. Len(d) = n /\ n \in Nat
    BY <1>3, <1>4
<1>6. n_past' = n_past + k /\ last_idx' = k - 1
    BY DEF Commit
<1>7. k \in Nat /\ 1 <= k /\ k <= NBatch /\ k <= MaxTokens - Len(stream.toks)
    <2>1. n <= Room /\ k <= n + 1 /\ k \in 1..NBatch /\ n \in Nat
        BY <1>4, <1>5
    <2> DEFINE l == Len(stream.toks)
               room == Room
    <2>2. l \in Nat /\ l < MaxTokens /\ room \in Int /\ room <= MaxTokens - l - 1 /\ n <= room
        BY <1>1, <1>3, <2>1, Zenon
    <2> HIDE DEF l, room
    <2>3. k \in Nat /\ 1 <= k /\ k <= NBatch /\ k <= MaxTokens - l
        BY <1>2, <2>1, <2>2
    <2> QED
        BY <2>3 DEF l
<1> QED
    BY <1>1, <1>2, <1>6, <1>7

\* TypeOK is inductive relative to GenInv.
LEMMA TypeStep == GenInv /\ GenInv' /\ TypeOK /\ [Next]_vars => TypeOK'
<1> SUFFICES ASSUME GenInv, GenInv', TypeOK, [Next]_vars PROVE TypeOK'
    OBVIOUS
<1>1. stream'.stop \in Reasons /\ Len(stream'.toks) <= MaxTokens
    BY DEF GenInv, StreamOK
<1>2. Len(Prompt) \in Nat \ {0} /\ NBatch \in Nat \ {0} /\ MaxTokens \in Nat
    BY ConstantTypes, GenerationAssumption
<1> DEFINE Phases == {"start", "prefill", "decode", "done", "failed"}
<1>3. ASSUME phase' \in Phases, chunk' \in 0..Len(Prompt), n_past' \in 0..(Len(Prompt) + MaxTokens),
             last_idx' \in 0..(NBatch - 1), injected' \in BOOLEAN
      PROVE  TypeOK'
    BY <1>1, <1>3 DEF TypeOK, Reasons
<1>4. CASE Restore
    BY <1>2, <1>3, <1>4, LastRowInBatch DEF Restore, TypeOK
<1>5. CASE Miss
    BY <1>2, <1>3, <1>5 DEF Miss, TypeOK
<1>6. CASE PrefillStep
    <2> DEFINE from == chunk * NBatch
               to == Min({from + NBatch, Len(Prompt)})
    <2>1. chunk \in Nat /\ from < Len(Prompt) /\ n_past = from
        BY <1>6 DEF PrefillStep, GenInv, PrefillInv
    <2>2. from \in Nat /\ chunk <= from
        BY <1>2, <2>1
    <2>3. to \in from + 1..Len(Prompt) /\ to <= from + NBatch
        BY <1>2, <2>1, <2>2, MinOfTwo
    <2>4. /\ n_past' = n_past + to - from /\ last_idx' = to - from - 1 /\ chunk' = chunk + 1
          /\ phase' \in {"decode", phase} /\ injected' = injected
        BY <1>6 DEF PrefillStep
    <2> HIDE DEF from, to
    <2>5. chunk' \in 0..Len(Prompt)
        BY <1>2, <2>1, <2>2, <2>4
    <2>6. n_past' \in 0..(Len(Prompt) + MaxTokens)
        BY <1>2, <2>1, <2>2, <2>3, <2>4
    <2>7. last_idx' \in 0..(NBatch - 1)
        BY <1>2, <2>2, <2>3, <2>4
    <2>8. phase' \in Phases /\ injected' \in BOOLEAN
        BY <2>4 DEF TypeOK
    <2> HIDE DEF Phases
    <2> QED
        BY <1>3, <2>5, <2>6, <2>7, <2>8, Zenon
<1>7. CASE DecodeFails
    BY <1>3, <1>7 DEF DecodeFails, TypeOK
<1>8. CASE Limit
    BY <1>3, <1>8 DEF Limit, Terminal, TypeOK
<1>9. CASE InjectStep
    <2>1. PICK d \in Drafts, k \in 1..NBatch : k <= Len(d) + 1 /\ Commit(<<Head(Queue)>> \o d, k)
        BY <1>9 DEF InjectStep
    <2>2. n_past' \in 0..(Len(Prompt) + MaxTokens) /\ last_idx' \in 0..(NBatch - 1)
        BY <1>9, <2>1, BatchBounded DEF InjectStep
    <2>3. phase' \in Phases /\ chunk' = chunk /\ injected' = TRUE
        BY <1>9, <2>1 DEF Commit, PhaseOf, InjectStep
    <2> QED
        BY <1>3, <2>2, <2>3 DEF TypeOK
<1>10. CASE SampleStep
    <2>1. PICK t \in Tokens, d \in Drafts, k \in 1..NBatch : k <= Len(d) + 1 /\ Commit(<<t>> \o d, k)
        BY <1>10 DEF SampleStep
    <2>2. n_past' \in 0..(Len(Prompt) + MaxTokens) /\ last_idx' \in 0..(NBatch - 1)
        BY <1>10, <2>1, BatchBounded DEF SampleStep
    <2>3. phase' \in Phases /\ chunk' = chunk /\ injected' = injected
        BY <1>10, <2>1 DEF Commit, PhaseOf, SampleStep
    <2> QED
        BY <1>3, <2>2, <2>3 DEF TypeOK
<1>11. CASE SampleEos
    BY <1>3, <1>11 DEF SampleEos, Terminal, TypeOK
<1>12. CASE NextGeneration
    <2>1. phase' = "start" /\ chunk' = 0 /\ n_past' = n_past /\ last_idx' = last_idx /\ injected' = FALSE
        BY <1>12 DEF NextGeneration
    <2>2. 0 \in 0..Len(Prompt)
        BY <1>2
    <2> QED
        BY <1>3, <2>1, <2>2 DEF TypeOK
<1>13. CASE UNCHANGED vars
    BY <1>13 DEF vars, TypeOK
<1> QED
    BY <1>4, <1>5, <1>6, <1>7, <1>8, <1>9, <1>10, <1>11, <1>12, <1>13 DEF Next

\* Type correctness, with its bounds: drafts and forced tokens never take a
\* generation past max_tokens, a context past the prompt and max_tokens, or a
\* row past n_batch.
THEOREM TypeCorrect == Spec => []TypeOK
<1>1. Init => TypeOK
    <2>1. NewStream.stop = "none" /\ NewStream.toks = <<>>
        BY DEF NewStream
    <2>2. MaxTokens \in Nat /\ NBatch \in Nat \ {0} /\ Len(Prompt) \in Nat
        BY ConstantTypes, GenerationAssumption
    <2> QED
        <3>1. Init => Len(stream.toks) = 0 /\ stream.stop = "none"
            BY <2>1 DEF Init
        <3>2. Init => phase = "start" /\ chunk = 0 /\ n_past = 0 /\ last_idx = 0 /\ injected = FALSE
            BY DEF Init
        <3>3. 0 \in 0..Len(Prompt) /\ 0 \in 0..(Len(Prompt) + MaxTokens) /\ 0 \in 0..(NBatch - 1) /\ 0 <= MaxTokens
            BY <2>2
        <3> QED
            BY <3>1, <3>2, <3>3 DEF TypeOK
<1> QED
    BY <1>1, TypeStep, GenInvHolds, PTL DEF Spec
==============================================================================
