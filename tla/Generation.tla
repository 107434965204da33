----------------------------- MODULE Generation ------------------------------
(***************************************************************************)
(* One model's generations, one after the other (runa-engine generate.rs   *)
(* and load.rs, runa-core reason.rs and think.rs): the prompt is restored  *)
(* or prefilled in chunks, tokens are sampled, forced or accepted from     *)
(* n-gram drafts, and their text goes through the stop-string matcher and  *)
(* the reasoning parser to the consumer.  Text is a sequence of symbols, a *)
(* token any short piece of it, so tags and stop strings come cut in every *)
(* way.  Rates, sampling parameters and the bias of the grace window leave *)
(* no trace but the choice of a token and are left out, as are requests    *)
(* with tools or media.                                                    *)
(***************************************************************************)
EXTENDS Integers, Sequences, SequencesExt, FiniteSetsExt

CONSTANTS
    Tokens,         \* tokens the model may sample
    Eos,            \* token_eos
    Piece,          \* token_to_piece: the symbols of each token
    Width,          \* the bytes of each symbol
    StopSets,       \* the sets of stop strings a request may come with
    Pairs,          \* ReasonFamily::pairs: records of an open and a close tag
    NoPair,         \* no open tag seen yet
    Marker,         \* "<|message|>"
    Message,        \* the tokens of BUDGET_MESSAGE
    CloseTokens,    \* possible tokenizations of a close tag, one per vocabulary
    Budget,         \* reasoning budget
    MaxTokens,      \* max_tokens
    Prompt,         \* prompt tokens
    NBatch,         \* n_batch
    DraftN,         \* draft_n; 0 without n-gram drafts
    DraftTokens,    \* what the n-gram cache may propose
    MaxStuck,       \* bound: failures to take cells out, in one generation
    NoState,        \* nothing in the prompt cache
    MaxGenerations  \* bound: generations on one model

ASSUME GenerationAssumption ==
    /\ Eos \notin Tokens
    /\ \A ds \in StopSets : <<>> \notin ds
    /\ \A t \in Tokens : \A i \in DOMAIN Piece[t] : Width[Piece[t][i]] \in Nat \ {0}
    /\ Marker # <<>>
    /\ \A p \in Pairs : p.open # <<>> /\ p.close # <<>>
    /\ \A c \in CloseTokens : c # <<>>
    /\ Budget \in Nat /\ MaxTokens \in Nat /\ DraftN \in Nat /\ MaxStuck \in Nat
    /\ DraftTokens \subseteq Tokens \cup {Eos}
    /\ Prompt \in Seq(Tokens) /\ Prompt # <<>> /\ NBatch \in Nat \ {0}
    /\ Message \in Seq(Tokens) /\ CloseTokens \subseteq Seq(Tokens)

VARIABLES
    phase,      \* start, prefill, decode, done, failed
    chunk,      \* prefill_chunk
    n_past, last_idx,
    cells,      \* the KV cells of the context: <<position, token>>
    stuck,      \* ghost: how often cells of rejected drafts stayed
    base,       \* ghost: position of row 0 of the logits of the last batch
    stored,     \* the prompt cache's entry for Prompt
    stops,      \* stop strings of the request
    stream,     \* what commit_tokens does to the text: see NewStream
    inject, injected,
    closeToks,  \* str_to_token of the close tag
    past        \* generations that ended

vars == <<phase, chunk, n_past, last_idx, cells, stuck, base, stored, stops, stream,
          inject, injected, closeToks, past>>

-----------------------------------------------------------------------------
(* Text.                                                                   *)

At(w, d, i) == i + Len(d) - 1 <= Len(w) /\ SubSeq(w, i, i + Len(d) - 1) = d
Hits(w, D) == {i \in 1..Len(w) : \E d \in D : At(w, d, i)}
From(w, i) == SubSeq(w, i, Len(w))

\* Mutant: nothing is held back.
MutHeldNothing(w, D) == 0

\* The longest tail of w that a delimiter of D could still complete.
Held(w, D) ==
    Max({n \in 0..Len(w) :
            n = 0 \/ \E d \in D : Len(d) > n /\ IsPrefix(From(w, Len(w) - n + 1), d)})

Bytes(w) == FoldLeft(LAMBDA n, x : n + Width[x], 0, w)

\* split_emit tries the tails of w for each stop string by their bytes, the
\* longest first, up to the first that it starts with; a tail that begins
\* inside a symbol cannot be cut and panics.  (emit_safe of the parser tries the
\* ends of symbols only.)
SplitPanics(w) ==
    \E d \in stops :
        LET max == Min({Bytes(w), Bytes(d) - 1})
            Starts(n) == \E i \in 1..Len(w) : Bytes(From(w, i)) = n /\ IsPrefix(From(w, i), d)
        IN  \E n \in 1..max : /\ \A i \in 1..Len(w) : Bytes(From(w, i)) # n
                              /\ \A m \in n..max : ~Starts(m)

-----------------------------------------------------------------------------
(* ReasoningParser.                                                        *)

NewParser == [inr |-> FALSE, pair |-> NoPair, buf |-> <<>>, opens |-> 0]

Strip(w) == IF IsPrefix(Marker, w) THEN From(w, Len(Marker) + 1) ELSE w

Emit(p, w) ==
    IF p.inr THEN [p EXCEPT !.reasoning = @ \o w] ELSE [p EXCEPT !.text = @ \o w]

\* One turn of push's loop.  Before the first open tag every family's is
\* looked for; its pair then stays.
Turn(p) ==
    LET known == IF p.pair = NoPair THEN Pairs ELSE {p.pair}
        tags == {IF p.inr THEN q.close ELSE q.open : q \in known}
        hits == Hits(p.buf, tags)
        keep == Held(p.buf, tags)
        at == Min(hits)
        q == CHOOSE q \in known : At(p.buf, IF p.inr THEN q.close ELSE q.open, at)
        tag == IF p.inr THEN q.close ELSE q.open
    IN  IF hits # {}
        THEN [Emit(p, SubSeq(p.buf, 1, at - 1)) EXCEPT
                !.buf = Strip(From(p.buf, at + Len(tag))), !.pair = q,
                !.inr = ~p.inr, !.opens = IF p.inr THEN @ ELSE @ + 1]
        ELSE [Emit(p, SubSeq(p.buf, 1, Len(p.buf) - keep)) EXCEPT
                !.buf = From(p.buf, Len(p.buf) - keep + 1)]

\* push: every turn but the last eats a tag, so as many turns as symbols do.
\* The result carries the text and the reasoning that come out.
Push(p, w) ==
    LET start == [inr |-> p.inr, pair |-> p.pair, buf |-> p.buf \o w,
                  opens |-> p.opens, text |-> <<>>, reasoning |-> <<>>]
    IN  FoldLeft(LAMBDA q, i : Turn(q), start, [i \in 1..(Len(start.buf) + 1) |-> i])

\* flush, after a push.
Flush(p) == [Emit(p, p.buf) EXCEPT !.buf = <<>>]

ParserOf(p) == [inr |-> p.inr, pair |-> p.pair, buf |-> p.buf, opens |-> p.opens]

-----------------------------------------------------------------------------
(* BudgetClock.                                                            *)

NewClock == [counted |-> 0, was |-> FALSE, forcing |-> FALSE, done |-> FALSE]

\* observe: a token was parsed; the parser is in a block, or holds a partial tag.
Observe(c, inr, holding) ==
    CASE c.done ->
            IF inr /\ ~c.was THEN [NewClock EXCEPT !.was = TRUE]
            ELSE [c EXCEPT !.was = inr]
      [] ~c.done /\ c.forcing ->
            [c EXCEPT !.was = inr, !.done = ~inr, !.forcing = inr]
      [] ~c.done /\ ~c.forcing /\ inr /\ c.was ->
            [c EXCEPT !.counted = @ + 1,
                      !.forcing = c.counted + 1 >= Budget /\ ~holding]
      [] OTHER -> [c EXCEPT !.was = inr, !.done = c.was]

\* kind = Force; Bias and Sample both sample.
ForceKind(c, inr, holding) ==
    ~c.done /\ inr /\ (c.forcing \/ c.counted >= Budget) /\ ~holding

-----------------------------------------------------------------------------
(* The text pipeline of commit_tokens, token by token.                     *)

NewStream ==
    [toks |-> <<>>, pending |-> <<>>, parser |-> NewParser, clock |-> NewClock,
     text |-> <<>>, reasoning |-> <<>>, reasoned |-> 0, stop |-> "none"]

\* enqueue_parsed.
Parsed(s, w) ==
    LET p == Push(s.parser, w)
    IN  IF w = <<>> THEN s
        ELSE [s EXCEPT !.parser = ParserOf(p), !.text = @ \o p.text,
                       !.reasoning = @ \o p.reasoning]

\* queue_terminal: what was withheld comes out, then Usage and Done.
Finish(s, why) ==
    LET r == Parsed(s, s.pending)
        p == Flush(Push(r.parser, <<>>))
    IN  [r EXCEPT !.pending = <<>>, !.parser = ParserOf(p), !.text = @ \o p.text,
                  !.reasoning = @ \o p.reasoning, !.stop = why]

\* observe_budget: the clock, and the reasoning tokens of Usage, which a second
\* clock without a limit counts across blocks.
Observed(s) ==
    [s EXCEPT !.clock = Observe(@, s.parser.inr, s.parser.buf # <<>>),
              !.reasoned = IF s.parser.inr /\ s.clock.was THEN @ + 1 ELSE @]

\* One accepted token: end, limit, stop string, a panic, or text.
Accept(s, t) ==
    LET w == s.pending \o Piece[t]
        hits == Hits(w, stops)
        keep == Held(w, stops)
        r == [s EXCEPT !.toks = Append(@, t)]
    IN  IF s.stop # "none" THEN s
        ELSE IF t = Eos THEN Finish(s, "eos")
        ELSE IF Len(s.toks) >= MaxTokens THEN Finish(s, "max_tokens")
        ELSE IF hits # {}
        THEN Finish([r EXCEPT !.pending = SubSeq(w, 1, Min(hits) - 1)], "stop")
        ELSE IF SplitPanics(w) THEN [r EXCEPT !.pending = w, !.stop = "panic"]
        ELSE Observed([Parsed(r, SubSeq(w, 1, Len(w) - keep)) EXCEPT
                         !.pending = From(w, Len(w) - keep + 1)])

\* The accepted tokens of a batch, one after the other.
AcceptAll(s, ts) ==
    LET after[i \in 0..Len(ts)] == IF i = 0 THEN s ELSE Accept(after[i - 1], ts[i])
    IN  after[Len(ts)]

-----------------------------------------------------------------------------
Init ==
    /\ phase = "start" /\ chunk = 0 /\ n_past = 0 /\ last_idx = 0
    /\ cells = {} /\ stuck = 0 /\ base = 0 /\ stored = NoState
    /\ stops \in StopSets /\ stream = NewStream
    /\ inject = <<>> /\ injected = FALSE
    /\ closeToks \in CloseTokens
    /\ past = 0

\* last_prefill_idx: the last row of the last chunk.
LastPrefillIdx ==
    IF Len(Prompt) % NBatch = 0 THEN Min({NBatch, Len(Prompt)}) - 1
    ELSE (Len(Prompt) % NBatch) - 1

\* start_generation with the prompt's state restored into a new context ...
Restore ==
    /\ phase = "start" /\ stored # NoState
    /\ cells' = stored.cells /\ stuck' = 0 /\ base' = stored.base
    /\ n_past' = Len(Prompt) /\ last_idx' = LastPrefillIdx
    /\ phase' = "decode"
    /\ UNCHANGED <<chunk, stored, stops, stream, inject, injected, closeToks, past>>

\* ... or, on a miss and on every failure to restore, with the cells of the
\* generation before cleared.
Miss ==
    /\ phase = "start"
    /\ cells' = {} /\ stuck' = 0 /\ n_past' = 0 /\ last_idx' = 0 /\ base' = 0
    /\ phase' = "prefill"
    /\ UNCHANGED <<chunk, stored, stops, stream, inject, injected, closeToks, past>>

\* store_prompt: the state of the context under the key of the prompt.  It may
\* have no bytes, or the database may not take it.
StorePrompt == stored' \in {stored, [cells |-> cells', base |-> base']}

\* prefill_step; the last one offers the state to the prompt cache, which may
\* fail to take it.
PrefillStep ==
    LET from == chunk * NBatch
        to == Min({from + NBatch, Len(Prompt)})
    IN  /\ phase = "prefill"
        /\ cells' = cells \cup {<<n_past + i - from - 1, Prompt[i]>> : i \in (from + 1)..to}
        /\ n_past' = n_past + to - from /\ last_idx' = to - from - 1 /\ base' = n_past
        /\ chunk' = chunk + 1
        /\ IF to = Len(Prompt)
           THEN /\ phase' = "decode"
                /\ StorePrompt
           ELSE UNCHANGED <<phase, stored>>
        /\ UNCHANGED <<stuck, stops, stream, inject, injected, closeToks, past>>

\* llama_decode fails: next yields the error and its consumers stop there.
DecodeFails ==
    /\ phase \in {"prefill", "decode"}
    /\ phase' = "failed"
    /\ UNCHANGED <<chunk, n_past, last_idx, cells, stuck, base, stored, stops, stream,
                   inject, injected, closeToks, past>>

\* The stream ends without a decode.
Terminal(why) ==
    /\ phase' = "done"
    /\ stream' = Finish(stream, why)
    /\ UNCHANGED <<chunk, n_past, last_idx, cells, stuck, base, stored, stops, closeToks, past>>

\* How a stream leaves commit_tokens.  A panic ends the generation as an error
\* does: catch_job makes one of it.
PhaseOf(stop) == CASE stop = "none" -> "decode" [] stop = "panic" -> "failed" [] OTHER -> "done"

\* Mutant: the cells of rejected drafts stay.
MutCommitKeeps(seq, k) ==
    /\ cells' = cells \cup {<<n_past + i - 1, seq[i]>> : i \in 1..Len(seq)}
    /\ n_past' = n_past + k /\ last_idx' = k - 1 /\ base' = n_past
    /\ stream' = AcceptAll(stream, SubSeq(seq, 1, k))
    /\ phase' = PhaseOf(stream'.stop)
    /\ UNCHANGED <<chunk, stuck, stored, stops, closeToks, past>>

\* commit_tokens: decode a token and its drafts in one batch, keep the first k
\* (those the model agrees with), take the cells of the others out again and
\* pass the kept ones on.  What clear_kv_cache_seq returns is not looked at: it
\* may have taken nothing out (as of a recurrent model).
Commit(seq, k) ==
    LET batch == cells \cup {<<n_past + i - 1, seq[i]>> : i \in 1..Len(seq)}
    IN  /\ \/ /\ cells' = IF k < Len(seq) THEN {c \in batch : c[1] < n_past + k} ELSE batch
              /\ UNCHANGED stuck
           \/ k < Len(seq) /\ stuck < MaxStuck /\ cells' = batch /\ stuck' = stuck + 1
        /\ n_past' = n_past + k /\ last_idx' = k - 1 /\ base' = n_past
        /\ stream' = AcceptAll(stream, SubSeq(seq, 1, k))
        /\ phase' = PhaseOf(stream'.stop)
        /\ UNCHANGED <<chunk, stored, stops, closeToks, past>>

\* Drafts: what the n-gram cache proposes after a token, within max_tokens,
\* draft_n and the batch.
Room == Min({MaxTokens - Len(stream.toks) - 1, DraftN, NBatch - 1})
Drafts == UNION {[1..n -> DraftTokens] : n \in 0..Room}

Forced == ForceKind(stream.clock, stream.parser.inr, stream.parser.buf # <<>>)

\* Mutant: only the message is injected.
MutQueue == IF injected THEN inject ELSE Message

\* fill_inject, once in a generation: the message and the close tag.
Queue == IF injected THEN inject ELSE Message \o closeToks

Ready == phase = "decode" /\ Len(stream.toks) < MaxTokens

\* decode_step: the limit ...
Limit ==
    /\ phase = "decode" /\ Len(stream.toks) >= MaxTokens
    /\ Terminal("max_tokens")
    /\ UNCHANGED <<inject, injected>>

\* ... a forced token ...
InjectStep ==
    /\ Ready /\ Forced /\ Queue # <<>>
    /\ \E d \in Drafts, k \in 1..NBatch :
          /\ k <= Len(d) + 1
          /\ Commit(<<Head(Queue)>> \o d, k)
    /\ inject' = Tail(Queue) /\ injected' = TRUE

\* ... a sampled one, also when there is nothing left to force ...
SampleStep ==
    /\ Ready /\ (Forced => Queue = <<>>)
    /\ \E t \in Tokens, d \in Drafts, k \in 1..NBatch :
          /\ k <= Len(d) + 1
          /\ Commit(<<t>> \o d, k)
    /\ UNCHANGED <<inject, injected>>

\* ... or the end of the reply.
SampleEos ==
    /\ Ready /\ (Forced => Queue = <<>>)
    /\ Terminal("eos")
    /\ UNCHANGED <<inject, injected>>

\* The next request of the same model.
NextGeneration ==
    /\ phase \in {"done", "failed"} /\ past + 1 < MaxGenerations
    /\ phase' = "start" /\ past' = past + 1
    /\ stops' \in StopSets
    /\ chunk' = 0 /\ stream' = NewStream /\ inject' = <<>> /\ injected' = FALSE
    /\ UNCHANGED <<n_past, last_idx, cells, stuck, base, stored, closeToks>>

Next ==
    \/ Restore \/ Miss \/ PrefillStep \/ DecodeFails
    \/ Limit \/ InjectStep \/ SampleStep \/ SampleEos
    \/ NextGeneration

Spec == Init /\ [][Next]_vars

-----------------------------------------------------------------------------
TypeOK ==
    /\ phase \in {"start", "prefill", "decode", "done", "failed"}
    /\ chunk \in 0..Len(Prompt)
    /\ n_past \in 0..(Len(Prompt) + MaxTokens)
    /\ last_idx \in 0..(NBatch - 1)
    /\ stream.stop \in {"none", "eos", "max_tokens", "stop", "panic"}
    /\ Len(stream.toks) <= MaxTokens
    /\ injected \in BOOLEAN

\* The text of a sequence of tokens.
TextOf(ts) == FoldLeft(LAMBDA w, t : w \o Piece[t], <<>>, ts)

\* What the reply should come out as: all of it, cut at the first stop string,
\* parsed at once.
Whole(w) ==
    LET hits == Hits(w, stops)
    IN  Flush(Push(NewParser, IF hits = {} THEN w ELSE SubSeq(w, 1, Min(hits) - 1)))

Unmarked(w) == SelectSeq(w, LAMBDA x : <<x>> # Marker)

\* However tokens, drafts and injections cut the reply, the consumer gets the
\* text and the reasoning of the whole reply up to the first stop string,
\* nothing twice, nothing lost, no piece of a tag or of a stop string (the
\* channel marker aside, which the parser drops only next to its tag).  The
\* matcher panics over nothing but a character of several bytes that ends less
\* than a stop string before the end of what was generated.
Faithful ==
    /\ phase = "done" =>
        LET whole == Whole(TextOf(stream.toks))
        IN  /\ Unmarked(stream.text) = Unmarked(whole.text)
            /\ Unmarked(stream.reasoning) = Unmarked(whole.reasoning)
    /\ stream.stop = "panic" =>
        LET w == TextOf(stream.toks)
        IN  \E i \in 1..Len(w), d \in stops : Width[w[i]] > 1 /\ Bytes(From(w, i + 1)) < Bytes(d) - 1

CellsOf(ts) == {<<i - 1, ts[i]>> : i \in 1..Len(ts)}

\* The context holds the prompt and the kept tokens, each at its position, and
\* nothing else (no cell of an earlier generation or of a failed restore) but
\* cells of drafts rejected in this generation that could not be taken out; the
\* prompt cache holds the prompt alone; and the next token is sampled from the
\* logits of the last kept one, after rejected drafts, partial chunks and a
\* restored prompt alike.
KvExact ==
    /\ phase = "prefill" => cells = CellsOf(SubSeq(Prompt, 1, n_past))
    /\ phase = "decode" =>
          /\ CellsOf(Prompt \o stream.toks) \subseteq cells
          /\ cells # CellsOf(Prompt \o stream.toks) => stuck > 0
          /\ \A c \in cells : c[1] < Len(Prompt) => c \in CellsOf(Prompt)
    /\ stored # NoState => stored.cells = CellsOf(Prompt)
    /\ phase = "decode" => base + last_idx = n_past - 1

\* A close tag that is one token of the vocabulary: when the injection is over
\* the first reasoning block is closed in what was generated.
ForcedEnds ==
    LET p == Push(NewParser, TextOf(stream.toks))
    IN  Len(closeToks) = 1 /\ injected /\ inject = <<>> /\ p.opens = 1 => ~p.inr
==============================================================================
