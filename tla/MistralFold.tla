----------------------------- MODULE MistralFold -----------------------------
(***************************************************************************)
(* crates/runa-engine/src/mistral.rs: the events of a generation made out  *)
(* of the responses of mistral.rs, which are chunks (text, reasoning,      *)
(* volunteered calls, usage, a finish reason), a summary, or an error.     *)
(***************************************************************************)
EXTENDS Integers, Sequences

\* close: usage and stop are sent once, last.
Close(f) ==
    IF f.finished THEN f
    ELSE [f EXCEPT !.ready = @ \o <<[k |-> "usage"], [k |-> "done"]>>, !.finished = TRUE]

Piece(k, s) == IF s = <<>> THEN <<>> ELSE <<[k |-> k, s |-> s]>>

\* absorb_chunk: volunteered calls become text.
AbsorbChunk(f, r) ==
    [f EXCEPT !.ready = @ \o Piece("text", r.text)
                          \o (IF f.show THEN Piece("reasoning", r.reasoning) ELSE <<>>)
                          \o Piece("text", r.calls),
              !.emitted = @ \/ r.text # <<>> \/ r.calls # <<>>]

\* absorb_done: the summary speaks only if no chunk did.
AbsorbDone(f, r) ==
    IF f.emitted THEN f
    ELSE [f EXCEPT !.ready = @ \o Piece("text", r.text)
                               \o (IF f.show THEN Piece("reasoning", r.reasoning) ELSE <<>>)]

\* EventFold::step and MistralGeneration::next; an error ends it for the callers.
FoldStep(f, r) ==
    IF f.finished \/ f.failed THEN f
    ELSE CASE r.kind = "chunk" -> IF r.finish THEN Close(AbsorbChunk(f, r)) ELSE AbsorbChunk(f, r)
           [] r.kind = "done" -> Close(AbsorbDone(f, r))
           [] OTHER -> [f EXCEPT !.failed = TRUE]

Fold(responses, show) ==
    LET f[i \in 0..Len(responses)] ==
            IF i = 0 THEN [ready |-> <<>>, show |-> show, emitted |-> FALSE,
                           finished |-> FALSE, failed |-> FALSE]
            ELSE FoldStep(f[i - 1], responses[i])
        last == f[Len(responses)]
    IN  IF last.failed THEN last ELSE Close(last)
==============================================================================
