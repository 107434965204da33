----------------------------- MODULE GgufReader ------------------------------
(***************************************************************************)
(* crates/runa-fit/src/gguf.rs: the header of a model file is a sequence of *)
(* fields (magic, version, counts, key-value pairs, tensor infos), each of *)
(* some size, read through a cursor that checks every step against the end *)
(* of the buffer.  A field is "ok", "bad" (wrong magic or version, unknown *)
(* value type, a count too large) or "nested" (an array of arrays, which   *)
(* the reader reports as an end of file).                                  *)
(***************************************************************************)
EXTENDS Integers, Sequences, FiniteSetsExt

\* Where the cursor is after field i.
FieldEnd(h, i) ==
    LET end[j \in 0..Len(h)] == IF j = 0 THEN 0 ELSE end[j - 1] + h[j].size
    IN  end[i]

\* Cursor::take and Reader::parse on the first n units of a file with header h:
\* the first field that ends past the buffer or is not right decides.
Parse(h, n) ==
    LET wrong == {i \in DOMAIN h : FieldEnd(h, i) > n \/ h[i].kind # "ok"}
        i == Min(wrong)
    IN  IF wrong = {} THEN "ok"
        ELSE IF FieldEnd(h, i) <= n /\ h[i].kind = "bad" THEN "corrupt"
        ELSE "truncated"
==============================================================================
