----------------------------- MODULE HeaderCache -----------------------------
(***************************************************************************)
(* crates/runa-fit/src/remote.rs: `runa fit` reads the header of a file on *)
(* the hub with range requests that grow until it parses, and keeps it in  *)
(* two cache files, the bytes and what the server said of them.  Bytes are *)
(* counted in units of START_BYTES; a buffer is the sequence of revisions  *)
(* its units came from, since a publication may fall between two requests. *)
(***************************************************************************)
EXTENDS Hub, Integers, Sequences, FiniteSets, GgufReader

CONSTANTS
    Fetchers,           \* processes
    Header, Total,      \* each revision's header fields and its length
    MaxHeader,          \* MAX_HEADER_BYTES
    Unknown,            \* no ETag sent
    Torn                \* a description cut to nothing

ASSUME HeaderAssumption ==
    /\ Header \in [Revs -> Seq([size : Nat, kind : {"ok", "bad", "nested"}])]
    /\ Total \in [Revs -> Nat \ {0}]
    /\ MaxHeader \in Nat
    /\ \A r \in Revs, t \in Revs \cup {Unknown} :
          [total_len |-> Total[r], etag |-> t] \notin {NoFile, Torn}
    /\ NoFile \notin Seq(Revs)

VARIABLES
    hdr, meta,          \* the two cache files
    fetching,           \* where each process is and what it holds
    happened            \* ghost: what befell the cache

cacheVars == <<hdr, meta, fetching, happened>>

\* overlap: two fetches ran at a time; broken: one was killed, or could not write;
\* mixed: bytes of two revisions were written; returned: the hub went back to the
\* revision of the description, during a fetch or after a broken one.
Events == {"overlap", "broken", "mixed", "returned"}

AtRest == {"idle", "fresh", "cached", "failed", "unreadable", "unwritten", "corrupt", "incomplete"}
Busy == {p \in Fetchers : fetching[p].at \notin AtRest}

FetchInit ==
    /\ hdr = NoFile /\ meta = NoFile
    /\ fetching = [p \in Fetchers |-> [at |-> "idle"]]
    /\ happened = {}

Tag(rev) == IF server.etags THEN rev ELSE Unknown
Said(rev) == [total_len |-> Total[rev], etag |-> Tag(rev)]
End(p, how) == fetching' = [fetching EXCEPT ![p].at = how]

Happens(cond, e) == happened' = IF cond THEN happened \cup {e} ELSE happened

\* The units of a revision that a buffer holds in order.
Pure(buf, rev) == \A i \in DOMAIN buf : buf[i] = rev

\* Reader::parse; a buffer pieced together from two revisions may do anything.
Parses(buf) ==
    IF \E r \in Revs : Pure(buf, r)
    THEN {Parse(Header[CHOOSE r \in Revs : Pure(buf, r)], Len(buf))}
    ELSE {"ok", "truncated", "corrupt"}

\* START_BYTES after k doublings.
Doubled[k \in 0..MaxHeader] == IF k = 0 THEN 1 ELSE 2 * Doubled[k - 1]

\* read_local_prefix: a file on disk, the same growth up to its length.
ReadLocal(h, total) ==
    LET wants == {Min({Doubled[k], total}) : k \in 0..MaxHeader}
        n == Min({w \in wants : w >= total \/ Parse(h, w) # "truncated"})
    IN  IF n > MaxHeader THEN "incomplete"
        ELSE IF Parse(h, n) = "ok" THEN "ok" ELSE "corrupt"

-----------------------------------------------------------------------------
FetchHeader(p) ==
    /\ fetching[p].at \in AtRest /\ Spend("fetches", MaxFetches)
    /\ fetching' = [fetching EXCEPT ![p] =
          [at |-> "cache", buf |-> <<>>, want |-> 1, said |-> Unknown, probed |-> Unknown,
           crossed |-> FALSE]]
    /\ Happens(Busy # {}, "overlap")
    /\ UNCHANGED <<hub, server, hdr, meta>>

\* read_cache: the bytes first ...
ReadCache(p) ==
    /\ fetching[p].at = "cache"
    /\ \/ fetching' = [fetching EXCEPT ![p].at = IF hdr = NoFile THEN "range" ELSE "described",
                                       ![p].buf = IF hdr = NoFile THEN <<>> ELSE hdr]
       \/ End(p, "failed")
    /\ UNCHANGED <<hub, server, hdr, meta, happened, spent>>

\* ... then their description; none, or half of one, is an error.
ReadMeta(p) ==
    /\ fetching[p].at = "described"
    /\ \/ fetching' = [fetching EXCEPT
              ![p].at = IF meta \in {NoFile, Torn} THEN "unreadable" ELSE "probe",
              ![p].said = meta]
       \/ End(p, "failed")
    /\ UNCHANGED <<hub, server, hdr, meta, happened, spent>>

\* The cached bytes are good if the server says now what it said then.
Probe(p) ==
    /\ fetching[p].at = "probe"
    /\ \/ LET hit == Said(hub) = fetching[p].said
          IN  fetching' = [fetching EXCEPT ![p].probed = hub,
                              ![p].at = IF hit THEN "cached" ELSE "range",
                              ![p].buf = IF hit THEN @ ELSE <<>>]
       \/ End(p, "failed")
    /\ UNCHANGED <<hub, server, hdr, meta, happened, spent>>

\* What one request adds to a buffer: the range, or the whole file.
Received(buf, want) ==
    IF server.ranges
    THEN buf \o [i \in 1..(Min({want, Total[hub]}) - Len(buf)) |-> hub]
    ELSE [i \in 1..Total[hub] |-> hub]

\* One turn of fetch_url's loop: ask for the next range (or get the whole file
\* from a server that ignores ranges), parse, and double what is wanted.
GetRange(p) ==
    LET from == Len(fetching[p].buf)
        want == IF from >= fetching[p].want THEN 2 * fetching[p].want ELSE fetching[p].want
        buf == Received(fetching[p].buf, want)
    IN  /\ fetching[p].at = "range"
        /\ \/ /\ want > MaxHeader \/ (~server.ranges /\ Total[hub] > MaxHeader)
              /\ End(p, "incomplete")
           \/ want <= MaxHeader /\ End(p, "failed")
           \/ /\ want <= MaxHeader
              /\ server.ranges => from < Total[hub]
              /\ ~server.ranges => Total[hub] <= MaxHeader
              /\ \E parsed \in Parses(buf) :
                    fetching' = [fetching EXCEPT
                        ![p].buf = buf, ![p].said = Said(hub), ![p].want = 2 * want,
                        ![p].at = CASE parsed = "ok" -> "write"
                                    [] parsed = "truncated" /\ Len(buf) < Total[hub] -> "range"
                                    [] OTHER -> "corrupt"]
        /\ UNCHANGED <<hub, server, hdr, meta, happened, spent>>

Writing == {"write", "fill", "writemeta", "fillmeta"}

\* Mutant: the description first.
MutWriteCache(p) ==
    /\ \/ fetching[p].at = "write" /\ meta' = Torn /\ End(p, "fillmeta") /\ UNCHANGED hdr
       \/ fetching[p].at = "fillmeta" /\ meta' = fetching[p].said /\ End(p, "writemeta") /\ UNCHANGED hdr
       \/ fetching[p].at = "writemeta" /\ hdr' = <<>> /\ End(p, "fill") /\ UNCHANGED meta
       \/ fetching[p].at = "fill" /\ hdr' = fetching[p].buf /\ End(p, "fresh") /\ UNCHANGED meta
    /\ Happens(fetching[p].at = "fill" /\ fetching[p].crossed, "mixed")
    /\ UNCHANGED <<hub, server, spent>>

\* write_cache: each file is cut to nothing and filled, the bytes first.
WriteCache(p) ==
    /\ \/ fetching[p].at = "write" /\ hdr' = <<>> /\ End(p, "fill") /\ UNCHANGED meta
       \/ fetching[p].at = "fill" /\ hdr' = fetching[p].buf /\ End(p, "writemeta") /\ UNCHANGED meta
       \/ fetching[p].at = "writemeta" /\ meta' = Torn /\ End(p, "fillmeta") /\ UNCHANGED hdr
       \/ fetching[p].at = "fillmeta" /\ meta' = fetching[p].said /\ End(p, "fresh") /\ UNCHANGED hdr
    /\ Happens(fetching[p].at = "fill" /\ fetching[p].crossed, "mixed")
    /\ UNCHANGED <<hub, server, spent>>

\* What a fetch that stops leaves: of bytes that were being written, some.
Leaves(p) ==
    IF fetching[p].at = "fill"
    THEN \E n \in 0..Len(fetching[p].buf) : hdr' = SubSeq(fetching[p].buf, 1, n)
    ELSE UNCHANGED hdr

\* create_dir_all or one of the two writes fails: the fetch has its header and
\* reports the cache.
WriteFails(p) ==
    /\ fetching[p].at \in Writing
    /\ End(p, "unwritten") /\ Leaves(p) /\ Happens(TRUE, "broken")
    /\ UNCHANGED <<hub, server, meta, spent>>

FetchStep(p) ==
    ReadCache(p) \/ ReadMeta(p) \/ Probe(p) \/ GetRange(p) \/ WriteCache(p) \/ WriteFails(p)

KillFetch(p) ==
    /\ p \in Busy /\ Spend("kills", MaxKills)
    /\ fetching' = [fetching EXCEPT ![p] = [at |-> "idle"]]
    /\ Leaves(p) /\ Happens(TRUE, "broken")
    /\ UNCHANGED <<hub, server, meta>>

\* A publication seen from here: it falls between the requests of some fetches.
Crossed(j) == IF j.at = "range" /\ j.buf # <<>> THEN [j EXCEPT !.crossed = TRUE] ELSE j

Published ==
    /\ fetching' = [p \in Fetchers |-> Crossed(fetching[p])]
    /\ Happens(Said(hub)' = meta /\ (Busy # {} \/ "broken" \in happened), "returned")
    /\ UNCHANGED <<hdr, meta>>

-----------------------------------------------------------------------------
\* A whole header of a revision, which a local copy of it gives too.
Exact(buf, r) ==
    Pure(buf, r) /\ Parse(Header[r], Len(buf)) = "ok" /\ ReadLocal(Header[r], Total[r]) = "ok"

\* A header that the hub gave is one that a local copy gives, and a file is called
\* corrupt only if a local copy would be, unless a publication fell between the
\* requests of that very fetch.  One from the cache is too, and is that of the
\* revision the server holds if it sends ETags: kills and failed writes at any
\* step leave nothing that passes for it, unless two fetches overlapped, bytes of
\* two revisions were written, or the hub went back to the revision of a
\* description whose bytes were being replaced.  A cache that cannot be read needs
\* a broken fetch or two at a time.
HeaderExact ==
    \A p \in Fetchers :
        LET j == fetching[p]
            undisturbed == happened \subseteq {"broken"}
        IN  /\ j.at = "fresh" /\ ~j.crossed => \E r \in Revs : Exact(j.buf, r)
            /\ j.at = "cached" /\ undisturbed => \E r \in Revs : Exact(j.buf, r)
            /\ j.at = "cached" /\ undisturbed /\ server.etags => Pure(j.buf, j.probed)
            /\ j.at = "corrupt" /\ ~j.crossed =>
                  \E r \in Revs : ReadLocal(Header[r], Total[r]) = "corrupt"
            /\ j.at = "unreadable" => happened \cap {"overlap", "broken"} # {}
==============================================================================
