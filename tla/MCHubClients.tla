---------------------------- MODULE MCHubClients -----------------------------
(* Two pulls, three fetches, or one of each, of a repository with revisions *)
(* of one length, of which one has a longer header and one a broken one; of *)
(* two quant tags one has its best file in a subdirectory.                  *)
EXTENDS HubClients, TLC

MCSize == [c \in Revs \cup Garbled |-> IF c = "cut" THEN 1 ELSE 3]

MCName ==
    LET Gguf(q4, q8, len, rank, nested) ==
            [class |-> "q4" :> q4 @@ "q8" :> q8, len |-> len, rank |-> rank, nested |-> nested]
    IN  "long" :> Gguf(1, 2, 2, 1, FALSE) @@ "short" :> Gguf(1, 3, 1, 2, FALSE)
            @@ "nested" :> Gguf(3, 1, 3, 3, TRUE)
MCSnapshot == <<"config", "weights">>

MCServers ==
    {[linked |-> TRUE, ranges |-> TRUE, etags |-> TRUE],
     [linked |-> TRUE, ranges |-> FALSE, etags |-> TRUE],
     [linked |-> FALSE, ranges |-> TRUE, etags |-> FALSE]}

\* Pulls and fetches share no file: one of each kind, or all of one.
MCStarts ==
    {[c \in Counters |-> CASE c = "pulls" -> n.pulls [] c = "fetches" -> n.fetches [] OTHER -> 0] :
        n \in {[pulls |-> 0, fetches |-> MaxFetches], [pulls |-> MaxPulls, fetches |-> 0],
               [pulls |-> MaxPulls - 1, fetches |-> MaxFetches - 1]}}

Symmetry == Permutations(Pullers) \cup Permutations(Fetchers)

Field(kind) == [size |-> 1, kind |-> kind]
MCHeader == [r \in Revs |->
    <<Field("ok"), Field("ok")>> \o CASE r = "r1" -> <<>>
                                      [] r = "r2" -> <<Field("ok")>>
                                      [] r = "bad" -> <<Field("bad")>>]
MCTotal == [r \in Revs |-> 3]
==============================================================================
