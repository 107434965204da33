------------------------------- MODULE MCDaemon ------------------------------
(* Daemon with one daemon on the socket path and a few clients.            *)
EXTENDS Daemon, TLC

CONSTANT c2

\* Absolute paths: two files of one stem, two whose stem is a numbered id, a
\* directory.  Relative ones: `m`, which spells the first id and is a file where
\* the second client is, and `s/r`, which is another file there.
MCStemOf == "/a/m" :> <<"m">> @@ "/b/m" :> <<"m">> @@ "/m-1" :> <<"m", 1>> @@ "/m-2" :> <<"m", 2>> @@ "/dir" :> <<"dir">>
            @@ "m" :> <<"m">> @@ "s/r" :> <<"r">>
MCPaths == DOMAIN MCStemOf
MCSpelledId == [p \in MCPaths |-> IF p = "m" THEN <<"m">> ELSE << >>]
Here == [p \in MCPaths |-> IF p = "m" THEN NoFile ELSE p]
There == [Here EXCEPT !["m"] = "there/m", !["s/r"] = "there/s/r"]
MCFileAt == "here" :> Here @@ "there" :> There
MCFiles == (MCPaths \ {"m"}) \cup {"there/m", "there/s/r"}
MCCwd == [x \in Daemons \cup Clients |-> IF x = c2 THEN "there" ELSE "here"]
MCGiven == <<"/a/m", "/b/m", "/m-1">>
==============================================================================
