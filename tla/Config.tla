------------------------------- MODULE Config --------------------------------
(***************************************************************************)
(* Where a setting comes from: crates/runa/src/config.rs.  A setting is    *)
(* looked up in the flags, the environment, the file of the user and       *)
(* ./runa.toml.  A file is missing, or a record that says whether it holds *)
(* an inline secret, whether it is TOML, and the value of each key (None   *)
(* where there is none, Error where the value has the wrong type or range).*)
(***************************************************************************)
EXTENDS Think, FiniteSetsExt

CONSTANT DefaultGrowth     \* max_growth_mib of the default policy

Keys == {"threads", "max_load", "on_unfit", "audio", "memory", "think", "mcp", "loras", "alias_loras"}

NoFile == [exists |-> FALSE, secret |-> FALSE, toml |-> TRUE, keys |-> [k \in Keys |-> None]]

\* The values that a file may have for a key.
Loras == Seq([exists : BOOLEAN])
FileOK(f) ==
    /\ f.keys["threads"] \in Int \cup {None, Error}
    /\ f.keys["think"] \in ThinkTables \cup {None, Error}
    /\ f.keys["loras"] \in Loras \cup {None, Error} /\ f.keys["alias_loras"] \in Loras \cup {None, Error}

\* config_paths, in increasing precedence.
ConfigFiles(w) == (IF w.home THEN <<w.user>> ELSE <<>>) \o <<w.local>>

\* read_config_text, then the *_from_toml reader of the key.
Read(file, key) ==
    CASE ~file.exists -> None [] file.exists /\ (file.secret \/ ~file.toml) -> Error [] OTHER -> file.keys[key]

FromUser(w, key) == IF w.home THEN Read(w.user, key) ELSE None

\* The loop that keeps the last value, and the loop that stops at the first.
LastOf(w, key) ==
    IF FromUser(w, key) = Error THEN Error ELSE Or(Read(w.local, key), FromUser(w, key))
FirstOf(w, key) == Or(FromUser(w, key), Read(w.local, key))

\* The flag, else the variable, else the files, else the default.
Layered(flag, var, files, default) == Or(flag, Or(var, Or(files, default)))

\* check_threads and check_max_load.
CheckThreads(n) == IF n \in {None, Error} THEN n ELSE IF n < 1 THEN Error ELSE n
CheckMaxLoad(n) == IF n = Error THEN Error ELSE IF n \in 1..100 THEN n ELSE Error

ResolveThreads(w, flag) == CheckThreads(Layered(flag, w.env.threads, LastOf(w, "threads"), None))
ResolveMaxLoad(w, flag) == CheckMaxLoad(Layered(flag, w.env.max_load, LastOf(w, "max_load"), 80))
ResolveOnUnfit(w, flag) == Layered(flag, w.env.on_unfit, LastOf(w, "on_unfit"), "error")
ResolveAudioRoute(w, flag) == Layered(flag, w.env.audio, FirstOf(w, "audio"), "auto")

\* resolve_memory_policy: a variable that is not a number is ignored.
ResolveMemoryPolicy(w) ==
    LET files == FirstOf(w, "memory")
    IN  IF files = Error THEN Error
        ELSE IF w.env.memory \in {None, Error} THEN Or(files, DefaultGrowth) ELSE w.env.memory

\* resolve_think over the layers.  A [think] table is overlaid as
\* overrides_from_think_table reads it.
ThinkLayers(w, flags) ==
    LET tables == [i \in DOMAIN ConfigFiles(w) |-> Read(ConfigFiles(w)[i], "think")]
        Table(t) == CASE t = None -> NoOverrides [] t = Error -> Error [] OTHER -> FromThinkTable(t)
    IN  [i \in DOMAIN tables |-> Table(tables[i])] \o <<w.env.think, flags>>
ThinkOf(w, flags) == ResolveThink(ThinkLayers(w, flags))

\* load_mcp_servers: the servers of both files, one per name.
LoadMcpServers(w) ==
    LET tables == [i \in DOMAIN ConfigFiles(w) |-> Read(ConfigFiles(w)[i], "mcp")]
    IN  FoldLeft(LAMBDA all, t : IF Error \in {all, t} THEN Error ELSE IF t = None THEN all ELSE t @@ all,
                 <<>>, tables)

\* resolve_loras: file by file the global list, then that of the alias that
\* is run, and last the flags.
ResolveLoras(w, alias, flags) ==
    LET lists == <<FromUser(w, "loras"), IF alias THEN FromUser(w, "alias_loras") ELSE None,
                   Read(w.local, "loras"), IF alias THEN Read(w.local, "alias_loras") ELSE None, flags>>
        Of(i) == Or(lists[i], <<>>)
    IN  IF \E i \in 1..5 : lists[i] = Error THEN Error ELSE Of(1) \o Of(2) \o Of(3) \o Of(4) \o Of(5)

\* Mutant: the percent is rounded down.
MutNeedPercent(part, total) ==
    IF part = 0 \/ total = 0 THEN 0 ELSE Min({100, (part * 100) \div total})

NeedPercent(part, total) ==
    IF part = 0 \/ total = 0 THEN 0 ELSE Min({100, (part * 100 + total - 1) \div total})

\* demand_warning and system_load_warnings: about the model, about what the
\* system already uses, about the threads, each with the limit it names.
Warning(kind, part, total) == {[kind |-> kind, percent |-> NeedPercent(part, total)]}

DemandWarning(snap, demand, limit) ==
    IF demand > 0 /\ snap.total > 0 /\ demand > (snap.total * limit) \div 100
    THEN Warning("demand", demand, snap.total) ELSE {}

LoadWarnings(snap, demand, threads, limit) ==
    LET used == snap.total - snap.avail
    IN  IF snap.total = 0 THEN {}
        ELSE DemandWarning(snap, demand, limit)
             \cup (IF used > (snap.total * limit) \div 100 THEN Warning("used", used, snap.total) ELSE {})
             \cup (IF threads # None /\ snap.cpus > 0 /\ threads * 100 > snap.cpus * limit
                   THEN Warning("threads", threads, snap.cpus) ELSE {})
==============================================================================
