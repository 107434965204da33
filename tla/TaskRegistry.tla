---------------------------- MODULE TaskRegistry -----------------------------
(***************************************************************************)
(* crates/runa-memory/src/registry.rs: task claims kept in the rows of a   *)
(* markdown table.  A row is its owner (`in progress`) or Free; the lines  *)
(* that are not rows of a task never change and are left out.  claim and   *)
(* release hold the registry's mutex and touch the file four times: they   *)
(* read the rows, read the text again, truncate it and write it (the last  *)
(* two are fs::write).  list_free and status read it without the mutex.    *)
(* `runa tasks` opens a registry, hence a mutex, per process; threads of   *)
(* one process that share a registry are the library's other way to use it.*)
(***************************************************************************)
EXTENDS Naturals, FiniteSets

CONSTANTS
    Tasks,          \* the task ids of the table
    Agents,         \* callers, each under a name of its own
    Free,           \* an empty Agent column
    Processes,
    ProcessOf,      \* the process, hence the TaskRegistry, each agent calls in
    MaxKills        \* bound: processes that are killed

ASSUME RegistryAssumption ==
    /\ Free \notin Agents \cup Tasks
    /\ "None" \notin Agents \cup {Free}
    /\ ProcessOf \in [Agents -> Processes]
    /\ MaxKills \in Nat

VARIABLES
    file,       \* the rows on disk: a function on the ids that have a line
    at,         \* where a call is: rest, reread, truncate, fill
    claiming,   \* the task being claimed; Free in release and at rest
    rows,       \* `rows`, parsed before the check and updated after it
    text,       \* the rows of the text write_rows reads again
    held,       \* claims an agent was granted and has not given back
    kills,
    overlapped, \* ghost: calls of two processes were under way at once
    cut         \* ghost: a process was killed between truncation and write

tasksVars == <<file, at, claiming, rows, text, held, kills, overlapped, cut>>

Owners == Agents \cup {Free}
Tables == UNION {[S -> Owners] : S \in SUBSET Tasks}

TasksTypeOK ==
    /\ file \in Tables
    /\ at \in [Agents -> {"rest", "reread", "truncate", "fill"}]
    /\ claiming \in [Agents -> Tasks \cup {Free}]
    /\ rows \in [Agents -> Tables]
    /\ text \in [Agents -> Tables]
    /\ held \in SUBSET (Agents \X Tasks)
    /\ kills \in 0..MaxKills
    /\ overlapped \in BOOLEAN
    /\ cut \in BOOLEAN

NoRows == [t \in {} |-> Free]

TasksInit ==
    /\ file = [t \in Tasks |-> Free]
    /\ at = [a \in Agents |-> "rest"]
    /\ claiming = [a \in Agents |-> Free]
    /\ rows = [a \in Agents |-> NoRows]
    /\ text = [a \in Agents |-> NoRows]
    /\ held = {}
    /\ kills = 0
    /\ overlapped = FALSE
    /\ cut = FALSE

Inside == {a \in Agents : at[a] # "rest"}

\* self.lock, the mutex of a's registry: nobody of the same process is inside
\* claim or release.  It excludes no other process.
LockFree(a) == \A b \in Inside : ProcessOf[b] # ProcessOf[a]

\* read_rows, the checks passed, and the row of t set to owner in memory.
Begin(a, t, owner) ==
    /\ rows' = [rows EXCEPT ![a] = [file EXCEPT ![t] = owner]]
    /\ claiming' = [claiming EXCEPT ![a] = IF owner = Free THEN Free ELSE t]
    /\ at' = [at EXCEPT ![a] = "reread"]
    /\ overlapped' = (overlapped \/ Inside # {})

\* Mutant: a row in progress is claimed all the same.
MutClaimNoCheck(a, t) ==
    /\ at[a] = "rest" /\ LockFree(a)
    /\ t \in DOMAIN file
    /\ Begin(a, t, a)
    /\ UNCHANGED <<file, text, held, kills, cut>>

\* claim; NotFound and AlreadyClaimed change nothing.
Claim(a, t) ==
    /\ at[a] = "rest" /\ LockFree(a)
    /\ t \in DOMAIN file /\ file[t] = Free
    /\ Begin(a, t, a)
    /\ UNCHANGED <<file, text, held, kills, cut>>

\* Mutant: release does not look at the owner.
MutReleaseAnyone(a, t) ==
    /\ at[a] = "rest" /\ LockFree(a)
    /\ t \in DOMAIN file
    /\ Begin(a, t, Free)
    /\ held' = held \ {<<a, t>>}
    /\ UNCHANGED <<file, text, kills, cut>>

\* release, of the agent's own row or of a free one; NotFound and NotOwner
\* change nothing.
Release(a, t) ==
    /\ at[a] = "rest" /\ LockFree(a)
    /\ t \in DOMAIN file /\ file[t] \in {a, Free}
    /\ Begin(a, t, Free)
    /\ held' = held \ {<<a, t>>}
    /\ UNCHANGED <<file, text, kills, cut>>

\* write_rows reads the text a second time ...
Reread(a) ==
    /\ at[a] = "reread"
    /\ text' = [text EXCEPT ![a] = file]
    /\ at' = [at EXCEPT ![a] = "truncate"]
    /\ UNCHANGED <<file, claiming, rows, held, kills, overlapped, cut>>

\* ... fs::write opens the file with truncation ...
Truncate(a) ==
    /\ at[a] = "truncate"
    /\ file' = NoRows
    /\ at' = [at EXCEPT ![a] = "fill"]
    /\ UNCHANGED <<claiming, rows, text, held, kills, overlapped, cut>>

\* rewrite_rows: every line of x whose id is in rs is replaced by rs's row.
Rewrite(x, rs) == [t \in DOMAIN x |-> IF t \in DOMAIN rs THEN rs[t] ELSE x[t]]

\* The calls of S are over and their locals gone.
Return(S) ==
    /\ at' = [a \in Agents |-> IF a \in S THEN "rest" ELSE at[a]]
    /\ claiming' = [a \in Agents |-> IF a \in S THEN Free ELSE claiming[a]]
    /\ rows' = [a \in Agents |-> IF a \in S THEN NoRows ELSE rows[a]]
    /\ text' = [a \in Agents |-> IF a \in S THEN NoRows ELSE text[a]]

\* ... and writes the new text; the call returns.
FillIn(a) ==
    /\ at[a] = "fill"
    /\ file' = Rewrite(text[a], rows[a])
    /\ held' = IF claiming[a] = Free THEN held
               ELSE held \cup {<<a, claiming[a]>>}
    /\ Return({a})
    /\ UNCHANGED <<kills, overlapped, cut>>

\* The process of a is killed, with the calls of its threads.  Agents outlive
\* the commands they give: what was granted before stays granted.
Kill(a) ==
    LET gone == {b \in Agents : ProcessOf[b] = ProcessOf[a]}
    IN  /\ kills < MaxKills
        /\ kills' = kills + 1
        /\ Return(gone)
        /\ cut' = (cut \/ \E b \in gone : at[b] = "fill")
        /\ UNCHANGED <<file, held, overlapped>>

WriteStep(a) == Reread(a) \/ Truncate(a) \/ FillIn(a)

TasksNext ==
    \/ \E a \in Agents, t \in Tasks : Claim(a, t) \/ Release(a, t)
    \/ \E a \in Agents : WriteStep(a) \/ Kill(a)

TasksSpec == TasksInit /\ [][TasksNext]_tasksVars

\* status(t), at any moment: it takes no lock.
Status(t) == IF t \in DOMAIN file THEN file[t] ELSE "None"

-----------------------------------------------------------------------------
\* docs/memory.md: "M12 (no double-held task)".  Two agents are never both
\* told that the same task is theirs.
NoDoubleHeld == \A h, g \in held : h[2] = g[2] => h = g

\* M12 for `runa tasks` commands that follow each other and for the threads of
\* one process, whatever they do to each other: as long as the calls of two
\* processes were never under way at once no task is held twice, processes
\* killed at any point of a call included.
SerialExclusive == ~overlapped => NoDoubleHeld

\* docs/memory.md, claim: "the row becomes `in progress`".  Under the same
\* condition the table loses rows in one place only, between the truncation
\* and the write of fs::write, to a reader or for good to a kill right there:
\* at every other moment, after kills at every other point, it names the
\* holder of every claim and status knows every task.
HolderRecorded ==
    ~overlapped /\ ~cut /\ (\A a \in Agents : at[a] # "fill") =>
        /\ \A h \in held : Status(h[2]) = h[1]
        /\ \A t \in Tasks : Status(t) # "None"
==============================================================================
