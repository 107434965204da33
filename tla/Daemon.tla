------------------------------- MODULE Daemon --------------------------------
(***************************************************************************)
(* `runa daemon` and its clients: the life of the Unix socket file         *)
(* (crates/runa/src/daemon.rs, serve), the requests a daemon takes from    *)
(* its connections (serve_conn, serve_request) and the client side of      *)
(* `runa run` (daemon_proto.rs request_sync, main.rs try_daemon_run) with  *)
(* its fallback to an in-process load.  What a generation does inside the  *)
(* daemon is ModelPool's subject; here it ends in a reply.                 *)
(*                                                                         *)
(* A daemon also keeps the table of the models it serves (pool.rs specs):  *)
(* a model has an id made from the stem of its path, with a number behind  *)
(* it where the stem is taken.  The id <<"m", 2>> stands for "m-2", which  *)
(* may be the stem of a file too.  A request carries the path as its user  *)
(* typed it: it may spell an id, and a relative one names different files  *)
(* in the working directories of the client and of the daemon.             *)
(***************************************************************************)
EXTENDS Naturals, Sequences, FiniteSets, Functions

CONSTANTS
    Daemons,        \* daemon processes on one socket path
    Clients,        \* `runa run` invocations that may use a daemon
    NoDaemon,       \* no socket file, no connection
    Paths,          \* model paths as clients and command lines spell them
    StemOf,         \* the stem of each path, as an id
    SpelledId,      \* the id that a path spells, << >> if it cannot be one
    Files, NoFile,
    Dirs,           \* those that are directories
    Places, Cwd,    \* working directories, and that of every process
    FileAt,         \* what a path names in each of them
    Given,          \* the paths on the command line of a daemon, in order
    NoPath,
    MaxStarts,      \* bound: starts of one daemon (launchd/systemd restart it)
    MaxCrashes      \* bound: daemons that end without clean-up

ASSUME DaemonAssumption ==
    /\ NoDaemon \notin Daemons
    /\ NoPath \notin Paths /\ NoFile \notin Files /\ Dirs \subseteq Files
    /\ Cwd \in [Daemons \cup Clients -> Places]
    /\ FileAt \in [Places -> [Paths -> Files \cup {NoFile}]]
    /\ Given \in Seq(Paths) /\ Given # << >>
    /\ \A p \in Paths : /\ Len(StemOf[p]) \in Nat
                        /\ StemOf[p] = [i \in 1..Len(StemOf[p]) |-> StemOf[p][i]]
    /\ MaxStarts \in Nat /\ MaxCrashes \in Nat

VARIABLES
    dpc,        \* down, cleared (old socket removed), up, leaving (after ctrl_c)
    path,       \* the daemon whose socket the file is
    starts,
    crashes,    \* ends without clean-up: kills and failed accepts
    cpc,        \* new, sent, local, done
    link,       \* the daemon at the other end of the client's stream
    work,       \* requests a daemon is serving
    reply,      \* the terminal event in the client's stream
    specs,      \* per daemon: the path of each id
    asked,      \* the path in the client's request
    use,        \* the id that the request resolved to, <<>> if to none
    served      \* the file that the reply was generated from

dvars == <<dpc, path, starts, crashes>>
cvars == <<cpc, link, work, reply>>
mvars == <<specs, asked, use, served>>
vars == <<dvars, cvars, mvars>>

TypeOK ==
    /\ dpc \in [Daemons -> {"down", "cleared", "up", "leaving"}]
    /\ path \in Daemons \cup {NoDaemon}
    /\ starts \in [Daemons -> 0..MaxStarts]
    /\ crashes \in 0..MaxCrashes
    /\ cpc \in [Clients -> {"new", "sent", "local", "done"}]
    /\ link \in [Clients -> Daemons \cup {NoDaemon}]
    /\ work \in [Daemons -> SUBSET Clients]
    /\ reply \in [Clients -> {"none", "done", "error"}]
    /\ DOMAIN specs = Daemons /\ \A d \in Daemons : Range(specs[d]) \subseteq Paths
    /\ asked \in [Clients -> Paths \cup {NoPath}]
    /\ served \in [Clients -> Files \cup {NoFile}]
    /\ DOMAIN use = Clients

Init ==
    /\ dpc = [d \in Daemons |-> "down"]
    /\ path = NoDaemon
    /\ starts = [d \in Daemons |-> 0]
    /\ crashes = 0
    /\ cpc = [c \in Clients |-> "new"]
    /\ link = [c \in Clients |-> NoDaemon]
    /\ work = [d \in Daemons |-> {}]
    /\ reply = [c \in Clients |-> "none"]
    /\ specs = [d \in Daemons |-> << >>]
    /\ asked = [c \in Clients |-> NoPath]
    /\ use = [c \in Clients |-> << >>]
    /\ served = [c \in Clients |-> NoFile]

-----------------------------------------------------------------------------
(* The table of models.                                                    *)

\* model_specs_from_paths: the n-th further path of a stem gets the number n,
\* whatever else has that name.
StartId(i) ==
    LET n == Cardinality({j \in 1..i - 1 : StemOf[Given[j]] = StemOf[Given[i]]})
    IN  IF n = 0 THEN StemOf[Given[i]] ELSE Append(StemOf[Given[i]], n)

\* ModelPool::new: a later path replaces an earlier one with its id.
NewSpecs ==
    [id \in {StartId(i) : i \in DOMAIN Given} |->
        Given[CHOOSE i \in DOMAIN Given :
                 StartId(i) = id /\ \A j \in DOMAIN Given : j > i => StartId(j) # id]]

\* insert_spec: the stem, or the stem with the first number that is free.
FreeId(table, stem) ==
    LET Numbered(n) == IF n = 1 THEN stem ELSE Append(stem, n)
        taken == {n \in 1..Cardinality(DOMAIN table) + 1 : Numbered(n) \in DOMAIN table}
    IN  Numbered(CHOOSE n \in 1..Cardinality(DOMAIN table) + 1 : n \notin taken /\ 1..n - 1 \subseteq taken)

\* Mutant: the stem is taken without a look at the table.
MutInsertSpec(table, p) ==
    {[id |-> StemOf[p], table |-> [i \in DOMAIN table \cup {StemOf[p]} |-> IF i = StemOf[p] THEN p ELSE table[i]]]}

\* The id and the table that may come of it: a path that is in the table keeps
\* an id it has.
InsertSpec(table, p) ==
    LET known == {i \in DOMAIN table : table[i] = p}
        new == FreeId(table, StemOf[p])
    IN  IF known # {} THEN {[id |-> i, table |-> table] : i \in known}
        ELSE {[id |-> new, table |-> [i \in DOMAIN table \cup {new} |-> IF i = new THEN p ELSE table[i]]]}

\* resolve_or_insert: an id of the table goes before a path; of the others only
\* a file is inserted, as seen from where the daemon runs, so a directory is not
\* found even if it is in the table.
ResolveOrInsert(d, table, p) ==
    CASE SpelledId[p] # << >> /\ SpelledId[p] \in DOMAIN table -> {[id |-> SpelledId[p], table |-> table]}
      [] FileAt[Cwd[d]][p] \in Dirs \cup {NoFile} -> {[id |-> << >>, table |-> table]}
      [] OTHER -> InsertSpec(table, p)

-----------------------------------------------------------------------------
(* The daemon process.                                                     *)

\* Mutant: a socket file that is already there is left to the bind.
MutStartKeepsSocket(d) ==
    /\ dpc[d] = "down" /\ starts[d] < MaxStarts
    /\ starts' = [starts EXCEPT ![d] = @ + 1]
    /\ dpc' = [dpc EXCEPT ![d] = "cleared"]
    /\ specs' = [specs EXCEPT ![d] = NewSpecs]
    /\ UNCHANGED <<path, crashes, cvars, asked, use, served>>

\* Removes whatever socket file is at the path.
Start(d) ==
    /\ dpc[d] = "down" /\ starts[d] < MaxStarts
    /\ starts' = [starts EXCEPT ![d] = @ + 1]
    /\ dpc' = [dpc EXCEPT ![d] = "cleared"]
    /\ path' = NoDaemon
    /\ specs' = [specs EXCEPT ![d] = NewSpecs]
    /\ UNCHANGED <<crashes, cvars, asked, use, served>>

\* UnixListener::bind fails when the file exists, and the daemon exits.
Bind(d) ==
    /\ dpc[d] = "cleared"
    /\ IF path = NoDaemon
       THEN path' = d /\ dpc' = [dpc EXCEPT ![d] = "up"]
       ELSE dpc' = [dpc EXCEPT ![d] = "down"] /\ UNCHANGED path
    /\ UNCHANGED <<starts, crashes, cvars, mvars>>

CtrlC(d) ==
    /\ dpc[d] = "up"
    /\ dpc' = [dpc EXCEPT ![d] = "leaving"]
    /\ UNCHANGED <<path, starts, crashes, cvars, mvars>>

\* The process is gone: streams are closed, requests in work are lost.
Ends(d) ==
    /\ dpc' = [dpc EXCEPT ![d] = "down"]
    /\ link' = [c \in Clients |-> IF link[c] = d THEN NoDaemon ELSE link[c]]
    /\ work' = [work EXCEPT ![d] = {}]
    /\ specs' = [specs EXCEPT ![d] = << >>]
    /\ UNCHANGED <<asked, use, served>>

\* Mutant: the socket file stays behind.
MutLeaveKeepsSocket(d) ==
    /\ dpc[d] = "leaving"
    /\ Ends(d)
    /\ UNCHANGED <<path, starts, crashes, cpc, reply>>

\* After the accept loop, which only a signal ends well: remove_file, then the runtime shuts down.
Leave(d) ==
    /\ dpc[d] = "leaving"
    /\ path' = NoDaemon
    /\ Ends(d)
    /\ UNCHANGED <<starts, crashes, cpc, reply>>

\* Killed: nothing is cleaned up.
Crash(d) ==
    /\ dpc[d] # "down" /\ crashes < MaxCrashes
    /\ crashes' = crashes + 1
    /\ Ends(d)
    /\ UNCHANGED <<path, starts, cpc, reply>>

\* listener.accept fails: serve returns before its remove_file.
AcceptFails(d) ==
    /\ dpc[d] = "up" /\ crashes < MaxCrashes
    /\ crashes' = crashes + 1
    /\ Ends(d)
    /\ UNCHANGED <<path, starts, cpc, reply>>

\* A connection task reads the request line and serve_request resolves the
\* model under the mutex of the pool.
TakeRequest(d, c) ==
    /\ dpc[d] = "up" /\ link[c] = d
    /\ cpc[c] = "sent" /\ reply[c] = "none" /\ c \notin work[d]
    /\ work' = [work EXCEPT ![d] = @ \cup {c}]
    /\ \E r \in ResolveOrInsert(d, specs[d], asked[c]) :
          specs' = [specs EXCEPT ![d] = r.table] /\ use' = [use EXCEPT ![c] = r.id]
    /\ UNCHANGED <<dvars, cpc, link, reply, asked, served>>

\* serve_request returns a stream that ends in done or error (a bad line, a
\* protocol version, an unknown model, a failed generation); writing it to a
\* client that hung up fails.  pool::generate loads the path that the id has.
Reply(d, c) ==
    /\ c \in work[d]
    /\ work' = [work EXCEPT ![d] = @ \ {c}]
    /\ \/ /\ link[c] = d /\ use[c] # << >>
          /\ reply' = [reply EXCEPT ![c] = "done"]
          /\ served' = [served EXCEPT ![c] = FileAt[Cwd[d]][specs[d][use[c]]]]
       \/ link[c] = d /\ reply' = [reply EXCEPT ![c] = "error"] /\ UNCHANGED served
       \/ link[c] # d /\ UNCHANGED <<reply, served>>
    /\ UNCHANGED <<dvars, cpc, link, specs, asked, use>>

-----------------------------------------------------------------------------
(* The client.                                                             *)

Listening == path # NoDaemon /\ dpc[path] \in {"up", "leaving"}

\* UnixStream::connect and write_all for a model that resolve_model finds; a
\* refusal falls back.
Dial(c) ==
    /\ cpc[c] = "new"
    /\ \E p \in Paths : FileAt[Cwd[c]][p] # NoFile /\ asked' = [asked EXCEPT ![c] = p]
    /\ IF Listening
       THEN /\ cpc' = [cpc EXCEPT ![c] = "sent"]
            /\ link' = [link EXCEPT ![c] = path]
       ELSE cpc' = [cpc EXCEPT ![c] = "local"] /\ UNCHANGED link
    /\ UNCHANGED <<dvars, work, reply, specs, use, served>>

\* A terminal event: drain_daemon prints it or fails with its message.
Receive(c) ==
    /\ cpc[c] = "sent" /\ reply[c] # "none"
    /\ cpc' = [cpc EXCEPT ![c] = "done"]
    /\ link' = [link EXCEPT ![c] = NoDaemon]
    /\ UNCHANGED <<dvars, work, reply, mvars>>

\* read_line returns nothing: "daemon closed the connection".
Closed(c) ==
    /\ cpc[c] = "sent" /\ reply[c] = "none" /\ link[c] = NoDaemon
    /\ cpc' = [cpc EXCEPT ![c] = "local"]
    /\ UNCHANGED <<dvars, link, work, reply, mvars>>

\* Mutant: the stream has no read timeout.
MutNoTimeout(c) == FALSE /\ UNCHANGED vars

\* The read timeout strikes and the stream is dropped.
Timeout(c) ==
    /\ cpc[c] = "sent" /\ reply[c] = "none" /\ link[c] # NoDaemon
    /\ cpc' = [cpc EXCEPT ![c] = "local"]
    /\ link' = [link EXCEPT ![c] = NoDaemon]
    /\ UNCHANGED <<dvars, work, reply, mvars>>

\* The in-process load and generation, which end one way or the other.
RunLocal(c) ==
    /\ cpc[c] = "local"
    /\ cpc' = [cpc EXCEPT ![c] = "done"]
    /\ UNCHANGED <<dvars, link, work, reply, mvars>>

ClientStep(c) == Receive(c) \/ Closed(c) \/ Timeout(c) \/ RunLocal(c)

Next ==
    \/ \E d \in Daemons : Start(d) \/ Bind(d) \/ CtrlC(d) \/ Leave(d)
    \/ \E d \in Daemons : Crash(d) \/ AcceptFails(d)
    \/ \E d \in Daemons, c \in Clients : TakeRequest(d, c) \/ Reply(d, c)
    \/ \E c \in Clients : Dial(c) \/ ClientStep(c)

Spec == Init /\ [][Next]_vars

\* A client that waits has a read timeout, and a daemon that has started or
\* is leaving does not stop on the way.  Nothing makes a daemon reply.
FairSpec ==
    /\ Spec
    /\ \A c \in Clients : WF_vars(ClientStep(c))
    /\ \A d \in Daemons : WF_vars(Bind(d)) /\ WF_vars(Leave(d))

-----------------------------------------------------------------------------
\* A daemon that accepts can be dialled after any kills, failed accepts and
\* restarts, whatever files they left; and a file that no daemon answers is
\* only ever there because one was killed or lost its listener, never because of
\* where in its start or its exit a daemon is.  (One daemon on the path.)
SocketTracksDaemon ==
    /\ \A d \in Daemons : dpc[d] = "up" => path = d
    /\ crashes = 0 /\ path # NoDaemon => Listening

\* A daemon that is started comes up whatever a killed one left at the path:
\* on its way to `up` it is stopped by a kill, never by the bind.  (One daemon.)
BindSucceeds ==
    [][\A d \in Daemons :
          dpc[d] = "cleared" /\ dpc'[d] = "down" => crashes' > crashes]_vars

\* A reply was generated by the file that its client named, when the path spells
\* no id and is the same file to both (an absolute one, or one working directory):
\* requests in between that enter models of the same stem, spell an id or name
\* other files by the same relative path, ids with a number that are the stem of
\* another file, and paths that share an id on the command line never send a
\* request to another model.
ServedAsAsked ==
    \A c \in Clients :
        LET mine == FileAt[Cwd[c]][asked[c]]
        IN  /\ reply[c] = "done" /\ SpelledId[asked[c]] = << >>
            /\ \A d \in Daemons : FileAt[Cwd[d]][asked[c]] = mine
            => served[c] = mine

\* `runa run` always ends: no daemon, a stolen socket, a daemon that hangs,
\* leaves or dies under the request, each comes down to an answer.
RunEnds == \A c \in Clients : cpc[c] # "new" ~> cpc[c] = "done"
==============================================================================
