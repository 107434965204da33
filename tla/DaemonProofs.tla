---------------------------- MODULE DaemonProofs -----------------------------
(***************************************************************************)
(* One daemon on the socket path, any number of clients, restarts and      *)
(* kills: a daemon that accepts can be dialled, and a start never fails on *)
(* a file that was left behind.  Any number of daemons, clients, paths and *)
(* working directories: a reply comes from the model that its client       *)
(* named, when the path spells no id and is one file to both.              *)
(***************************************************************************)
EXTENDS Daemon, FiniteSetTheorems, WellFoundedInduction, TLAPS

\* No daemon and no path are none of them.
LEMMA Outsiders == NoDaemon \notin Daemons /\ NoPath \notin Paths
BY DaemonAssumption

-----------------------------------------------------------------------------
(* The socket file.                                                        *)

\* The parts of TypeOK that are about the daemons and the socket.
SocketTypes ==
    /\ dpc \in [Daemons -> {"down", "cleared", "up", "leaving"}]
    /\ path \in Daemons \cup {NoDaemon}
    /\ crashes \in Nat

\* Where the file is, by what the daemon is doing: only a crash leaves it to a
\* daemon that is down, and a start takes it away before the bind.
SocketInv ==
    \A d \in Daemons :
        /\ dpc[d] \in {"up", "leaving"} => path = d
        /\ dpc[d] = "cleared" => path = NoDaemon
        /\ dpc[d] = "down" /\ crashes = 0 => path = NoDaemon

OneDaemon == \A d, e \in Daemons : d = e

\* Steps that do not touch the daemon.
LEMMA SocketKept ==
    ASSUME SocketTypes, SocketInv, UNCHANGED dvars
    PROVE  SocketTypes' /\ SocketInv'
BY DEF SocketTypes, SocketInv, dvars

\* SocketInv is inductive for one daemon.
LEMMA SocketStep ==
    ASSUME OneDaemon
    PROVE  SocketTypes /\ SocketInv /\ [Next]_vars => SocketTypes' /\ SocketInv'
<1> SUFFICES ASSUME SocketTypes, SocketInv, [Next]_vars PROVE SocketTypes' /\ SocketInv'
    OBVIOUS
<1> USE Outsiders DEF SocketTypes, SocketInv, OneDaemon
<1>1. ASSUME NEW d \in Daemons, Start(d) PROVE SocketTypes' /\ SocketInv'
    BY <1>1 DEF Start
<1>2. ASSUME NEW d \in Daemons, Bind(d) PROVE SocketTypes' /\ SocketInv'
    BY <1>2 DEF Bind
<1>3. ASSUME NEW d \in Daemons, CtrlC(d) PROVE SocketTypes' /\ SocketInv'
    BY <1>3 DEF CtrlC
<1>4. ASSUME NEW d \in Daemons, Leave(d) PROVE SocketTypes' /\ SocketInv'
    BY <1>4 DEF Leave, Ends
<1>5. ASSUME NEW d \in Daemons, Crash(d) \/ AcceptFails(d) PROVE SocketTypes' /\ SocketInv'
    BY <1>5 DEF Crash, AcceptFails, Ends
<1>6. ASSUME NEW d \in Daemons, NEW c \in Clients, TakeRequest(d, c) \/ Reply(d, c)
      PROVE  UNCHANGED dvars
    BY <1>6 DEF TakeRequest, Reply
<1>7. ASSUME NEW c \in Clients, Dial(c) \/ ClientStep(c) PROVE UNCHANGED dvars
    BY <1>7 DEF Dial, ClientStep, Receive, Closed, Timeout, RunLocal
<1>8. CASE UNCHANGED vars
    BY <1>8, SocketKept DEF vars
<1> QED
    BY <1>1, <1>2, <1>3, <1>4, <1>5, <1>6, <1>7, <1>8, SocketKept DEF Next

\* The invariant holds throughout.
LEMMA SocketAlways == ASSUME OneDaemon PROVE Spec => [](SocketTypes /\ SocketInv)
<1>1. Init => SocketTypes /\ SocketInv
    BY DEF Init, SocketTypes, SocketInv
<1> QED
    BY <1>1, SocketStep, PTL DEF Spec

\* serve and its clean-up: for one daemon, any clients, starts, kills and failed
\* accepts, a daemon that accepts can be dialled, and a client meets a file that
\* no daemon answers only after a kill or a failed accept.
THEOREM SocketTracked == ASSUME OneDaemon PROVE Spec => []SocketTracksDaemon
<1>1. SocketTypes /\ SocketInv => SocketTracksDaemon
    BY DEF SocketTypes, SocketInv, SocketTracksDaemon, Listening
<1> QED
    BY <1>1, SocketAlways, PTL

\* The remove_file before UnixListener::bind: nothing but a kill stops a daemon
\* on its way up, whatever file an earlier one left.
THEOREM BindAlwaysSucceeds == ASSUME OneDaemon PROVE Spec => BindSucceeds
<1> DEFINE P == \A d \in Daemons :
                   dpc[d] = "cleared" /\ dpc'[d] = "down" => crashes' > crashes
<1>1. SocketTypes /\ SocketInv /\ [Next]_vars => [P]_vars
    <2> SUFFICES ASSUME SocketTypes, SocketInv, Next, NEW d \in Daemons,
                        dpc[d] = "cleared", dpc'[d] = "down"
                 PROVE  crashes' > crashes
        OBVIOUS
    <2> USE DEF SocketTypes, SocketInv
    <2>1. ASSUME NEW e \in Daemons, Start(e) \/ Bind(e) \/ CtrlC(e) \/ Leave(e) PROVE FALSE
        BY <2>1 DEF Start, Bind, CtrlC, Leave, Ends
    <2>2. ASSUME NEW e \in Daemons, Crash(e) \/ AcceptFails(e) PROVE crashes' > crashes
        BY <2>2 DEF Crash, AcceptFails
    <2>3. ASSUME NEW e \in Daemons, NEW c \in Clients, TakeRequest(e, c) \/ Reply(e, c)
          PROVE  FALSE
        BY <2>3 DEF TakeRequest, Reply, dvars
    <2>4. ASSUME NEW c \in Clients, Dial(c) \/ ClientStep(c) PROVE FALSE
        BY <2>4 DEF Dial, ClientStep, Receive, Closed, Timeout, RunLocal, dvars
    <2> QED
        BY <2>1, <2>2, <2>3, <2>4 DEF Next
<1> QED
    BY <1>1, SocketAlways, PTL DEF Spec, BindSucceeds
-----------------------------------------------------------------------------
(* The table of models.                                                    *)

\* A set of naturals has a least element.
LEMMA NatMin == ASSUME NEW T \in SUBSET Nat, T # {} PROVE \E m \in T : \A n \in T : m <= n
<1>1. PICK m \in T : \A n \in T : ~(<<n, m>> \in OpToRel(<, Nat))
    BY NatLessThanWellFounded, WFMin
<1>2. \A n \in T : ~(n < m)
    BY <1>1 DEF OpToRel
<1> QED
    BY <1>2

IsId(stem) == Len(stem) \in Nat /\ stem = [i \in 1..Len(stem) |-> stem[i]]

\* A stem with a number behind it tells the stem and the number.
LEMMA AppendInjective ==
    ASSUME NEW stem, IsId(stem), NEW m, NEW n
    PROVE  /\ Append(stem, m) # stem
           /\ Append(stem, m) = Append(stem, n) => m = n
<1> DEFINE S == {stem[i] : i \in 1..Len(stem)} \cup {m, n}
<1>1. stem \in Seq(S)
    <2> DEFINE k == Len(stem)
    <2>1. k \in Nat /\ stem = [i \in 1..k |-> stem[i]]
        BY DEF IsId
    <2>2. [i \in 1..k |-> stem[i]] \in [1..k -> S]
        OBVIOUS
    <2> QED
        BY <2>1, <2>2
<1>2. Append(stem, m)[Len(stem) + 1] = m /\ Append(stem, n)[Len(stem) + 1] = n
    BY <1>1
<1>3. Len(Append(stem, m)) = Len(stem) + 1 /\ Len(stem) \in Nat
    BY <1>1
<1>4. Append(stem, m) # stem
    <2> HIDE DEF S
    <2> SUFFICES ASSUME Append(stem, m) = stem PROVE FALSE
        OBVIOUS
    <2>1. Len(Append(stem, m)) = Len(stem)
        OBVIOUS
    <2> QED
        BY <1>3, <2>1
<1> QED
    BY <1>2, <1>4

\* insert_spec: the loop over the numbers ends with an id that is not taken,
\* whatever ids the table has.
LEMMA FreeIdIsFree ==
    ASSUME NEW table, IsFiniteSet(DOMAIN table), NEW stem, IsId(stem)
    PROVE  FreeId(table, stem) \notin DOMAIN table
<1> DEFINE Numbered(n) == IF n = 1 THEN stem ELSE Append(stem, n)
           k == Cardinality(DOMAIN table)
           taken == {n \in 1..k + 1 : Numbered(n) \in DOMAIN table}
           Free(n) == n \notin taken /\ 1..n - 1 \subseteq taken
           open == (1..k + 1) \ taken
<1>1. k \in Nat
    BY FS_CardinalityType
<1>2. \A m, n \in 1..k + 1 : Numbered(m) = Numbered(n) => m = n
    BY AppendInjective
<1>3. open # {}
    <2> SUFFICES ASSUME open = {} PROVE FALSE
        OBVIOUS
    <2> DEFINE f == [n \in 1..k + 1 |-> Numbered(n)]
    <2>1. f \in [1..k + 1 -> DOMAIN table]
        OBVIOUS
    <2>2. IsFiniteSet(1..k + 1) /\ Cardinality(1..k + 1) = k + 1
        BY <1>1, FS_Interval
    <2> HIDE DEF f
    <2>3. \E x, y \in 1..k + 1 : x # y /\ f[x] = f[y]
        BY <1>1, <2>1, <2>2, FS_PigeonHole
    <2> QED
        BY <1>2, <2>3 DEF f
<1>4. PICK m \in open : \A n \in open : m <= n
    <2>1. open \in SUBSET Nat
        BY <1>1
    <2> HIDE DEF open
    <2> QED
        BY <1>3, <2>1, NatMin
<1>5. Free(m) /\ m \in 1..k + 1
    BY <1>1, <1>4
<1> DEFINE n0 == CHOOSE n \in 1..k + 1 : Free(n)
<1>6. n0 \in 1..k + 1 /\ n0 \notin taken
    BY <1>5
<1>7. FreeId(table, stem) = Numbered(n0)
    BY DEF FreeId
<1> QED
    BY <1>6, <1>7

\* ModelPool::new has finitely many ids.
LEMMA NewSpecsFinite == IsFiniteSet(DOMAIN NewSpecs)
<1> DEFINE T == {StartId(i) : i \in DOMAIN Given}
           f == [i \in DOMAIN Given |-> StartId(i)]
<1>1. IsFiniteSet(DOMAIN Given)
    BY DaemonAssumption, FS_Interval
<1>2. f \in Surjection(DOMAIN Given, T)
    BY DEF Surjection
<1> HIDE DEF f
<1>3. IsFiniteSet(T)
    BY <1>1, <1>2, FS_Surjection
<1> QED
    BY <1>3 DEF NewSpecs

\* What ResolveOrInsert may return: the ids of the table keep their paths, and
\* the id of a request whose path spells none has the path that was asked for.
LEMMA InsertKeeps ==
    ASSUME NEW table, IsFiniteSet(DOMAIN table), NEW p \in Paths, NEW d,
           NEW r \in ResolveOrInsert(d, table, p)
    PROVE  /\ IsFiniteSet(DOMAIN r.table)
           /\ \A i \in DOMAIN table : i \in DOMAIN r.table /\ r.table[i] = table[i]
           /\ r.id # << >> => r.id \in DOMAIN r.table
           /\ r.id # << >> /\ SpelledId[p] = << >> => r.table[r.id] = p
<1> DEFINE new == FreeId(table, StemOf[p])
           known == {i \in DOMAIN table : table[i] = p}
           grown == [i \in DOMAIN table \cup {new} |-> IF i = new THEN p ELSE table[i]]
<1>1. new \notin DOMAIN table
    BY FreeIdIsFree, DaemonAssumption DEF IsId
<1>2. IsFiniteSet(DOMAIN table \cup {new})
    BY FS_AddElement
<1> HIDE DEF new
<1>3. CASE SpelledId[p] # << >> /\ SpelledId[p] \in DOMAIN table
    BY <1>3 DEF ResolveOrInsert
<1> DEFINE missed == FileAt[Cwd[d]][p] \in Dirs \cup {NoFile}
           spelled == SpelledId[p] # << >> /\ SpelledId[p] \in DOMAIN table
<1>4. CASE ~spelled /\ missed
    BY <1>4 DEF ResolveOrInsert
<1>5. ASSUME ~spelled, ~missed PROVE r \in InsertSpec(table, p)
    BY <1>5 DEF ResolveOrInsert
<1>6. CASE ~spelled /\ ~missed /\ known # {}
    BY <1>5, <1>6 DEF InsertSpec
<1>7. CASE ~spelled /\ ~missed /\ known = {}
    <2>1. r = [id |-> new, table |-> grown]
        BY <1>5, <1>7 DEF InsertSpec, new
    <2> QED
        BY <1>1, <1>2, <2>1
<1> QED
    BY <1>3, <1>4, <1>6, <1>7

-----------------------------------------------------------------------------
(* The requests.                                                           *)

\* The parts of TypeOK that are about requests.
RequestTypes ==
    /\ DOMAIN dpc = Daemons /\ path \in Daemons \cup {NoDaemon}
    /\ DOMAIN cpc = Clients
    /\ link \in [Clients -> Daemons \cup {NoDaemon}]
    /\ work \in [Daemons -> SUBSET Clients]
    /\ DOMAIN reply = Clients /\ DOMAIN served = Clients /\ DOMAIN use = Clients
    /\ asked \in [Clients -> Paths \cup {NoPath}]
    /\ DOMAIN specs = Daemons
    /\ \A d \in Daemons : IsFiniteSet(DOMAIN specs[d])

\* What the id of a request in work stands for.
Resolved(d, c) ==
    use[c] # << >> =>
        /\ use[c] \in DOMAIN specs[d]
        /\ SpelledId[asked[c]] = << >> => specs[d][use[c]] = asked[c]

\* ServedAsAsked, for one client.
Right(c) ==
    LET mine == FileAt[Cwd[c]][asked[c]]
    IN  /\ reply[c] = "done" /\ SpelledId[asked[c]] = << >>
        /\ \A d \in Daemons : FileAt[Cwd[d]][asked[c]] = mine
        => served[c] = mine

\* The table of a daemon lives as long as its requests, and a request stays at
\* the daemon that its client dialled.
RequestInv ==
    /\ \A d \in Daemons : dpc[d] \in {"down", "cleared"} => work[d] = {}
    /\ \A d \in Daemons : \A c \in work[d] :
          cpc[c] # "new" /\ link[c] \in {d, NoDaemon} /\ Resolved(d, c)
    /\ \A c \in Clients : cpc[c] = "new" => reply[c] = "none" /\ link[c] = NoDaemon
    /\ \A c \in Clients : cpc[c] = "sent" => asked[c] \in Paths
    /\ \A c \in Clients : Right(c)

\* Only a reply of its own concerns a client.
LEMMA RightKept ==
    ASSUME NEW c, Right(c), reply'[c] = reply[c], asked'[c] = asked[c], served'[c] = served[c]
    PROVE  Right(c)'
BY DEF Right

\* RequestInv is inductive.
LEMMA RequestStep == RequestTypes /\ RequestInv /\ [Next]_vars => RequestTypes' /\ RequestInv'
<1> SUFFICES ASSUME RequestTypes, RequestInv, [Next]_vars PROVE RequestTypes' /\ RequestInv'
    OBVIOUS
<1> USE Outsiders, RightKept DEF RequestTypes, RequestInv, Resolved
<1>1. ASSUME NEW d \in Daemons, Start(d) PROVE RequestTypes' /\ RequestInv'
    BY <1>1, NewSpecsFinite DEF Start, cvars
<1>2. ASSUME NEW d \in Daemons, Bind(d) PROVE RequestTypes' /\ RequestInv'
    BY <1>2 DEF Bind, cvars, mvars
<1>3. ASSUME NEW d \in Daemons, CtrlC(d) PROVE RequestTypes' /\ RequestInv'
    BY <1>3 DEF CtrlC, cvars, mvars
<1>4. ASSUME NEW d \in Daemons, Leave(d) \/ Crash(d) \/ AcceptFails(d) PROVE RequestTypes' /\ RequestInv'
    <2>1. /\ dpc' = [dpc EXCEPT ![d] = "down"]
          /\ link' = [c \in Clients |-> IF link[c] = d THEN NoDaemon ELSE link[c]]
          /\ work' = [work EXCEPT ![d] = {}]
          /\ specs' = [specs EXCEPT ![d] = << >>]
          /\ UNCHANGED <<cpc, reply, asked, use, served>>
          /\ path' \in {path, NoDaemon}
        BY <1>4 DEF Leave, Crash, AcceptFails, Ends
    <2>2. IsFiniteSet(DOMAIN specs'[d])
        <3>1. specs'[d] = << >>
            BY <2>1
        <3> QED
            BY <3>1, FS_EmptySet
    <2>3. \A e \in Daemons : e # d => work'[e] = work[e] /\ specs'[e] = specs[e] /\ dpc'[e] = dpc[e]
        BY <2>1
    <2>4. RequestTypes'
        BY <2>1, <2>2, <2>3
    <2>5. work'[d] = {} /\ \A c \in Clients : link'[c] \in {link[c], NoDaemon}
        BY <2>1
    <2>6. \A e \in Daemons : \A c \in work'[e] :
              cpc'[c] # "new" /\ link'[c] \in {e, NoDaemon} /\ Resolved(e, c)'
        BY <2>1, <2>3, <2>5
    <2>7. \A e \in Daemons : dpc'[e] \in {"down", "cleared"} => work'[e] = {}
        BY <2>3, <2>5
    <2> QED
        BY <2>1, <2>4, <2>5, <2>6, <2>7
<1>5. ASSUME NEW d \in Daemons, NEW c \in Clients, TakeRequest(d, c)
      PROVE  RequestTypes' /\ RequestInv'
    <2>1. asked[c] \in Paths /\ \A e \in Daemons : c \notin work[e]
        BY <1>5 DEF TakeRequest
    <2>2. PICK r \in ResolveOrInsert(d, specs[d], asked[c]) :
                 specs' = [specs EXCEPT ![d] = r.table] /\ use' = [use EXCEPT ![c] = r.id]
        BY <1>5 DEF TakeRequest
    <2>3. /\ IsFiniteSet(DOMAIN r.table)
          /\ \A i \in DOMAIN specs[d] : i \in DOMAIN r.table /\ r.table[i] = specs[d][i]
          /\ r.id # << >> => r.id \in DOMAIN r.table
          /\ r.id # << >> /\ SpelledId[asked[c]] = << >> => r.table[r.id] = asked[c]
        BY <2>1, InsertKeeps
    <2>4. /\ work' = [work EXCEPT ![d] = @ \cup {c}] /\ dpc[d] = "up" /\ link[c] = d /\ cpc[c] = "sent"
          /\ UNCHANGED <<dpc, path, cpc, link, reply, asked, served>>
        BY <1>5 DEF TakeRequest, dvars
    <2>5. RequestTypes'
        BY <2>2, <2>3, <2>4
    <2>6. \A e \in Daemons : \A b \in work'[e] : Resolved(e, b)'
        BY <2>1, <2>2, <2>3, <2>4
    <2> QED
        BY <2>4, <2>5, <2>6
<1>6. ASSUME NEW d \in Daemons, NEW c \in Clients, Reply(d, c)
      PROVE  RequestTypes' /\ RequestInv'
    <2>1. UNCHANGED <<dpc, path, cpc, link, specs, asked, use>>
        BY <1>6 DEF Reply, dvars
    <2>2. c \in work[d] /\ work' = [work EXCEPT ![d] = @ \ {c}]
        BY <1>6 DEF Reply
    <2>3. CASE link[c] = d /\ use[c] # << >> /\ reply' = [reply EXCEPT ![c] = "done"]
                 /\ served' = [served EXCEPT ![c] = FileAt[Cwd[d]][specs[d][use[c]]]]
        <3>1. Resolved(d, c)
            BY <2>2
        <3>2. Right(c)'
            BY <2>1, <2>3, <3>1 DEF Right
        <3> QED
            BY <2>1, <2>2, <2>3, <3>2
    <2>4. CASE link[c] = d /\ reply' = [reply EXCEPT ![c] = "error"] /\ UNCHANGED served
        <3>1. Right(c)'
            BY <2>1, <2>4 DEF Right
        <3> QED
            BY <2>1, <2>2, <2>4, <3>1
    <2>5. CASE UNCHANGED <<reply, served>>
        BY <2>1, <2>2, <2>5
    <2> QED
        BY <1>6, <2>3, <2>4, <2>5 DEF Reply
<1>7. ASSUME NEW c \in Clients, Dial(c) PROVE RequestTypes' /\ RequestInv'
    <2>1. reply'[c] = "none" /\ UNCHANGED <<dpc, path, work, reply, specs, use, served>>
        BY <1>7 DEF Dial, dvars
    <2>2. Right(c)'
        BY <2>1 DEF Right
    <2>3. RequestTypes' /\ \A b \in Clients : b # c => asked'[b] = asked[b]
        BY <1>7 DEF Dial, dvars, Listening
    <2> QED
        BY <1>7, <2>1, <2>2, <2>3 DEF Dial, Listening
<1>8. ASSUME NEW c \in Clients, ClientStep(c) PROVE RequestTypes' /\ RequestInv'
    <2>1. UNCHANGED <<dpc, path, work, reply, specs, asked, use, served>>
        BY <1>8 DEF ClientStep, Receive, Closed, Timeout, RunLocal, dvars, mvars
    <2>2. \/ cpc' = [cpc EXCEPT ![c] = "done"]
          \/ cpc' = [cpc EXCEPT ![c] = "local"]
        BY <1>8 DEF ClientStep, Receive, Closed, Timeout, RunLocal
    <2>3. cpc[c] # "new" /\ (link' = link \/ link' = [link EXCEPT ![c] = NoDaemon])
        BY <1>8 DEF ClientStep, Receive, Closed, Timeout, RunLocal
    <2> QED
        BY <2>1, <2>2, <2>3
<1>9. CASE UNCHANGED vars
    BY <1>9 DEF vars, dvars, cvars, mvars
<1> QED
    BY <1>1, <1>2, <1>3, <1>4, <1>5, <1>6, <1>7, <1>8, <1>9 DEF Next

\* resolve_or_insert and pool::generate: for any daemons, clients, paths, stems
\* and working directories, restarts and kills, and any requests in between, a
\* reply to a path that spells no id was generated by the file its client named,
\* if that is the file the path names to the daemon.
THEOREM ServesWhatWasAsked == Spec => []ServedAsAsked
<1>1. Init => RequestTypes /\ RequestInv
    <2>1. IsFiniteSet(DOMAIN << >>)
        BY FS_EmptySet
    <2> QED
        BY <2>1 DEF Init, RequestTypes, RequestInv, Resolved, Right
<1>2. RequestInv => ServedAsAsked
    BY DEF RequestInv, Right, ServedAsAsked
<1> QED
    BY <1>1, <1>2, RequestStep, PTL DEF Spec
==============================================================================
