------------------------- MODULE TaskRegistryProofs --------------------------
(***************************************************************************)
(* What the registry's mutex and its way of writing the table are enough   *)
(* for: as long as the calls of two processes are not under way at once,   *)
(* for any number of agents, tasks, processes and kills, no task is held   *)
(* twice, and the table has every task and every holder but between the    *)
(* truncation and the write.  For the threads of one process that is all   *)
(* the time.                                                               *)
(***************************************************************************)
EXTENDS TaskRegistry, TLAPS

\* At most one call is under way.
OneInside == \A a, b \in Inside : a = b

\* What the call under way has in memory is the table with its own change: it
\* has every task, and the row of every claim that is held.
Records(f) == \A h \in held : h[2] \in DOMAIN f /\ f[h[2]] = h[1]

WriterView ==
    \A a \in Agents : at[a] # "rest" =>
        /\ Records(rows[a])
        /\ DOMAIN rows[a] = Tasks
        /\ at[a] \in {"truncate", "fill"} => DOMAIN text[a] = Tasks
        /\ at[a] = "fill" => DOMAIN file = {}
        /\ claiming[a] # Free =>
              /\ rows[a][claiming[a]] = a
              /\ \A h \in held : h[2] # claiming[a]

\* HolderRecorded with status unfolded, and what a cut leaves: an empty table,
\* in which nothing can be claimed any more.
OnRecord ==
    ~cut /\ (\A a \in Agents : at[a] # "fill") => Records(file) /\ DOMAIN file = Tasks
CutEmpty == cut => DOMAIN file = {} /\ Inside = {}

Serial == OneInside /\ WriterView /\ OnRecord /\ CutEmpty /\ NoDoubleHeld

RegistryInv == TasksTypeOK /\ (~overlapped => Serial)

-----------------------------------------------------------------------------
\* A table is a function from some of the tasks to owners.
LEMMA TableShape ==
    ASSUME NEW f PROVE f \in Tables <=> \E S \in SUBSET Tasks : f \in [S -> Owners]
BY DEF Tables

\* The parts of a table that the proofs use.
LEMMA TableParts ==
    ASSUME NEW f \in Tables
    PROVE  DOMAIN f \subseteq Tasks /\ f \in [DOMAIN f -> Owners]
<1>1. PICK S \in SUBSET Tasks : f \in [S -> Owners]
    BY TableShape
<1> QED
    BY <1>1

\* Setting one row of a table gives a table.
LEMMA SetRow ==
    ASSUME NEW f \in Tables, NEW t, NEW w \in Owners
    PROVE  [f EXCEPT ![t] = w] \in Tables
<1>1. DOMAIN f \subseteq Tasks /\ f \in [DOMAIN f -> Owners]
    BY TableParts
<1>2. [f EXCEPT ![t] = w] \in [DOMAIN f -> Owners]
    BY <1>1
<1> QED
    BY <1>1, <1>2, TableShape

\* The empty table is a table.
LEMMA NoRowsTable == NoRows \in Tables
<1>1. NoRows \in [{} -> Owners]
    BY DEF NoRows
<1> QED
    BY <1>1, TableShape

\* Rewriting a table gives a table.
LEMMA RewriteTable ==
    ASSUME NEW x \in Tables, NEW r \in Tables PROVE Rewrite(x, r) \in Tables
<1>1. DOMAIN x \subseteq Tasks /\ x \in [DOMAIN x -> Owners]
    BY TableParts
<1>2. r \in [DOMAIN r -> Owners]
    BY TableParts
<1>3. Rewrite(x, r) \in [DOMAIN x -> Owners]
    BY <1>1, <1>2 DEF Rewrite
<1> QED
    BY <1>1, <1>3, TableShape

\* status finds every task whose row is in the table.
LEMMA StatusKnown ==
    ASSUME TasksTypeOK PROVE \A t \in DOMAIN file : Status(t) # "None"
<1>1. file \in [DOMAIN file -> Owners]
    BY TableParts DEF TasksTypeOK
<1> QED
    BY <1>1, RegistryAssumption DEF Status, Owners

-----------------------------------------------------------------------------
\* Every step keeps the types.
LEMMA TypeStep == TasksTypeOK /\ [TasksNext]_tasksVars => TasksTypeOK'
<1> SUFFICES ASSUME TasksTypeOK, [TasksNext]_tasksVars PROVE TasksTypeOK'
    OBVIOUS
<1> USE RegistryAssumption DEF TasksTypeOK, Owners
<1>1. ASSUME NEW a \in Agents, NEW t \in Tasks, Claim(a, t) PROVE TasksTypeOK'
    <2>1. [file EXCEPT ![t] = a] \in Tables
        BY SetRow
    <2> QED
        BY <1>1, <2>1 DEF Claim, Begin
<1>2. ASSUME NEW a \in Agents, NEW t \in Tasks, Release(a, t) PROVE TasksTypeOK'
    <2>1. [file EXCEPT ![t] = Free] \in Tables
        BY SetRow
    <2> QED
        BY <1>2, <2>1 DEF Release, Begin
<1>3. ASSUME NEW a \in Agents, Reread(a) PROVE TasksTypeOK'
    BY <1>3 DEF Reread
<1>4. ASSUME NEW a \in Agents, Truncate(a) PROVE TasksTypeOK'
    BY <1>4, NoRowsTable DEF Truncate
<1>5. ASSUME NEW a \in Agents, FillIn(a) PROVE TasksTypeOK'
    <2>1. Rewrite(text[a], rows[a]) \in Tables
        BY RewriteTable
    <2>2. held' \in SUBSET (Agents \X Tasks)
        BY <1>5 DEF FillIn
    <2> QED
        BY <1>5, <2>1, <2>2, NoRowsTable DEF FillIn, Return
<1>6. ASSUME NEW a \in Agents, Kill(a) PROVE TasksTypeOK'
    <2> DEFINE gone == {b \in Agents : ProcessOf[b] = ProcessOf[a]}
    <2>1. Return(gone) /\ UNCHANGED <<held, file, overlapped>>
          /\ kills' \in 0..MaxKills /\ cut' \in BOOLEAN
        BY <1>6 DEF Kill
    <2> HIDE DEF gone
    <2> QED
        BY <2>1, NoRowsTable DEF Return
<1>7. CASE UNCHANGED tasksVars
    BY <1>7 DEF tasksVars
<1> QED
    BY <1>1, <1>2, <1>3, <1>4, <1>5, <1>6, <1>7 DEF TasksNext, WriteStep

\* The registry opens well typed.
LEMMA InitType == TasksInit => TasksTypeOK
<1> SUFFICES ASSUME TasksInit PROVE TasksTypeOK
    OBVIOUS
<1>1. file \in Tables
    <2>1. [t \in Tasks |-> Free] \in [Tasks -> Owners]
        BY DEF Owners
    <2> QED
        BY <2>1, TableShape DEF TasksInit
<1>2. kills \in 0..MaxKills
    BY RegistryAssumption DEF TasksInit
<1>3. /\ at \in [Agents -> {"rest", "reread", "truncate", "fill"}]
      /\ claiming \in [Agents -> Tasks \cup {Free}]
      /\ rows \in [Agents -> Tables] /\ text \in [Agents -> Tables]
      /\ held \in SUBSET (Agents \X Tasks)
    BY NoRowsTable DEF TasksInit
<1>4. overlapped \in BOOLEAN /\ cut \in BOOLEAN
    BY DEF TasksInit
<1> QED
    BY <1>1, <1>2, <1>3, <1>4 DEF TasksTypeOK

\* Type correctness, for threads and for processes.
THEOREM TypeCorrect == TasksSpec => []TasksTypeOK
    BY InitType, TypeStep, PTL DEF TasksSpec

-----------------------------------------------------------------------------
\* A call that begins while none is under way: the rows it reads are the
\* table, and changing row t to w keeps every held claim on record when no
\* held claim is on t.
LEMMA EnterStep ==
    ASSUME TasksTypeOK, Serial, NEW a \in Agents, NEW t \in Tasks, NEW w \in Owners,
           Inside = {}, t \in DOMAIN file, Begin(a, t, w),
           UNCHANGED <<file, text, cut>>, held' \subseteq held,
           \A h \in held' : h[2] # t, w \in {a, Free}
    PROVE  Serial'
<1> USE RegistryAssumption DEF TasksTypeOK, Owners
<1>1. \A b \in Agents : at[b] = "rest"
    BY DEF Inside
<1>2. ~cut /\ Records(file) /\ DOMAIN file = Tasks
    BY <1>1 DEF Serial, OnRecord, CutEmpty
<1>3. /\ DOMAIN rows'[a] = Tasks
      /\ rows'[a][t] = w
      /\ \A u \in Tasks : u # t => rows'[a][u] = file[u]
    <2>1. file \in [DOMAIN file -> Owners]
        BY TableParts
    <2>2. rows'[a] = [file EXCEPT ![t] = w]
        BY DEF Begin
    <2> QED
        BY <1>2, <2>1, <2>2
<1>4. OneInside'
    BY <1>1 DEF OneInside, Inside, Begin
<1>5. WriterView'
    <2> SUFFICES ASSUME NEW b \in Agents, at'[b] # "rest"
                 PROVE  /\ (Records(rows[b]))'
                        /\ DOMAIN rows'[b] = Tasks
                        /\ at'[b] \in {"truncate", "fill"} => DOMAIN text'[b] = Tasks
                        /\ at'[b] = "fill" => DOMAIN file' = {}
                        /\ claiming'[b] # Free =>
                              /\ rows'[b][claiming'[b]] = b
                              /\ \A h \in held' : h[2] # claiming'[b]
        BY DEF WriterView
    <2>1. b = a /\ at'[b] = "reread"
        BY <1>1 DEF Begin
    <2>2. (Records(rows[b]))'
        BY <1>2, <1>3, <2>1 DEF Records
    <2>3. claiming'[a] = IF w = Free THEN Free ELSE t
        BY DEF Begin
    <2> QED
        BY <1>2, <1>3, <2>1, <2>2, <2>3
<1>6. OnRecord'
    BY <1>2 DEF OnRecord, Records
<1>7. NoDoubleHeld' /\ CutEmpty'
    BY <1>2 DEF Serial, NoDoubleHeld, CutEmpty
<1> QED
    BY <1>4, <1>5, <1>6, <1>7 DEF Serial

\* Every step that leaves the calls of the processes apart keeps Serial.
LEMMA SerialStep ==
    ASSUME TasksTypeOK, Serial, [TasksNext]_tasksVars, ~overlapped' PROVE Serial'
<1> USE RegistryAssumption DEF TasksTypeOK, Owners
<1>1. ASSUME NEW a \in Agents, NEW t \in Tasks, Claim(a, t) PROVE Serial'
    <2>1. Inside = {}
        BY <1>1 DEF Claim, Begin
    <2>2. \A h \in held' : h[2] # t
        <3>1. Records(file)
            BY <1>1, <2>1 DEF Claim, Inside, Serial, OnRecord, CutEmpty
        <3> QED
            BY <1>1, <3>1 DEF Claim, Records
    <2> QED
        BY <1>1, <2>1, <2>2, EnterStep DEF Claim
<1>2. ASSUME NEW a \in Agents, NEW t \in Tasks, Release(a, t) PROVE Serial'
    <2>1. Inside = {}
        BY <1>2 DEF Release, Begin
    <2>2. \A h \in held' : h[2] # t
        <3>1. Records(file)
            BY <1>2, <2>1 DEF Release, Inside, Serial, OnRecord, CutEmpty
        <3>2. \A h \in held : h \in Agents \X Tasks /\ h = <<h[1], h[2]>>
            OBVIOUS
        <3> QED
            BY <1>2, <3>1, <3>2 DEF Release, Records
    <2> QED
        BY <1>2, <2>1, <2>2, EnterStep DEF Release
<1>3. ASSUME NEW a \in Agents, Reread(a) PROVE Serial'
    <2>1. a \in Inside /\ Inside' = Inside
        BY <1>3 DEF Reread, Inside
    <2>2. OnRecord /\ ~cut /\ \A b \in Agents : at[b] # "fill"
        BY <1>3, <2>1 DEF Reread, Serial, OneInside, CutEmpty, Inside
    <2>3. DOMAIN file = Tasks /\ Records(file)
        BY <2>2 DEF OnRecord
    <2>4. WriterView'
        BY <1>3, <2>3 DEF Reread, Serial, WriterView, Records
    <2> QED
        BY <1>3, <2>1, <2>2, <2>3, <2>4
           DEF Reread, Serial, OneInside, OnRecord, CutEmpty, NoDoubleHeld, Records
<1>4. ASSUME NEW a \in Agents, Truncate(a) PROVE Serial'
    <2>1. a \in Inside /\ Inside' = Inside /\ at'[a] = "fill"
        BY <1>4 DEF Truncate, Inside
    <2>2. \A b \in Agents : at'[b] # "rest" => b = a
        BY <2>1 DEF Serial, OneInside, Inside
    <2>3. DOMAIN file' = {}
        BY <1>4 DEF Truncate, NoRows
    <2>4. WriterView'
        BY <1>4, <2>2, <2>3 DEF Truncate, Serial, WriterView, Records
    <2> QED
        BY <1>4, <2>1, <2>4
           DEF Truncate, Serial, OneInside, OnRecord, CutEmpty, NoDoubleHeld
<1>5. ASSUME NEW a \in Agents, FillIn(a) PROVE Serial'
    <2>1. \A b \in Agents : at'[b] = "rest"
        BY <1>5 DEF FillIn, Return, Serial, OneInside, Inside
    <2>2. Records(rows[a]) /\ DOMAIN text[a] = Tasks /\ DOMAIN rows[a] = Tasks
        BY <1>5 DEF FillIn, Serial, WriterView
    <2>3. DOMAIN file' = Tasks /\ \A u \in Tasks : file'[u] = rows[a][u]
        BY <1>5, <2>2 DEF FillIn, Rewrite
    <2>4. ~cut /\ ~cut'
        BY <1>5 DEF FillIn, Serial, CutEmpty, Inside
    <2>5. OneInside' /\ WriterView' /\ CutEmpty'
        BY <2>1, <2>4 DEF OneInside, Inside, WriterView, CutEmpty
    <2>6. CASE claiming[a] = Free
        BY <1>5, <2>2, <2>3, <2>5, <2>6 DEF FillIn, Serial, OnRecord, NoDoubleHeld, Records
    <2>7. CASE claiming[a] # Free
        <3>1. /\ claiming[a] \in Tasks
              /\ rows[a][claiming[a]] = a
              /\ \A h \in held : h[2] # claiming[a]
            BY <1>5, <2>7 DEF FillIn, Serial, WriterView
        <3>2. held' = held \cup {<<a, claiming[a]>>}
            BY <1>5, <2>7 DEF FillIn
        <3>3. OnRecord'
            BY <2>2, <2>3, <3>1, <3>2 DEF OnRecord, Records
        <3>4. NoDoubleHeld'
            BY <3>1, <3>2 DEF Serial, NoDoubleHeld
        <3> QED
            BY <2>5, <3>3, <3>4 DEF Serial
    <2> QED
        BY <2>6, <2>7
<1>6. ASSUME NEW a \in Agents, Kill(a) PROVE Serial'
    <2> DEFINE gone == {b \in Agents : ProcessOf[b] = ProcessOf[a]}
    <2>1. /\ Return(gone) /\ UNCHANGED <<held, file>>
          /\ cut' = (cut \/ \E b \in gone : at[b] = "fill")
        BY <1>6 DEF Kill
    <2>2. gone \subseteq Agents
        OBVIOUS
    <2> HIDE DEF gone
    <2>3. Inside' = Inside \ gone /\ \A b \in Inside' : b \in Inside /\ at'[b] = at[b]
        BY <2>1, <2>2 DEF Return, Inside
    <2>4. OneInside' /\ NoDoubleHeld'
        BY <2>1, <2>3 DEF Serial, OneInside, NoDoubleHeld
    <2>5. WriterView'
        BY <2>1, <2>2 DEF Serial, WriterView, Return, Records
    <2>6. CASE cut'
        <3>1. CASE cut
            BY <2>1, <2>3, <2>4, <2>5, <3>1 DEF Serial, CutEmpty, OnRecord
        <3>2. CASE ~cut
            <4>1. PICK b \in gone : at[b] = "fill"
                BY <2>1, <2>6, <3>2
            <4>2. Inside' = {}
                BY <2>2, <2>3, <4>1 DEF Serial, OneInside, Inside
            <4>3. DOMAIN file = {}
                BY <2>2, <4>1 DEF Serial, WriterView
            <4> QED
                BY <2>1, <2>4, <2>5, <2>6, <4>2, <4>3 DEF Serial, CutEmpty, OnRecord
        <3> QED
            BY <3>1, <3>2
    <2>7. CASE ~cut'
        <3>1. \A b \in Agents : at'[b] # "fill" => at[b] # "fill"
            BY <2>1, <2>7 DEF Return
        <3>2. OnRecord'
            BY <2>1, <2>7, <3>1 DEF Serial, OnRecord, Records
        <3> QED
            BY <2>4, <2>5, <2>7, <3>2 DEF Serial, CutEmpty
    <2> QED
        BY <2>6, <2>7
<1>7. CASE UNCHANGED tasksVars
    BY <1>7 DEF tasksVars, Serial, OneInside, Inside, WriterView, OnRecord, CutEmpty, NoDoubleHeld, Records
<1> QED
    BY <1>1, <1>2, <1>3, <1>4, <1>5, <1>6, <1>7 DEF TasksNext, WriteStep

\* RegistryInv is inductive.
LEMMA RegistryStep == RegistryInv /\ [TasksNext]_tasksVars => RegistryInv'
<1> SUFFICES ASSUME RegistryInv, [TasksNext]_tasksVars PROVE RegistryInv'
    OBVIOUS
<1>1. TasksTypeOK'
    BY TypeStep DEF RegistryInv
<1>2. ASSUME ~overlapped' PROVE ~overlapped
    BY <1>2 DEF TasksNext, WriteStep, Claim, Release, Begin, Reread, Truncate, FillIn, Kill,
       tasksVars
<1> QED
    BY <1>1, <1>2, SerialStep DEF RegistryInv

\* RegistryInv holds throughout.
LEMMA RegistryAlways == TasksSpec => []RegistryInv
<1>1. TasksInit => RegistryInv
    <2> SUFFICES ASSUME TasksInit PROVE RegistryInv
        OBVIOUS
    <2>1. TasksTypeOK
        BY InitType
    <2> QED
        BY <2>1 DEF TasksInit, RegistryInv, Serial, OneInside, Inside, WriterView, OnRecord,
           CutEmpty, Records, NoDoubleHeld
<1> QED
    BY <1>1, RegistryStep, PTL DEF TasksSpec

\* M12 for commands one after another and for threads of one process: no task
\* is granted to two agents, whatever is killed where.
THEOREM ClaimsExclusive == TasksSpec => []SerialExclusive
<1>1. RegistryInv => SerialExclusive
    BY DEF RegistryInv, Serial, SerialExclusive
<1> QED
    BY <1>1, RegistryAlways, PTL

\* claim and its rewrite of the table: outside fs::write, and unless a kill has
\* cut one short, the table names the holder of every claim and has every task.
THEOREM ClaimsOnRecord == TasksSpec => []HolderRecorded
<1>1. RegistryInv => HolderRecorded
    BY StatusKnown DEF RegistryInv, Serial, OnRecord, Records, HolderRecorded, Status
<1> QED
    BY <1>1, RegistryAlways, PTL

\* M12 as documented, for the threads of one process, which share the mutex of
\* one TaskRegistry: no task is ever held twice.
THEOREM OneRegistry ==
    ASSUME \A a, b \in Agents : ProcessOf[a] = ProcessOf[b]
    PROVE  TasksSpec => []NoDoubleHeld
<1>1. TasksInit => ~overlapped
    BY DEF TasksInit
<1>2. ~overlapped /\ [TasksNext]_tasksVars => ~overlapped'
    BY DEF TasksNext, WriteStep, Claim, Release, Begin, LockFree, Inside, Reread, Truncate, FillIn,
       Kill, tasksVars
<1>3. RegistryInv /\ ~overlapped => NoDoubleHeld
    BY DEF RegistryInv, Serial
<1> QED
    BY <1>1, <1>2, <1>3, RegistryAlways, PTL DEF TasksSpec
==============================================================================
