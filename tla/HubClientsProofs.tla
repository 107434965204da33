-------------------------- MODULE HubClientsProofs ---------------------------
(***************************************************************************)
(* The local model store under any number of pulls, header fetches, new    *)
(* revisions, kills and rewrites by others: a download is skipped for the  *)
(* right bytes only, what a pull could not verify does not stay, and the   *)
(* file that was pulled by tag is the one that is found by it; and the     *)
(* header that `runa fit` reads of a remote file, with requests that grow  *)
(* or from its cache, is the one that a local copy gives.                  *)
(***************************************************************************)
EXTENDS HubClients, WellFoundedInduction, SequenceTheorems, TLAPS

-----------------------------------------------------------------------------
(* pick_quant.                                                             *)

\* A set of naturals has a least element.
LEMMA NatMin == ASSUME NEW T \in SUBSET Nat, T # {} PROVE \E m \in T : \A n \in T : m <= n
<1>1. PICK m \in T : \A n \in T : ~(<<n, m>> \in OpToRel(<, Nat))
    BY NatLessThanWellFounded, WFMin
<1>2. \A n \in T : ~(n < m)
    BY <1>1 DEF OpToRel
<1> QED
    BY <1>2

\* The order of pick_quant.
Before(f, g, tag) ==
    \/ Name[f].class[tag] < Name[g].class[tag]
    \/ Name[f].class[tag] = Name[g].class[tag] /\ Name[f].len < Name[g].len
    \/ Name[f].class[tag] = Name[g].class[tag] /\ Name[f].len = Name[g].len /\ Name[f].rank < Name[g].rank

Fits(S, tag) == {f \in S : Name[f].class[tag] < 3}

\* The parts of a name that the order compares.
LEMMA NameParts ==
    ASSUME NEW tag \in Tags
    PROVE  /\ \A f \in Ggufs : Name[f].class[tag] \in Nat /\ Name[f].len \in Nat /\ Name[f].rank \in Nat
           /\ \A f, g \in Ggufs : Name[f].rank = Name[g].rank => f = g
<1>1. \A f \in Ggufs : Name[f] \in [class : [Tags -> 1..3], len : Nat, rank : Nat, nested : BOOLEAN]
    BY PullAssumption
<1>2. \A f \in Ggufs : Name[f].class \in [Tags -> 1..3] /\ Name[f].len \in Nat /\ Name[f].rank \in Nat
    BY <1>1
<1>3. \A c \in [Tags -> 1..3] : c[tag] \in Nat
    OBVIOUS
<1>4. \A f \in Ggufs : Name[f].class[tag] \in Nat
    BY <1>2, <1>3
<1>5. \A f, g \in Ggufs : Name[f].rank = Name[g].rank => f = g
    BY PullAssumption
<1> QED
    BY <1>2, <1>4, <1>5

\* The order has a first element in every set of files.
LEMMA BeforeFirst ==
    ASSUME NEW tag \in Tags, NEW S \in SUBSET Ggufs, S # {}
    PROVE  \E f \in S : \A g \in S \ {f} : Before(f, g, tag)
<1>0. /\ \A f \in S : Name[f].class[tag] \in Nat /\ Name[f].len \in Nat /\ Name[f].rank \in Nat
      /\ \A f, g \in S : Name[f].rank = Name[g].rank => f = g
    BY NameParts
<1>1. PICK c \in {Name[f].class[tag] : f \in S} : \A n \in {Name[f].class[tag] : f \in S} : c <= n
    <2> DEFINE T == {Name[f].class[tag] : f \in S}
    <2>1. T \in SUBSET Nat /\ T # {}
        BY <1>0
    <2> HIDE DEF T
    <2>2. \E m \in T : \A n \in T : m <= n
        BY <2>1, NatMin
    <2> QED
        BY <2>2 DEF T
<1> DEFINE U == {f \in S : Name[f].class[tag] = c}
<1>2. PICK l \in {Name[f].len : f \in U} : \A n \in {Name[f].len : f \in U} : l <= n
    <2> DEFINE T == {Name[f].len : f \in U}
    <2>1. T \in SUBSET Nat /\ T # {}
        BY <1>0, <1>1
    <2> HIDE DEF T
    <2>2. \E m \in T : \A n \in T : m <= n
        BY <2>1, NatMin
    <2> QED
        BY <2>2 DEF T
<1> DEFINE V == {f \in U : Name[f].len = l}
<1>3. PICK r \in {Name[f].rank : f \in V} : \A n \in {Name[f].rank : f \in V} : r <= n
    <2> DEFINE T == {Name[f].rank : f \in V}
    <2>1. T \in SUBSET Nat /\ T # {}
        BY <1>0, <1>2
    <2> HIDE DEF T
    <2>2. \E m \in T : \A n \in T : m <= n
        BY <2>1, NatMin
    <2> QED
        BY <2>2 DEF T
<1>4. PICK f \in V : Name[f].rank = r
    BY <1>3
<1>5. ASSUME NEW g \in S \ {f} PROVE Before(f, g, tag)
    <2>1. c <= Name[g].class[tag] /\ Name[f].class[tag] = c /\ Name[f].len = l
        BY <1>1, <1>4
    <2>2. Name[g].class[tag] = c => l <= Name[g].len
        BY <1>2
    <2>3. g \in V => r <= Name[g].rank /\ Name[g].rank # r
        BY <1>0, <1>3, <1>4
    <2>4. /\ Name[g].class[tag] \in Nat /\ Name[g].len \in Nat /\ Name[g].rank \in Nat
          /\ c \in Nat /\ l \in Nat /\ r \in Nat
        BY <1>0, <1>1, <1>2, <1>3
    <2> QED
        BY <1>4, <2>1, <2>2, <2>3, <2>4 DEF Before
<1> QED
    BY <1>4, <1>5

\* What pick_quant returns.
LEMMA PickQuantFirst ==
    ASSUME NEW tag \in Tags, NEW S \in SUBSET Ggufs
    PROVE  /\ Fits(S, tag) = {} => PickQuant(S, tag) = NoFile
           /\ Fits(S, tag) # {} => /\ PickQuant(S, tag) \in Fits(S, tag)
                              /\ \A g \in Fits(S, tag) \ {PickQuant(S, tag)} : Before(PickQuant(S, tag), g, tag)
<1>1. PickQuant(S, tag) = IF Fits(S, tag) = {} THEN NoFile
                     ELSE CHOOSE f \in Fits(S, tag) : \A g \in Fits(S, tag) \ {f} : Before(f, g, tag)
    BY DEF PickQuant, Fits, Before
<1>2. Fits(S, tag) \in SUBSET Ggufs
    BY DEF Fits
<1>3. Fits(S, tag) # {} => \E f \in Fits(S, tag) : \A g \in Fits(S, tag) \ {f} : Before(f, g, tag)
    BY <1>2, BeforeFirst
<1> QED
    BY <1>1, <1>3

\* The first of a set is the first of every part of it that has it.
LEMMA PickQuantOfPart ==
    ASSUME NEW tag \in Tags, NEW S \in SUBSET Ggufs, PickQuant(Ggufs, tag) # NoFile, PickQuant(Ggufs, tag) \in S
    PROVE  PickQuant(S, tag) = PickQuant(Ggufs, tag)
<1> DEFINE a == PickQuant(Ggufs, tag)
           b == PickQuant(S, tag)
<1>1. a \in Fits(Ggufs, tag) /\ \A g \in Fits(Ggufs, tag) \ {a} : Before(a, g, tag)
    BY PickQuantFirst
<1>2. a \in Fits(S, tag)
    BY <1>1 DEF Fits
<1>3. b \in Fits(S, tag) /\ \A g \in Fits(S, tag) \ {b} : Before(b, g, tag)
    BY <1>2, PickQuantFirst
<1> HIDE DEF a, b
<1>4. b \in Fits(Ggufs, tag) /\ a \in Ggufs /\ b \in Ggufs
    BY <1>1, <1>3 DEF Fits
<1>5. a # b => Before(a, b, tag) /\ Before(b, a, tag)
    BY <1>1, <1>2, <1>3, <1>4
<1>6. ~(Before(a, b, tag) /\ Before(b, a, tag))
    BY <1>4, NameParts DEF Before
<1> QED
    BY <1>5, <1>6 DEF a, b

-----------------------------------------------------------------------------
(* The pulls.                                                              *)

Working == {"head", "check", "hash", "download", "verify", "stamp", "fill"}

\* A pull that was asked for: what it has left is files of the store, and a tag
\* that was pulled stands for a file.
Asked(j) ==
    /\ j \in [at : Working \cup {"ok", "failed"}, ask : Asks, todo : Seq(Files), meta : Revs]
    /\ j.at \in Working => j.todo # << >>
    /\ j.ask \in Tags => PickQuant(Ggufs, j.ask) # NoFile

PullTypes ==
    /\ hub \in Revs
    /\ DOMAIN disk = Files /\ DOMAIN side = Files /\ DOMAIN late = Files
    /\ DOMAIN pulling = Pullers
    /\ \A p \in Pullers : pulling[p] = [at |-> "idle"] \/ Asked(pulling[p])

\* The file a pull is at.
LEMMA FileOfPull ==
    ASSUME PullTypes, NEW p \in Pullers, pulling[p].at \in Working
    PROVE  Asked(pulling[p]) /\ File(p) \in Files
<1>1. Asked(pulling[p])
    BY DEF PullTypes, Working
<1>2. pulling[p].todo \in Seq(Files) /\ pulling[p].todo # << >>
    BY <1>1 DEF Asked
<1> QED
    BY <1>1, <1>2 DEF File

\* A jump keeps the pull but for the place it is at.
LEMMA GotoMoves ==
    ASSUME PullTypes, NEW p \in Pullers, pulling[p].at \in Working,
           NEW l \in Working \cup {"ok", "failed"}, Goto(p, l)
    PROVE  /\ DOMAIN pulling' = Pullers
           /\ \A q \in Pullers \ {p} : pulling'[q] = pulling[q]
           /\ Asked(pulling'[p]) /\ pulling'[p].at = l
           /\ pulling'[p].todo = pulling[p].todo /\ pulling'[p].meta = pulling[p].meta
<1>1. Asked(pulling[p]) /\ DOMAIN pulling = Pullers
    BY FileOfPull DEF PullTypes
<1>2. pulling' = [pulling EXCEPT ![p] = [@ EXCEPT !.at = l]]
    BY DEF Goto
<1> QED
    BY <1>1, <1>2 DEF Asked

\* The next file, or the end.
LEMMA AdvanceMoves ==
    ASSUME PullTypes, NEW p \in Pullers, pulling[p].at \in Working, Advance(p)
    PROVE  /\ DOMAIN pulling' = Pullers
           /\ \A q \in Pullers \ {p} : pulling'[q] = pulling[q]
           /\ Asked(pulling'[p]) /\ pulling'[p].at \in {"ok", "head"}
<1> DEFINE j == pulling[p]
           l == IF Len(j.todo) = 1 THEN "ok" ELSE "head"
<1>1. Asked(j) /\ DOMAIN pulling = Pullers
    BY FileOfPull DEF PullTypes
<1>2. j.todo \in Seq(Files) /\ j.todo # << >>
    BY <1>1 DEF Asked
<1>3. Tail(j.todo) \in Seq(Files) /\ (l = "head" => Tail(j.todo) # << >>)
    <2>1. Tail(j.todo) \in Seq(Files) /\ Len(Tail(j.todo)) = Len(j.todo) - 1 /\ Len(j.todo) \in Nat
        BY <1>2, HeadTailProperties
    <2>2. Tail(j.todo) = << >> => Len(Tail(j.todo)) = 0
        BY EmptySeq, Zenon
    <2>3. Tail(j.todo) # << >> \/ Len(j.todo) = 1
        BY <2>1, <2>2
    <2> QED
        BY <2>1, <2>3
<1>4. /\ pulling'[p] = [j EXCEPT !.todo = Tail(@), !.at = l]
      /\ DOMAIN pulling' = Pullers /\ \A q \in Pullers \ {p} : pulling'[q] = pulling[q]
    BY <1>1 DEF Advance
<1> HIDE DEF j
<1>5. /\ pulling'[p] \in [at : Working \cup {"ok", "failed"}, ask : Asks, todo : Seq(Files), meta : Revs]
      /\ pulling'[p].todo = Tail(j.todo) /\ pulling'[p].at = l /\ pulling'[p].ask = j.ask
    BY <1>1, <1>3, <1>4 DEF Asked, Working
<1> QED
    BY <1>1, <1>3, <1>4, <1>5 DEF Asked, Working

SpentTypes == spent \in [Counters -> Nat]

\* A bound that is drawn on.
LEMMA SpendCounts ==
    ASSUME SpentTypes, NEW what \in Counters, NEW bound, Spend(what, bound)
    PROVE  /\ SpentTypes' /\ spent'[what] # 0
           /\ \A k \in Counters \ {what} : spent'[k] = spent[k]
BY DEF SpentTypes, Spend

\* What a sidecar says of a file that was not written in a later second.
SideSound ==
    \A f \in Files :
        side[f] # NoFile /\ disk[f] # NoFile /\ disk[f].mtime <= side[f].verified_at
            => late[f] \/ disk[f].content = side[f].sha256

\* A file that passes for a revision by its length and is none.
Disguised(f) ==
    disk[f] # NoFile /\ disk[f].content \notin Revs /\ \E r \in Revs : Size[disk[f].content] = Size[r]

\* The revisions have one length.
OneLength == \A r, s \in Revs : Size[r] = Size[s]

\* Whoever downloaded it is going to check it.
ChecksPending ==
    OneLength /\ server.linked /\ spent["kills"] = 0 /\ spent["rewrites"] = 0 =>
        \A f \in Files : Disguised(f) =>
            \E p \in Pullers : pulling[p].at = "verify" /\ File(p) = f

StoreInv == PullTypes /\ SpentTypes /\ SideSound /\ ChecksPending

\* A pull that moves without leaving a check behind: the store keeps what it
\* promises of the files that did not change.
LEMMA PullMoves ==
    ASSUME StoreInv, NEW p \in Pullers, pulling[p].at # "verify",
           DOMAIN pulling' = Pullers,
           \A q \in Pullers \ {p} : pulling'[q] = pulling[q],
           pulling'[p] = [at |-> "idle"] \/ Asked(pulling'[p]),
           UNCHANGED <<hub, server, disk, side, late, spent>>
    PROVE  StoreInv'
<1>1. PullTypes' /\ SpentTypes' /\ SideSound'
    BY DEF StoreInv, PullTypes, SpentTypes, SideSound
<1>2. ChecksPending'
    <2> SUFFICES ASSUME OneLength, server.linked, spent["kills"] = 0, spent["rewrites"] = 0,
                        NEW f \in Files, Disguised(f)
                 PROVE  \E q \in Pullers : pulling'[q].at = "verify" /\ File(q)' = f
        BY DEF ChecksPending, Disguised
    <2>1. PICK q \in Pullers : pulling[q].at = "verify" /\ File(q) = f
        BY DEF StoreInv, ChecksPending
    <2> QED
        BY <2>1 DEF File
<1> QED
    BY <1>1, <1>2 DEF StoreInv

\* What pull asks for.
LEMMA WantedFiles ==
    ASSUME NEW ask \in Asks, Wanted(ask) # <<NoFile>>
    PROVE  /\ Wanted(ask) \in Seq(Files) /\ Wanted(ask) # << >>
           /\ ask \in Tags => PickQuant(Ggufs, ask) # NoFile
<1>0. Tags \cap Ggufs = {} /\ "safetensors" \notin Tags \cup Ggufs
    BY PullAssumption
<1>1. CASE ask \in Tags
    <2>1. Wanted(ask) = <<PickQuant(Ggufs, ask)>>
        BY <1>0, <1>1 DEF Wanted
    <2>2. PickQuant(Ggufs, ask) # NoFile
        BY <2>1
    <2>3. PickQuant(Ggufs, ask) \in Files
        BY <1>1, <2>2, PickQuantFirst DEF Fits, Files
    <2> HIDE DEF PickQuant
    <2> QED
        BY <1>1, <2>1, <2>2, <2>3
<1>2. CASE ask = "safetensors"
    <2>1. Wanted(ask) = Snapshot
        BY <1>0, <1>2 DEF Wanted
    <2>2. Snapshot \in Seq({Snapshot[i] : i \in DOMAIN Snapshot}) /\ Snapshot # << >>
        BY PullAssumption
    <2>3. \A i \in 1..Len(Snapshot) : Snapshot[i] \in Files
        BY <2>2 DEF Files
    <2> QED
        BY <1>0, <1>2, <2>1, <2>2, <2>3
<1>3. CASE ask \in Ggufs
    <2>1. ask \notin Tags /\ ask # "safetensors" /\ ask \in Files
        BY <1>0, <1>3 DEF Files
    <2>2. Wanted(ask) = <<ask>>
        BY <2>1 DEF Wanted
    <2> QED
        BY <2>1, <2>2
<1> QED
    BY <1>1, <1>2, <1>3 DEF Asks

\* Steps that change neither the store nor a pull.
LEMMA StoreUntouched ==
    ASSUME StoreInv, UNCHANGED <<server, disk, side, pulling, late>>, hub' \in Revs,
           SpentTypes', spent'["kills"] = 0 => spent["kills"] = 0,
           spent'["rewrites"] = spent["rewrites"]
    PROVE  StoreInv'
<1>1. PullTypes' /\ SideSound'
    BY DEF StoreInv, PullTypes, SideSound
<1>2. ChecksPending'
    BY DEF StoreInv, ChecksPending, Disguised, File
<1> QED
    BY <1>1, <1>2 DEF StoreInv

\* A write into the store.
LEMMA LandsSound ==
    ASSUME PullTypes, SideSound, NEW f \in Files, NEW c, Lands(f, c), UNCHANGED side
    PROVE  /\ SideSound'
           /\ DOMAIN disk' = Files /\ DOMAIN late' = Files
           /\ \A g \in Files \ {f} : disk'[g] = disk[g]
<1>1. /\ DOMAIN disk' = Files /\ DOMAIN late' = Files
      /\ disk'[f].mtime = now /\ side'[f] = side[f]
      /\ late'[f] = (late[f] \/ (side[f] # NoFile /\ side[f].verified_at >= now))
      /\ \A g \in Files \ {f} : disk'[g] = disk[g] /\ late'[g] = late[g] /\ side'[g] = side[g]
    BY DEF Lands, PullTypes
<1>2. ASSUME side'[f] # NoFile, disk'[f].mtime <= side'[f].verified_at PROVE late'[f]
    <2>1. side[f].verified_at >= now
        BY <1>1, <1>2
    <2> QED
        BY <1>1, <1>2, <2>1
<1>3. SideSound'
    BY <1>1, <1>2 DEF SideSound
<1> QED
    BY <1>1, <1>3

\* Every step of a pull keeps the invariant of the store.
LEMMA PullStepKeeps ==
    ASSUME StoreInv, NEW p \in Pullers, PullStep(p)
    PROVE  StoreInv'
<1>0. /\ pulling[p].at \in Working /\ Asked(pulling[p]) /\ File(p) \in Files
      /\ PullTypes /\ SpentTypes /\ SideSound /\ ChecksPending
      /\ UNCHANGED <<hub, server, spent>> /\ hub \in Revs
    <2>1. pulling[p].at \in Working /\ UNCHANGED <<hub, server, spent>>
        BY DEF PullStep, HeadMetadata, CachedIfVerified, HashCached, Download,
               VerifyDownloaded, WriteSidecar, FillSidecar, Working
    <2> QED
        BY <2>1, FileOfPull DEF StoreInv, PullTypes
<1>1. CASE HeadMetadata(p)
    <2>1. /\ DOMAIN pulling' = Pullers
          /\ \A q \in Pullers \ {p} : pulling'[q] = pulling[q]
          /\ \E l \in {"failed", "check"} : pulling'[p] = [pulling[p] EXCEPT !.meta = hub, !.at = l]
        BY <1>0, <1>1 DEF HeadMetadata, PullTypes
    <2>2. Asked(pulling'[p])
        BY <1>0, <2>1 DEF Asked, Working
    <2> QED
        BY <1>1, <2>1, <2>2, PullMoves DEF HeadMetadata
<1>2. CASE CachedIfVerified(p)
    <2>1. Advance(p) \/ \E l \in Working : Goto(p, l)
        BY <1>2 DEF CachedIfVerified, Working
    <2>2. /\ DOMAIN pulling' = Pullers
          /\ \A q \in Pullers \ {p} : pulling'[q] = pulling[q]
          /\ Asked(pulling'[p])
        BY <1>0, <2>1, GotoMoves, AdvanceMoves
    <2> QED
        BY <1>2, <2>2, PullMoves DEF CachedIfVerified
<1>3. CASE HashCached(p)
    <2>1. \E l \in Working : Goto(p, l)
        BY <1>3 DEF HashCached, Working
    <2>2. /\ DOMAIN pulling' = Pullers
          /\ \A q \in Pullers \ {p} : pulling'[q] = pulling[q]
          /\ Asked(pulling'[p])
        BY <1>0, <2>1, GotoMoves
    <2> QED
        BY <1>3, <2>2, PullMoves DEF HashCached
<1>4. CASE Download(p)
    <2>1. CASE Fail(p) /\ UNCHANGED <<disk, late>>
        <3>1. /\ DOMAIN pulling' = Pullers
              /\ \A q \in Pullers \ {p} : pulling'[q] = pulling[q]
              /\ Asked(pulling'[p])
            BY <1>0, <2>1, GotoMoves DEF Fail
        <3> QED
            BY <1>4, <2>1, <3>1, PullMoves DEF Download
    <2>2. ASSUME NEW c, Lands(File(p), c), Goto(p, "verify") PROVE StoreInv'
        <3>1. /\ DOMAIN pulling' = Pullers
              /\ \A q \in Pullers \ {p} : pulling'[q] = pulling[q]
              /\ Asked(pulling'[p]) /\ pulling'[p].at = "verify"
              /\ pulling'[p].todo = pulling[p].todo
            BY <1>0, <2>2, GotoMoves DEF Working
        <3>2. UNCHANGED side /\ pulling[p].at = "download"
            BY <1>4 DEF Download
        <3>3. /\ SideSound' /\ DOMAIN disk' = Files /\ DOMAIN late' = Files
              /\ \A g \in Files \ {File(p)} : disk'[g] = disk[g]
            BY <1>0, <2>2, <3>2, LandsSound
        <3>4. PullTypes'
            BY <1>0, <3>1, <3>2, <3>3 DEF PullTypes
        <3>5. ChecksPending'
            <4> SUFFICES ASSUME OneLength, server.linked, spent["kills"] = 0, spent["rewrites"] = 0,
                                NEW f \in Files, Disguised(f)'
                         PROVE  \E q \in Pullers : pulling'[q].at = "verify" /\ File(q)' = f
                BY <1>0 DEF ChecksPending
            <4>1. CASE f = File(p)
                BY <3>1, <4>1 DEF File
            <4>2. CASE f # File(p)
                <5>1. Disguised(f)
                    BY <3>3, <4>2 DEF Disguised
                <5>2. PICK q \in Pullers : pulling[q].at = "verify" /\ File(q) = f
                    BY <1>0, <5>1 DEF ChecksPending
                <5> QED
                    BY <3>1, <3>2, <5>2 DEF File
            <4> QED
                BY <4>1, <4>2
        <3> QED
            BY <1>0, <3>3, <3>4, <3>5 DEF StoreInv, SpentTypes
    <2> QED
        BY <1>4, <2>1, <2>2 DEF Download
<1>5. CASE VerifyDownloaded(p)
    <2>1. /\ DOMAIN pulling' = Pullers
          /\ \A q \in Pullers \ {p} : pulling'[q] = pulling[q]
          /\ Asked(pulling'[p])
        <3>1. Advance(p) \/ \E l \in Working \cup {"failed"} : Goto(p, l)
            <4>1. CASE server.linked /\ (~Present(File(p)) \/ Size[Content(File(p))] # Size[pulling[p].meta])
                BY <1>5, <4>1 DEF VerifyDownloaded, Fail
            <4>2. CASE server.linked /\ Present(File(p)) /\ Size[Content(File(p))] = Size[pulling[p].meta]
                BY <1>5, <4>2 DEF VerifyDownloaded, Fail, Working
            <4>3. CASE ~server.linked
                BY <1>5, <4>3 DEF VerifyDownloaded, Fail
            <4> QED
                BY <4>1, <4>2, <4>3
        <3> QED
            BY <1>0, <3>1, GotoMoves, AdvanceMoves
    <2>2. UNCHANGED <<side, late>> /\ pulling[p].at = "verify" /\ pulling[p].meta \in Revs
        BY <1>0, <1>5 DEF VerifyDownloaded, Asked
    <2>3. disk' = disk \/ disk' = [disk EXCEPT ![File(p)] = NoFile]
        <3>1. CASE server.linked /\ (~Present(File(p)) \/ Size[Content(File(p))] # Size[pulling[p].meta])
            BY <1>5, <3>1 DEF VerifyDownloaded
        <3>2. CASE server.linked /\ Present(File(p)) /\ Size[Content(File(p))] = Size[pulling[p].meta]
            BY <1>5, <3>2 DEF VerifyDownloaded
        <3>3. CASE ~server.linked
            BY <1>5, <3>3 DEF VerifyDownloaded
        <3> QED
            BY <3>1, <3>2, <3>3
    <2>4. ASSUME OneLength, NEW g, g = File(p), server.linked PROVE ~Disguised(g)'
        <3> SUFFICES ASSUME Disguised(g)' PROVE FALSE
            OBVIOUS
        <3>1. /\ disk'[g] # NoFile /\ disk'[g].content \notin Revs
              /\ \E r \in Revs : Size[disk'[g].content] = Size[r]
            BY DEF Disguised
        <3>2. disk' = disk
            BY <1>0, <2>3, <2>4, <3>1 DEF PullTypes
        <3>3. Present(g) /\ Size[Content(g)] = Size[pulling[p].meta] /\ Content(g) # pulling[p].meta
            BY <2>2, <2>4, <3>1, <3>2 DEF Present, Content, OneLength
        <3>4. disk' = [disk EXCEPT ![g] = NoFile]
            BY <1>5, <2>4, <3>3 DEF VerifyDownloaded
        <3> QED
            BY <1>0, <2>4, <3>1, <3>4 DEF PullTypes
    <2>5. PullTypes' /\ SideSound'
        BY <1>0, <2>1, <2>2, <2>3 DEF PullTypes, SideSound
    <2>6. ChecksPending'
        <3> SUFFICES ASSUME OneLength, server.linked, spent["kills"] = 0, spent["rewrites"] = 0,
                            NEW f \in Files, Disguised(f)'
                     PROVE  \E q \in Pullers : pulling'[q].at = "verify" /\ File(q)' = f
            BY <1>0 DEF ChecksPending
        <3>1. f # File(p)
            BY <2>4
        <3>2. Disguised(f)
            BY <1>0, <2>3, <3>1 DEF Disguised, PullTypes
        <3>3. PICK q \in Pullers : pulling[q].at = "verify" /\ File(q) = f
            BY <1>0, <3>2 DEF ChecksPending
        <3> QED
            BY <2>1, <3>1, <3>3 DEF File
    <2> QED
        BY <1>0, <2>5, <2>6 DEF StoreInv, SpentTypes
<1>6. CASE WriteSidecar(p) \/ FillSidecar(p)
    <2>1. /\ DOMAIN pulling' = Pullers
          /\ \A q \in Pullers \ {p} : pulling'[q] = pulling[q]
          /\ Asked(pulling'[p])
          /\ pulling[p].at # "verify"
        BY <1>0, <1>6, GotoMoves, AdvanceMoves DEF WriteSidecar, FillSidecar, Working
    <2>2. SideSound' /\ DOMAIN side' = Files /\ DOMAIN late' = Files /\ disk' = disk
        <3>1. CASE WriteSidecar(p)
            BY <1>0, <3>1 DEF WriteSidecar, SideSound, PullTypes
        <3>2. CASE FillSidecar(p)
            <4>1. /\ disk' = disk /\ DOMAIN side' = Files /\ DOMAIN late' = Files
                  /\ side'[File(p)].sha256 = pulling[p].meta
                  /\ late'[File(p)] = (Present(File(p)) /\ Content(File(p)) # pulling[p].meta)
                  /\ \A g \in Files \ {File(p)} : side'[g] = side[g] /\ late'[g] = late[g]
                BY <1>0, <3>2 DEF FillSidecar, PullTypes
            <4> QED
                BY <1>0, <4>1 DEF SideSound, Present, Content
        <3> QED
            BY <1>6, <3>1, <3>2
    <2>3. PullTypes'
        BY <1>0, <2>1, <2>2 DEF PullTypes
    <2>4. ChecksPending'
        <3> SUFFICES ASSUME OneLength, server.linked, spent["kills"] = 0, spent["rewrites"] = 0,
                            NEW f \in Files, Disguised(f)
                     PROVE  \E q \in Pullers : pulling'[q].at = "verify" /\ File(q)' = f
            BY <1>0, <2>2 DEF ChecksPending, Disguised
        <3>1. PICK q \in Pullers : pulling[q].at = "verify" /\ File(q) = f
            BY <1>0 DEF ChecksPending
        <3> QED
            BY <2>1, <3>1 DEF File
    <2> QED
        BY <1>0, <2>2, <2>3, <2>4 DEF StoreInv, SpentTypes
<1> QED
    BY <1>1, <1>2, <1>3, <1>4, <1>5, <1>6 DEF PullStep

\* The invariant of the store is inductive.
LEMMA StoreStep == StoreInv /\ [Next]_vars => StoreInv'
<1> SUFFICES ASSUME StoreInv, [Next]_vars PROVE StoreInv'
    OBVIOUS
<1>0. SpentTypes /\ PullTypes /\ hub \in Revs
    BY DEF StoreInv, PullTypes
<1>1. ASSUME NEW p \in Pullers, Pull(p) PROVE StoreInv'
    <2>1. PICK ask \in Asks :
             /\ Wanted(ask) # <<NoFile>>
             /\ pulling' = [pulling EXCEPT ![p] =
                   [at |-> "head", ask |-> ask, todo |-> Wanted(ask), meta |-> hub]]
        BY <1>1 DEF Pull
    <2>2. /\ DOMAIN pulling' = Pullers
          /\ \A q \in Pullers \ {p} : pulling'[q] = pulling[q]
          /\ pulling'[p] = [at |-> "head", ask |-> ask, todo |-> Wanted(ask), meta |-> hub]
        BY <1>0, <2>1 DEF PullTypes
    <2>3. /\ Wanted(ask) \in Seq(Files) /\ Wanted(ask) # << >>
          /\ ask \in Tags => PickQuant(Ggufs, ask) # NoFile
        BY <2>1, WantedFiles
    <2>4. Asked(pulling'[p])
        BY <1>0, <2>2, <2>3 DEF Asked, Working
    <2>5. /\ pulling[p].at # "verify" /\ UNCHANGED <<hub, server, disk, side, late>>
          /\ SpentTypes' /\ spent'["kills"] = spent["kills"] /\ spent'["rewrites"] = spent["rewrites"]
        BY <1>0, <1>1, SpendCounts DEF Pull, Counters
    <2>6. PullTypes' /\ SideSound'
        BY <1>0, <2>2, <2>4, <2>5 DEF StoreInv, PullTypes, SideSound
    <2>7. ChecksPending'
        <3> SUFFICES ASSUME OneLength, server.linked, spent["kills"] = 0, spent["rewrites"] = 0,
                            NEW f \in Files, Disguised(f)
                     PROVE  \E q \in Pullers : pulling'[q].at = "verify" /\ File(q)' = f
            BY <2>5 DEF ChecksPending, Disguised
        <3>1. PICK q \in Pullers : pulling[q].at = "verify" /\ File(q) = f
            BY DEF StoreInv, ChecksPending
        <3> QED
            BY <2>2, <2>5, <3>1 DEF File
    <2> QED
        BY <2>5, <2>6, <2>7 DEF StoreInv
<1>2. ASSUME NEW p \in Pullers, PullStep(p) PROVE StoreInv'
    BY <1>2, PullStepKeeps
<1>3. ASSUME NEW p \in Pullers, KillPull(p) PROVE StoreInv'
    <2>1. SpentTypes' /\ spent'["kills"] # 0
        BY <1>0, <1>3, SpendCounts DEF KillPull, Counters
    <2>2. PullTypes' /\ SideSound'
        BY <1>0, <1>3 DEF KillPull, StoreInv, PullTypes, SideSound
    <2> QED
        BY <2>1, <2>2 DEF StoreInv, ChecksPending
<1>4. ASSUME Rewrite PROVE StoreInv'
    <2>1. SpentTypes' /\ spent'["rewrites"] # 0
        BY <1>0, <1>4, SpendCounts DEF Rewrite, Counters
    <2>2. PICK f \in Ggufs, c \in Garbled : Lands(f, c)
        BY <1>4 DEF Rewrite
    <2>3. UNCHANGED <<hub, side, pulling>> /\ f \in Files
        BY <1>4 DEF Rewrite, Files
    <2>4. SideSound' /\ DOMAIN disk' = Files /\ DOMAIN late' = Files
        BY <1>0, <2>2, <2>3, LandsSound DEF StoreInv
    <2>5. PullTypes'
        BY <1>0, <2>3, <2>4 DEF PullTypes
    <2> QED
        BY <2>1, <2>4, <2>5 DEF StoreInv, ChecksPending
<1>5. ASSUME Second PROVE StoreInv'
    BY <1>0, <1>5, StoreUntouched DEF Second, SpentTypes
<1>6. ASSUME NEW p \in Fetchers, FetchHeader(p) \/ FetchStep(p) \/ KillFetch(p), UNCHANGED storeVars
      PROVE  StoreInv'
    <2>1. UNCHANGED <<hub, server>>
        BY <1>6 DEF FetchHeader, FetchStep, KillFetch, ReadCache, ReadMeta, Probe, GetRange,
                    WriteCache, WriteFails
    <2>2. /\ SpentTypes' /\ spent'["rewrites"] = spent["rewrites"]
          /\ spent'["kills"] = 0 => spent["kills"] = 0
        <3>1. CASE FetchHeader(p)
            BY <1>0, <3>1, SpendCounts DEF FetchHeader, Counters
        <3>2. CASE FetchStep(p)
            BY <1>0, <3>2 DEF FetchStep, ReadCache, ReadMeta, Probe, GetRange, WriteCache, WriteFails,
                               SpentTypes
        <3>3. CASE KillFetch(p)
            BY <1>0, <3>3, SpendCounts DEF KillFetch, Counters
        <3> QED
            BY <1>6, <3>1, <3>2, <3>3
    <2> QED
        BY <1>0, <1>6, <2>1, <2>2, StoreUntouched DEF storeVars
<1>7. ASSUME Publish, UNCHANGED storeVars PROVE StoreInv'
    <2>1. /\ SpentTypes' /\ spent'["kills"] = spent["kills"] /\ spent'["rewrites"] = spent["rewrites"]
          /\ hub' \in Revs /\ UNCHANGED server
        BY <1>0, <1>7, SpendCounts DEF Publish, Counters
    <2> QED
        BY <1>7, <2>1, StoreUntouched DEF storeVars
<1>8. CASE UNCHANGED vars
    BY <1>0, <1>8, StoreUntouched DEF vars, storeVars, SpentTypes
<1> QED
    BY <1>1, <1>2, <1>3, <1>4, <1>5, <1>6, <1>7, <1>8 DEF Next

\* The invariant of the store holds throughout.
LEMMA StoreAlways == Spec => []StoreInv
<1>1. Init => StoreInv
    BY HubAssumption DEF Init, HubInit, PullInit, StoreInv, PullTypes, SpentTypes, SideSound,
                         ChecksPending, Disguised
<1> QED
    BY <1>1, StoreStep, PTL DEF Spec

\* cached_if_verified: the sidecar stands for the bytes of the revision that the
\* hub names, whatever pulls, kills, rewrites and publications came between;
\* only a file written within the second of its hash is missed.
THEOREM SkipsAreSound == Spec => []SkipSound
<1>1. StoreInv => SkipSound
    <2> SUFFICES ASSUME StoreInv, NEW p \in Pullers, pulling[p].at = "check",
                        Present(File(p)), Trusted(File(p), pulling[p].meta)
                 PROVE  late[File(p)] \/ Content(File(p)) = pulling[p].meta
        BY DEF SkipSound
    <2>1. File(p) \in Files
        BY FileOfPull DEF StoreInv, Working
    <2> QED
        BY <2>1 DEF StoreInv, SideSound, Present, Trusted, Content
<1> QED
    BY <1>1, StoreAlways, PTL

\* verify_downloaded: when all pulls are over and none was killed, what has the
\* length of a revision is one, however the pulls interleaved.  (A file whose
\* length differs from the metadata is left; that of another revision might be.)
THEOREM NoneGarbled == ASSUME OneLength PROVE Spec => []NothingGarbled
<1>1. StoreInv => NothingGarbled
    <2> SUFFICES ASSUME StoreInv, Resting, server.linked, spent.kills = 0, spent.rewrites = 0,
                        NEW f \in Files, Disguised(f)
                 PROVE  FALSE
        BY DEF NothingGarbled, Disguised, Present, Content
    <2>1. \E p \in Pullers : pulling[p].at = "verify"
        BY DEF StoreInv, ChecksPending
    <2> QED
        BY <2>1 DEF Resting
<1> QED
    BY <1>1, StoreAlways, PTL

\* pull and find_local: the file that a quant tag pulled is the file it finds,
\* whatever else lies in the store, if and only if it is at the top.
THEOREM PulledIsFound == Spec => []PullThenFind
<1>1. StoreInv => PullThenFind
    <2> SUFFICES ASSUME StoreInv, NEW p \in Pullers, NEW tag \in Tags, pulling[p].ask = tag,
                        pulling[p].at = "ok", Present(PickQuant(Ggufs, tag))
                 PROVE  FindLocal(tag) = PickQuant(Ggufs, tag) <=> ~Name[PickQuant(Ggufs, tag)].nested
        BY DEF PullThenFind
    <2> DEFINE best == PickQuant(Ggufs, tag)
    <2>1. Asked(pulling[p])
        BY DEF StoreInv, PullTypes
    <2>2. best # NoFile
        BY <2>1 DEF Asked
    <2>3. best \in Ggufs
        BY <2>2, PickQuantFirst DEF Fits
    <2>4. FindLocal(tag) = PickQuant(Listed, tag) /\ Listed \in SUBSET Ggufs
        BY PullAssumption DEF FindLocal, Listed
    <2>5. CASE Name[best].nested
        <3>1. best \notin Listed
            BY <2>5 DEF Listed
        <3>2. PickQuant(Listed, tag) \in Listed \/ PickQuant(Listed, tag) = NoFile
            BY <2>4, PickQuantFirst DEF Fits
        <3> HIDE DEF best
        <3> QED
            BY <2>2, <2>4, <2>5, <3>1, <3>2 DEF best
    <2>6. CASE ~Name[best].nested
        <3>1. best \in Listed
            BY <2>3, <2>6 DEF Listed
        <3>2. PickQuant(Listed, tag) = best
            BY <2>2, <2>4, <3>1, PickQuantOfPart
        <3> QED
            BY <2>4, <2>6, <3>2
    <2> QED
        BY <2>5, <2>6
<1> QED
    BY <1>1, StoreAlways, PTL

-----------------------------------------------------------------------------
(* The reader and its growing prefix.                                      *)

\* The least of two numbers.
LEMMA MinOfTwo ==
    ASSUME NEW x \in Int, NEW y \in Int
    PROVE  Min({x, y}) = IF x <= y THEN x ELSE y
<1>1. \A u, v \in {x, y} : (\A z \in {x, y} : u <= z) /\ (\A z \in {x, y} : v <= z) => u = v
    OBVIOUS
<1>2. \A z \in {x, y} : (IF x <= y THEN x ELSE y) <= z
    OBVIOUS
<1> QED
    BY <1>1, <1>2 DEF Min

\* The least element of a set of numbers is the one that is below the others.
LEMMA MinIs ==
    ASSUME NEW T \in SUBSET Nat, NEW m \in T, \A n \in T : m <= n
    PROVE  Min(T) = m
<1>1. \A u \in T : (\A z \in T : u <= z) => u = m
    OBVIOUS
<1> QED
    BY <1>1 DEF Min

\* What FieldEnd passes through: the ends of the first n fields.
Ends(f, h, n) == f = [j \in 0..n |-> IF j = 0 THEN 0 ELSE f[j - 1] + h[j].size]

\* There are such ends.
LEMMA EndsExist ==
    ASSUME NEW h, NEW n \in Nat
    PROVE  \E f : Ends(f, h, n)
<1> DEFINE T == {m \in Nat : ~\E f : Ends(f, h, m)}
<1> SUFFICES ASSUME T # {} PROVE FALSE
    OBVIOUS
<1>1. PICK m \in T : \A k \in T : m <= k
    <2> HIDE DEF T
    <2>1. T \in SUBSET Nat
        BY DEF T
    <2> QED
        BY <2>1, NatMin
<1>2. m # 0
    <2> DEFINE f == [j \in 0..0 |-> 0]
    <2>1. f = [j \in 0..0 |-> IF j = 0 THEN 0 ELSE f[j - 1] + h[j].size]
        OBVIOUS
    <2>2. Ends(f, h, 0)
        BY <2>1 DEF Ends
    <2> QED
        BY <2>2
<1>3. m - 1 \in Nat /\ m - 1 \notin T
    BY <1>1, <1>2
<1>4. PICK f : Ends(f, h, m - 1)
    BY <1>3
<1> DEFINE g == [j \in 0..m |-> IF j = m THEN f[m - 1] + h[m].size ELSE f[j]]
<1>5. \A j \in 0..m - 1 : f[j] = IF j = 0 THEN 0 ELSE f[j - 1] + h[j].size
    BY <1>3, <1>4 DEF Ends
<1>6. \A j \in 0..m : g[j] = IF j = 0 THEN 0 ELSE g[j - 1] + h[j].size
    <2> SUFFICES ASSUME NEW j \in 0..m PROVE g[j] = IF j = 0 THEN 0 ELSE g[j - 1] + h[j].size
        OBVIOUS
    <2>1. m \in Nat /\ m # 0
        BY <1>1, <1>2
    <2>2. \A i \in 0..m - 1 : g[i] = f[i]
        BY <2>1
    <2>3. g[m] = f[m - 1] + h[m].size
        BY <2>1
    <2> HIDE DEF g
    <2>4. CASE j = m
        BY <2>1, <2>2, <2>3, <2>4
    <2>5. CASE j # m
        BY <1>5, <2>1, <2>2, <2>5
    <2> QED
        BY <2>4, <2>5
<1>7. g = [j \in 0..m |-> g[j]]
    OBVIOUS
<1> HIDE DEF g
<1>8. Ends(g, h, m)
    BY <1>6, <1>7 DEF Ends
<1> QED
    BY <1>1, <1>8

Fields == [size : Nat, kind : {"ok", "bad", "nested"}]

\* A field ends at a number.
LEMMA FieldEndNat ==
    ASSUME NEW h \in Seq(Fields), NEW i \in DOMAIN h
    PROVE  FieldEnd(h, i) \in Nat
<1> DEFINE n == Len(h)
           f == CHOOSE f : Ends(f, h, n)
<1>1. n \in Nat /\ i \in 0..n /\ \A j \in 1..n : h[j].size \in Nat
    <2>1. Len(h) \in Nat /\ DOMAIN h = 1..Len(h) /\ \A j \in 1..Len(h) : h[j] \in Fields
        OBVIOUS
    <2>2. \A x \in Fields : x.size \in Nat
        BY DEF Fields
    <2> QED
        BY <2>1, <2>2
<1>2. Ends(f, h, n)
    <2>1. \E g : Ends(g, h, n)
        BY <1>1, EndsExist
    <2> QED
        BY <2>1, Zenon
<1>3. FieldEnd(h, i) = f[i]
    BY Zenon DEF FieldEnd, Ends
<1> HIDE DEF f
<1>4. f[0] = 0 /\ \A j \in 1..n : f[j] = f[j - 1] + h[j].size
    BY <1>1, <1>2 DEF Ends
<1> DEFINE T == {j \in 0..n : f[j] \notin Nat}
<1>5. T = {}
    <2> SUFFICES ASSUME T # {} PROVE FALSE
        OBVIOUS
    <2>1. PICK m \in T : \A k \in T : m <= k
        <3> HIDE DEF T
        <3>1. T \in SUBSET Nat
            BY <1>1 DEF T
        <3> QED
            BY <3>1, NatMin
    <2>2. m \in 1..n /\ m - 1 \in 0..n /\ m - 1 \notin T
        BY <1>1, <1>4, <2>1
    <2>3. f[m - 1] \in Nat
        BY <2>2
    <2>4. f[m] = f[m - 1] + h[m].size /\ h[m].size \in Nat
        <3> HIDE DEF T
        <3> QED
            BY <1>1, <1>4, <2>2
    <2>5. f[m] \in Nat
        BY <2>3, <2>4
    <2> QED
        BY <2>1, <2>5
<1> QED
    BY <1>1, <1>3, <1>5

\* A longer prefix decides as a shorter one did, unless that was cut.
LEMMA ParseLonger ==
    ASSUME NEW h \in Seq(Fields), NEW n \in Nat, NEW m \in Nat, n <= m, Parse(h, n) # "truncated"
    PROVE  Parse(h, m) = Parse(h, n)
<1> DEFINE Wrong(k) == {i \in DOMAIN h : FieldEnd(h, i) > k \/ h[i].kind # "ok"}
           P(k) == IF Wrong(k) = {} THEN "ok"
                   ELSE IF FieldEnd(h, Min(Wrong(k))) <= k /\ h[Min(Wrong(k))].kind = "bad" THEN "corrupt"
                   ELSE "truncated"
<1>1. \A k : Parse(h, k) = P(k)
    BY Zenon DEF Parse
<1>2. \A i \in DOMAIN h : FieldEnd(h, i) \in Nat
    BY FieldEndNat
<1>3. Wrong(m) \subseteq Wrong(n)
    BY <1>2
<1>4. DOMAIN h \in SUBSET Nat
    OBVIOUS
<1>5. CASE Wrong(n) = {}
    <2>1. Wrong(m) = {}
        BY <1>3, <1>5
    <2> QED
        BY <1>1, <1>5, <2>1, Zenon
<1>6. CASE Wrong(n) # {}
    <2> DEFINE i == Min(Wrong(n))
    <2>1. P(n) # "truncated"
        BY <1>1, Zenon
    <2>2. FieldEnd(h, i) <= n /\ h[i].kind = "bad"
        BY <1>6, <2>1
    <2>3. i \in Wrong(n) /\ \A j \in Wrong(n) : i <= j
        <3>1. Wrong(n) \in SUBSET Nat
            BY <1>4
        <3> HIDE DEF Wrong
        <3>2. PICK j \in Wrong(n) : \A k \in Wrong(n) : j <= k
            BY <1>6, <3>1, NatMin
        <3>3. i = j
            BY <3>1, <3>2, MinIs
        <3> QED
            BY <3>2, <3>3
    <2> HIDE DEF i
    <2>4. i \in DOMAIN h /\ FieldEnd(h, i) \in Nat
        BY <1>2, <2>3
    <2>5. i \in Wrong(m) /\ FieldEnd(h, i) <= m
        BY <2>2, <2>4
    <2>6. Min(Wrong(m)) = i
        <3>1. Wrong(m) \in SUBSET Nat /\ \A j \in Wrong(m) : i <= j
            BY <1>3, <1>4, <2>3
        <3> HIDE DEF Wrong
        <3> QED
            BY <2>5, <3>1, MinIs
    <2>7. P(m) = "corrupt" /\ P(n) = "corrupt"
        <3>1. Wrong(m) # {} /\ Wrong(n) # {}
            BY <1>6, <2>5
        <3> HIDE DEF Wrong
        <3> QED
            BY <2>2, <2>5, <2>6, <3>1 DEF i
    <2> QED
        BY <1>1, <2>7, Zenon
<1> QED
    BY <1>5, <1>6

\* What Doubled passes through: the doublings up to n.
Doublings(f, n) == f = [k \in 0..n |-> IF k = 0 THEN 1 ELSE 2 * f[k - 1]]

\* There are such doublings.
LEMMA DoublingsExist ==
    ASSUME NEW n \in Nat
    PROVE  \E f : Doublings(f, n)
<1> DEFINE T == {m \in Nat : ~\E f : Doublings(f, m)}
<1> SUFFICES ASSUME T # {} PROVE FALSE
    OBVIOUS
<1>1. PICK m \in T : \A k \in T : m <= k
    <2> HIDE DEF T
    <2>1. T \in SUBSET Nat
        BY DEF T
    <2> QED
        BY <2>1, NatMin
<1>2. m # 0
    <2> DEFINE f == [j \in 0..0 |-> 1]
    <2>1. f = [j \in 0..0 |-> IF j = 0 THEN 1 ELSE 2 * f[j - 1]]
        OBVIOUS
    <2>2. Doublings(f, 0)
        BY <2>1 DEF Doublings
    <2> QED
        BY <2>2
<1>3. m - 1 \in Nat /\ m - 1 \notin T
    BY <1>1, <1>2
<1>4. PICK f : Doublings(f, m - 1)
    BY <1>3
<1> DEFINE g == [j \in 0..m |-> IF j = m THEN 2 * f[m - 1] ELSE f[j]]
<1>5. \A j \in 0..m - 1 : f[j] = IF j = 0 THEN 1 ELSE 2 * f[j - 1]
    BY <1>3, <1>4 DEF Doublings
<1>6. \A j \in 0..m : g[j] = IF j = 0 THEN 1 ELSE 2 * g[j - 1]
    <2> SUFFICES ASSUME NEW j \in 0..m PROVE g[j] = IF j = 0 THEN 1 ELSE 2 * g[j - 1]
        OBVIOUS
    <2>1. m \in Nat /\ m # 0
        BY <1>1, <1>2
    <2>2. \A i \in 0..m - 1 : g[i] = f[i]
        BY <2>1
    <2>3. g[m] = 2 * f[m - 1]
        BY <2>1
    <2> HIDE DEF g
    <2>4. CASE j = m
        BY <2>1, <2>2, <2>3, <2>4
    <2>5. CASE j # m
        BY <1>5, <2>1, <2>2, <2>5
    <2> QED
        BY <2>4, <2>5
<1>7. g = [j \in 0..m |-> g[j]]
    OBVIOUS
<1> HIDE DEF g
<1>8. Doublings(g, m)
    BY <1>6, <1>7 DEF Doublings
<1> QED
    BY <1>1, <1>8

\* The prefixes start at one unit, double, and outgrow the number of doublings.
LEMMA DoubledGrows ==
    /\ Doubled[0] = 1
    /\ \A k \in 1..MaxHeader : Doubled[k] = 2 * Doubled[k - 1]
    /\ \A k \in 0..MaxHeader : Doubled[k] \in Nat /\ Doubled[k] >= k + 1
<1>0. MaxHeader \in Nat
    BY HeaderAssumption
<1>1. Doubled = CHOOSE f : Doublings(f, MaxHeader)
    BY Zenon DEF Doubled, Doublings
<1>2. Doublings(Doubled, MaxHeader)
    <2>1. \E f : Doublings(f, MaxHeader)
        BY <1>0, DoublingsExist
    <2> QED
        BY <1>1, <2>1, Zenon
<1>3. Doubled[0] = 1 /\ \A k \in 1..MaxHeader : Doubled[k] = 2 * Doubled[k - 1]
    BY <1>0, <1>2 DEF Doublings
<1> DEFINE T == {k \in 0..MaxHeader : ~(Doubled[k] \in Nat /\ Doubled[k] >= k + 1)}
<1>4. T = {}
    <2> SUFFICES ASSUME T # {} PROVE FALSE
        OBVIOUS
    <2>1. PICK m \in T : \A k \in T : m <= k
        <3> HIDE DEF T
        <3>1. T \in SUBSET Nat
            BY <1>0 DEF T
        <3> QED
            BY <3>1, NatMin
    <2>2. m \in 1..MaxHeader /\ m - 1 \in 0..MaxHeader /\ m - 1 \notin T
        BY <1>0, <1>3, <2>1
    <2>3. Doubled[m - 1] \in Nat /\ Doubled[m - 1] >= m
        BY <2>2
    <2>4. Doubled[m] = 2 * Doubled[m - 1]
        <3> HIDE DEF T
        <3> QED
            BY <1>3, <2>2
    <2>5. Doubled[m] \in Nat /\ Doubled[m] >= m + 1
        BY <2>2, <2>3, <2>4
    <2> QED
        BY <2>1, <2>5
<1> QED
    BY <1>3, <1>4

Wants(t) == {Min({Doubled[k], t}) : k \in 0..MaxHeader}
Stops(h, t) == {w \in Wants(t) : w >= t \/ Parse(h, w) # "truncated"}

\* Any prefix that is long enough to decide gives what the local reader gives,
\* which stops at the first one.
LEMMA LocalAgrees ==
    ASSUME NEW h \in Seq(Fields), NEW t \in Nat, NEW n \in Stops(h, t), n <= MaxHeader
    PROVE  ReadLocal(h, t) = IF Parse(h, n) = "ok" THEN "ok" ELSE "corrupt"
<1> DEFINE m == Min(Stops(h, t))
<1>0. MaxHeader \in Nat
    BY HeaderAssumption
<1>1. \A w \in Wants(t) : w \in Nat /\ w <= t
    <2> SUFFICES ASSUME NEW k \in 0..MaxHeader
                 PROVE  Min({Doubled[k], t}) \in Nat /\ Min({Doubled[k], t}) <= t
        BY DEF Wants
    <2>1. Doubled[k] \in Nat
        BY DoubledGrows
    <2>2. Min({Doubled[k], t}) = IF Doubled[k] <= t THEN Doubled[k] ELSE t
        BY <2>1, MinOfTwo
    <2> QED
        BY <2>1, <2>2
<1>2. Stops(h, t) \in SUBSET Nat
    BY <1>1 DEF Stops
<1>3. m \in Stops(h, t) /\ \A w \in Stops(h, t) : m <= w
    <2>1. PICK j \in Stops(h, t) : \A w \in Stops(h, t) : j <= w
        BY <1>2, NatMin
    <2>2. m = j
        BY <1>2, <2>1, MinIs
    <2> QED
        BY <2>1, <2>2
<1>4. ReadLocal(h, t) = IF m > MaxHeader THEN "incomplete"
                        ELSE IF Parse(h, m) = "ok" THEN "ok" ELSE "corrupt"
    BY Zenon DEF ReadLocal, Wants, Stops
<1> HIDE DEF m
<1>5. m \in Nat /\ n \in Nat /\ m <= n /\ n <= t /\ m <= t
    BY <1>1, <1>2, <1>3 DEF Stops
<1>6. Parse(h, m) = Parse(h, n)
    <2>1. CASE m >= t
        BY <1>5, <2>1
    <2>2. CASE Parse(h, m) # "truncated"
        BY <1>5, <2>2, ParseLonger
    <2> QED
        BY <1>3, <2>1, <2>2 DEF Stops
<1>7. ~(m > MaxHeader)
    BY <1>0, <1>5
<1> QED
    BY <1>4, <1>6, <1>7, Zenon

-----------------------------------------------------------------------------
(* The header fetches.                                                     *)

\* A fetch that was begun.
Begun(j) ==
    /\ j = [at |-> j.at, buf |-> j.buf, want |-> j.want, said |-> j.said, probed |-> j.probed,
            crossed |-> j.crossed]
    /\ j.crossed \in BOOLEAN

FetchTypes ==
    /\ hub \in Revs
    /\ DOMAIN fetching = Fetchers
    /\ \A p \in Fetchers : fetching[p] = [at |-> "idle"] \/ Begun(fetching[p])

\* What the loop of requests has: nothing yet, or a prefix of the revision that
\* the hub serves, as long as the doublings say.
Growing(j) ==
    \/ j.buf = <<>> /\ j.want = 1
    \/ /\ server.ranges
       /\ \E k \in 0..MaxHeader : j.buf = [i \in 1..Doubled[k] |-> hub] /\ j.want = 2 * Doubled[k]

\* Bytes that are the header of r.
Whole(buf, r) == Exact(buf, r) /\ buf \in Seq(Revs)

\* What a fetch has got from the hub, whatever the others and the cache do.
OwnSound(j) ==
    /\ j.at \in {"cache", "described", "probe"} => j.want = 1
    /\ j.at = "range" /\ ~j.crossed => Growing(j)
    /\ j.at \in Writing => \E r \in Revs : j.said = Said(r)
    /\ j.at \in Writing /\ ~j.crossed => \E r \in Revs : Whole(j.buf, r) /\ j.said = Said(r)
    /\ j.at = "fresh" /\ ~j.crossed => \E r \in Revs : Exact(j.buf, r)
    /\ j.at = "corrupt" /\ ~j.crossed => \E r \in Revs : ReadLocal(Header[r], Total[r]) = "corrupt"

\* The bytes are cut and the description is not yet that of the new ones.
Halfway == {"fill", "writemeta", "fillmeta"}

Undisturbed == happened \subseteq {"broken"}

\* The description that the cache has would be rejected by a probe.
Misfit == meta \in {NoFile, Torn} \/ meta # Said(hub)

\* The two files belong together, or their description is rejected.
CacheSound ==
    \/ hdr = NoFile /\ meta = NoFile
    \/ \E r \in Revs : Whole(hdr, r) /\ meta = Said(r)
    \/ Misfit /\ ("broken" \in happened \/ \E p \in Fetchers : fetching[p].at \in Halfway)

\* What a fetch has of the cache, or is doing to it, when nobody interferes.
HeldSound(j) ==
    /\ j.at = "described" => j.buf = hdr /\ hdr # NoFile
    /\ j.at = "probe" => j.buf = hdr /\ hdr # NoFile /\ j.said = meta /\ meta \notin {NoFile, Torn}
    /\ j.at \in {"range"} \cup Writing => Misfit
    /\ j.at \in {"writemeta", "fillmeta"} => hdr = j.buf /\ ~j.crossed
    /\ j.at = "cached" => \E r \in Revs : Exact(j.buf, r)
    /\ j.at = "cached" /\ server.etags => Pure(j.buf, j.probed)

\* Nobody overlapped.
Alone ==
    /\ \A p, q \in Busy : p = q
    /\ \A p \in Fetchers : fetching[p].at = "described" => hdr # NoFile

\* Bytes without their description are being given one.
Readable ==
    /\ hdr # NoFile /\ meta \in {NoFile, Torn} => \E p \in Fetchers : fetching[p].at \in Halfway
    /\ \A p \in Fetchers : fetching[p].at # "unreadable"

Unbroken == "overlap" \notin happened /\ "broken" \notin happened

FetchInv ==
    /\ FetchTypes
    /\ \A p \in Fetchers : OwnSound(fetching[p])
    /\ "overlap" \notin happened => Alone
    /\ Unbroken => Readable
    /\ Undisturbed => CacheSound /\ \A p \in Fetchers : HeldSound(fetching[p])

\* Events stay.
LEMMA EventsStay ==
    ASSUME happened \subseteq happened'
    PROVE  /\ "overlap" \notin happened' => "overlap" \notin happened
           /\ Unbroken' => Unbroken
           /\ Undisturbed' => Undisturbed
           /\ Undisturbed => "overlap" \notin happened
BY DEF Unbroken, Undisturbed

\* What happens is added.
LEMMA HappensAdds ==
    ASSUME NEW cond \in BOOLEAN, NEW e, Happens(cond, e)
    PROVE  /\ happened \subseteq happened'
           /\ cond => e \in happened'
           /\ ~cond => happened' = happened
BY DEF Happens

\* A fetch that is alone has nobody else under way.
LEMMA OthersRest ==
    ASSUME Alone, NEW p \in Busy, NEW q \in Fetchers, q # p
    PROVE  fetching[q].at \in AtRest
BY DEF Alone, Busy

\* A step of one fetch that is under way.
LEMMA FetchMoves ==
    ASSUME FetchInv, NEW p \in Fetchers, p \in Busy,
           DOMAIN fetching' = Fetchers,
           \A q \in Fetchers \ {p} : fetching'[q] = fetching[q],
           fetching'[p] = [at |-> "idle"] \/ Begun(fetching'[p]),
           UNCHANGED <<hub, server>>, happened \subseteq happened',
           OwnSound(fetching[p])',
           "overlap" \notin happened => (fetching'[p].at = "described" => hdr' # NoFile),
           Unbroken' => (hdr' # NoFile /\ meta' \in {NoFile, Torn} => fetching'[p].at \in Halfway),
           Unbroken' => fetching'[p].at # "unreadable",
           Undisturbed' => CacheSound' /\ HeldSound(fetching[p])'
    PROVE  FetchInv'
<1>0. /\ "overlap" \notin happened' => "overlap" \notin happened
      /\ Unbroken' => Unbroken
      /\ Undisturbed' => Undisturbed
      /\ Undisturbed => "overlap" \notin happened
    BY EventsStay
<1>1. FetchTypes'
    BY DEF FetchInv, FetchTypes
<1>2. ASSUME NEW q \in Fetchers PROVE OwnSound(fetching[q])'
    <2>1. CASE q = p
        BY <2>1
    <2>2. CASE q # p
        <3>1. OwnSound(fetching[q]) /\ fetching'[q] = fetching[q]
            BY <2>2 DEF FetchInv
        <3> QED
            BY <3>1 DEF OwnSound, Growing, Whole, Exact, Pure, Said, Tag
    <2> QED
        BY <2>1, <2>2
<1>3. ASSUME "overlap" \notin happened, NEW q \in Fetchers, q # p
      PROVE  fetching[q].at \in AtRest /\ fetching'[q] = fetching[q]
    BY <1>3, OthersRest DEF FetchInv
<1>4. ASSUME "overlap" \notin happened' PROVE Alone'
    <2>1. \A q \in Fetchers \ {p} : fetching'[q].at \in AtRest
        BY <1>0, <1>3, <1>4
    <2>2. \A q, r \in Busy' : q = r
        BY <2>1 DEF Busy
    <2>3. \A q \in Fetchers : fetching'[q].at = "described" => hdr' # NoFile
        BY <1>0, <1>4, <2>1 DEF AtRest
    <2> QED
        BY <2>2, <2>3 DEF Alone
<1>5. ASSUME Unbroken' PROVE Readable'
    <2>1. \A q \in Fetchers : fetching'[q].at # "unreadable"
        BY <1>0, <1>5 DEF FetchInv, Readable
    <2> QED
        BY <1>5, <2>1 DEF Readable
<1>6. ASSUME Undisturbed', NEW q \in Fetchers PROVE HeldSound(fetching[q])'
    <2>1. CASE q = p
        BY <1>6, <2>1
    <2>2. CASE q # p
        <3>1. fetching[q].at \in AtRest /\ HeldSound(fetching[q]) /\ fetching'[q] = fetching[q]
            BY <1>0, <1>3, <1>6, <2>2 DEF FetchInv
        <3> QED
            BY <3>1 DEF HeldSound, AtRest, Writing, Exact, Pure
    <2> QED
        BY <2>1, <2>2
<1> QED
    BY <1>1, <1>2, <1>4, <1>5, <1>6 DEF FetchInv

\* A job that goes to another place.
LEMMA EndMoves ==
    ASSUME FetchTypes, NEW p \in Fetchers, NEW l, fetching[p].at # "idle", End(p, l)
    PROVE  /\ DOMAIN fetching' = Fetchers
           /\ \A q \in Fetchers \ {p} : fetching'[q] = fetching[q]
           /\ Begun(fetching'[p]) /\ fetching'[p].at = l
           /\ fetching'[p].buf = fetching[p].buf /\ fetching'[p].want = fetching[p].want
           /\ fetching'[p].said = fetching[p].said /\ fetching'[p].probed = fetching[p].probed
           /\ fetching'[p].crossed = fetching[p].crossed
<1> DEFINE j == fetching[p]
<1>1. Begun(j)
    BY DEF FetchTypes
<1>2. /\ fetching'[p] = [j EXCEPT !.at = l] /\ DOMAIN fetching' = Fetchers
      /\ \A q \in Fetchers \ {p} : fetching'[q] = fetching[q]
    BY DEF End, FetchTypes
<1> HIDE DEF j
<1>3. [j EXCEPT !.at = l] = [at |-> l, buf |-> j.buf, want |-> j.want, said |-> j.said,
                             probed |-> j.probed, crossed |-> j.crossed]
    BY <1>1 DEF Begun
<1> QED
    BY <1>1, <1>2, <1>3 DEF Begun, j

\* One revision's units parse as its header does.
LEMMA ParsesOne ==
    ASSUME hub \in Revs, NEW n \in Nat \ {0}
    PROVE  LET buf == [i \in 1..n |-> hub]
           IN  Len(buf) = n /\ Pure(buf, hub) /\ Parses(buf) = {Parse(Header[hub], n)}
<1> DEFINE buf == [i \in 1..n |-> hub]
<1>1. Len(buf) = n /\ DOMAIN buf = 1..n /\ buf[1] = hub /\ 1 \in DOMAIN buf
    OBVIOUS
<1>2. Pure(buf, hub)
    BY DEF Pure
<1>3. \A r \in Revs : Pure(buf, r) => r = hub
    BY <1>1 DEF Pure
<1> HIDE DEF buf
<1>4. (CHOOSE r \in Revs : Pure(buf, r)) = hub
    BY <1>2, <1>3
<1>5. Parses(buf) = {Parse(Header[hub], n)}
    BY <1>1, <1>2, <1>4 DEF Parses
<1> QED
    BY <1>1, <1>2, <1>5 DEF buf

\* The lengths of the revisions.
LEMMA HeaderParts ==
    ASSUME NEW r \in Revs
    PROVE  Header[r] \in Seq(Fields) /\ Total[r] \in Nat /\ Total[r] # 0 /\ MaxHeader \in Nat
BY HeaderAssumption DEF Fields

\* The length that is asked for next.
NextWant(j) == IF Len(j.buf) >= j.want THEN 2 * j.want ELSE j.want

\* It brings n units, a number that the local reader tries as well.
Brings(buf, want, n) ==
    /\ Received(buf, want) = [i \in 1..n |-> hub]
    /\ n \in Wants(Total[hub]) /\ n <= MaxHeader
    /\ n < Total[hub] => server.ranges /\ \E k \in 0..MaxHeader : n = Doubled[k] /\ want = Doubled[k]

\* A request continues the prefix, or brings the whole file.
LEMMA ReceivedTried ==
    ASSUME NEW j, NEW want, want = NextWant(j), hub \in Revs, Growing(j), want <= MaxHeader,
           server.ranges => Len(j.buf) < Total[hub],
           ~server.ranges => Total[hub] <= MaxHeader
    PROVE  \E n \in Nat \ {0} : Brings(j.buf, want, n)
<1> DEFINE t == Total[hub]
<1>0. t \in Nat \ {0} /\ MaxHeader \in Nat
    BY HeaderParts
<1>1. CASE ~server.ranges
    <2>1. Received(j.buf, want) = [i \in 1..t |-> hub]
        BY <1>1 DEF Received
    <2>2. Doubled[MaxHeader] \in Nat /\ Doubled[MaxHeader] >= MaxHeader + 1
        BY <1>0, DoubledGrows
    <2>3. Min({Doubled[MaxHeader], t}) = t
        BY <1>0, <1>1, <2>2, MinOfTwo
    <2>4. t \in Wants(t)
        <3>1. MaxHeader \in 0..MaxHeader
            BY <1>0
        <3> HIDE DEF t
        <3> QED
            BY <2>3, <3>1 DEF Wants
    <2>5. t <= MaxHeader /\ ~(t < t)
        BY <1>0, <1>1
    <2> QED
        BY <1>0, <2>1, <2>4, <2>5, Zenon DEF Brings
<1>2. CASE server.ranges
    <2> DEFINE from == Len(j.buf)
               n == Min({want, t})
    <2>1. PICK k \in 0..MaxHeader :
             /\ want = Doubled[k] /\ from \in Nat /\ from < want
             /\ j.buf = [i \in 1..from |-> hub]
        <3>1. CASE j.buf = <<>> /\ j.want = 1
            <4>1. from = 0
                BY <3>1
            <4>2. <<>> = [i \in 1..0 |-> hub]
                OBVIOUS
            <4>3. want = 1
                BY <3>1, <4>1 DEF NextWant
            <4> QED
                BY <1>0, <3>1, <4>1, <4>2, <4>3, DoubledGrows
        <3>2. ASSUME NEW l \in 0..MaxHeader, j.buf = [i \in 1..Doubled[l] |-> hub], j.want = 2 * Doubled[l]
              PROVE  /\ l + 1 \in 0..MaxHeader /\ want = Doubled[l + 1] /\ from \in Nat /\ from < want
                     /\ j.buf = [i \in 1..from |-> hub]
            <4>1. Doubled[l] \in Nat /\ Doubled[l] >= l + 1
                BY DoubledGrows
            <4>2. from = Doubled[l]
                BY <3>2, <4>1
            <4>3. want = 2 * Doubled[l]
                BY <3>2, <4>1, <4>2 DEF NextWant
            <4>4. l + 1 \in 1..MaxHeader
                BY <1>0, <4>1, <4>3
            <4>5. Doubled[l + 1] = 2 * Doubled[l]
                BY <4>4, DoubledGrows
            <4> QED
                BY <1>0, <3>2, <4>1, <4>2, <4>3, <4>4, <4>5
        <3> QED
            BY <3>1, <3>2 DEF Growing
    <2>2. want \in Nat /\ n = IF want <= t THEN want ELSE t
        <3>1. want \in Nat
            BY <2>1, DoubledGrows
        <3> QED
            BY <1>0, <3>1, MinOfTwo
    <2>3. n \in Nat \ {0} /\ from < n /\ n <= MaxHeader /\ (n < t => n = want)
        BY <1>0, <1>2, <2>1, <2>2
    <2>4. n \in Wants(t)
        BY <2>1 DEF Wants
    <2>5. Received(j.buf, want) = j.buf \o [i \in 1..(n - from) |-> hub]
        BY <1>2 DEF Received
    <2> HIDE DEF n, from
    <2>6. [i \in 1..from |-> hub] \o [i \in 1..(n - from) |-> hub] = [i \in 1..n |-> hub]
        BY <2>1, <2>3
    <2>7. Received(j.buf, want) = [i \in 1..n |-> hub]
        BY <2>1, <2>5, <2>6
    <2> QED
        BY <1>2, <2>1, <2>3, <2>4, <2>7 DEF Brings
<1> QED
    BY <1>1, <1>2

\* A turn of the loop that got an answer.
LEMMA AnswerSound ==
    ASSUME hub \in Revs, NEW n \in Nat \ {0}, n \in Wants(Total[hub]), n <= MaxHeader
    PROVE  LET parsed == Parse(Header[hub], n)
               buf == [i \in 1..n |-> hub]
           IN  /\ parsed = "ok" => Exact(buf, hub)
               /\ parsed # "ok" /\ ~(parsed = "truncated" /\ n < Total[hub]) =>
                     ReadLocal(Header[hub], Total[hub]) = "corrupt"
<1> DEFINE h == Header[hub]
           t == Total[hub]
           parsed == Parse(h, n)
           buf == [i \in 1..n |-> hub]
<1>1. h \in Seq(Fields) /\ t \in Nat
    BY HeaderParts
<1>2. Len(buf) = n /\ Pure(buf, hub)
    BY ParsesOne
<1>3. ASSUME n \in Stops(h, t)
      PROVE  ReadLocal(h, t) = IF parsed = "ok" THEN "ok" ELSE "corrupt"
    <2> HIDE DEF h, t
    <2> QED
        BY <1>1, <1>3, LocalAgrees
<1>4. n \in Stops(h, t) \/ (parsed = "truncated" /\ n < t)
    BY <1>1 DEF Stops
<1> HIDE DEF parsed, buf
<1>5. parsed = "ok" => Exact(buf, hub)
    BY <1>2, <1>3, <1>4 DEF Exact, parsed
<1>6. parsed # "ok" /\ ~(parsed = "truncated" /\ n < t) => ReadLocal(h, t) = "corrupt"
    BY <1>3, <1>4
<1> QED
    BY <1>5, <1>6 DEF parsed, buf

\* The cache is left alone by a fetch that is not half way through it.
LEMMA CacheKept ==
    ASSUME CacheSound, NEW p \in Fetchers, fetching[p].at \notin Halfway,
           \A q \in Fetchers \ {p} : fetching'[q] = fetching[q],
           UNCHANGED <<hub, server, hdr, meta>>, happened \subseteq happened'
    PROVE  CacheSound'
<1>1. CASE hdr = NoFile /\ meta = NoFile
    BY <1>1 DEF CacheSound
<1>2. CASE \E r \in Revs : Whole(hdr, r) /\ meta = Said(r)
    <2>1. PICK r \in Revs : Whole(hdr, r) /\ meta = Said(r)
        BY <1>2
    <2>2. Whole(hdr, r)' /\ meta' = Said(r)'
        BY <2>1 DEF Whole, Exact, Pure, Said, Tag
    <2> QED
        BY <2>2 DEF CacheSound
<1>3. CASE Misfit /\ ("broken" \in happened \/ \E q \in Fetchers : fetching[q].at \in Halfway)
    <2>1. Misfit'
        BY <1>3 DEF Misfit, Said, Tag
    <2>2. "broken" \in happened' \/ \E q \in Fetchers : fetching'[q].at \in Halfway
        BY <1>3
    <2> QED
        BY <2>1, <2>2 DEF CacheSound
<1> QED
    BY <1>1, <1>2, <1>3 DEF CacheSound

\* A cache that is not being written is readable.
LEMMA NothingHalfway ==
    ASSUME FetchInv, NEW p \in Fetchers, p \in Busy, fetching[p].at \notin Halfway, Unbroken
    PROVE  ~(hdr # NoFile /\ meta \in {NoFile, Torn})
<1>1. Alone /\ Readable
    BY DEF FetchInv, Unbroken
<1>2. \A q \in Fetchers : fetching[q].at \notin Halfway
    BY <1>1, OthersRest DEF AtRest, Halfway
<1> QED
    BY <1>1, <1>2 DEF Readable

\* What is said of a revision is neither missing nor torn, and names it if the
\* server tags what it sends.
LEMMA SaidOf ==
    ASSUME NEW r \in Revs
    PROVE  /\ Said(r) \notin {NoFile, Torn}
           /\ server.etags => \A q \in Revs : Said(q) = Said(r) => q = r
<1>1. Tag(r) \in Revs \cup {Unknown}
    BY DEF Tag
<1>2. Said(r) \notin {NoFile, Torn}
    BY <1>1, HeaderAssumption DEF Said
<1>3. \A q \in Revs : Said(q) = Said(r) => Tag(q) = Tag(r)
    BY DEF Said
<1> QED
    BY <1>2, <1>3 DEF Tag

\* A fetch that gives up before it writes.
LEMMA GivesUp ==
    ASSUME FetchInv, NEW p \in Fetchers, fetching[p].at \in {"cache", "described", "probe", "range"},
           NEW l \in {"failed", "incomplete"}, End(p, l),
           UNCHANGED <<hub, server, hdr, meta, happened>>
    PROVE  FetchInv'
<1>0. p \in Busy /\ FetchTypes /\ fetching[p].at \notin Halfway /\ happened \subseteq happened'
    BY DEF FetchInv, Busy, AtRest, Halfway
<1>1. /\ DOMAIN fetching' = Fetchers
      /\ \A q \in Fetchers \ {p} : fetching'[q] = fetching[q]
      /\ Begun(fetching'[p]) /\ fetching'[p].at = l
    BY <1>0, EndMoves
<1>2. OwnSound(fetching[p])'
    BY <1>1 DEF OwnSound, Writing
<1>3. HeldSound(fetching[p])'
    BY <1>1 DEF HeldSound, Writing
<1>4. Undisturbed' => CacheSound'
    BY <1>0, <1>1, CacheKept, EventsStay DEF FetchInv
<1>5. Unbroken' => ~(hdr' # NoFile /\ meta' \in {NoFile, Torn})
    BY <1>0, NothingHalfway, EventsStay
<1> QED
    BY <1>0, <1>1, <1>2, <1>3, <1>4, <1>5, FetchMoves

\* read_cache: the bytes.
LEMMA ReadCacheKeeps ==
    ASSUME FetchInv, NEW p \in Fetchers, ReadCache(p)
    PROVE  FetchInv'
<1> DEFINE j == fetching[p]
           at == IF hdr = NoFile THEN "range" ELSE "described"
           buf == IF hdr = NoFile THEN <<>> ELSE hdr
<1>0. /\ FetchTypes /\ UNCHANGED <<hub, server, hdr, meta, happened>> /\ j.at = "cache"
      /\ p \in Busy /\ fetching[p].at \notin Halfway /\ happened \subseteq happened'
    BY DEF FetchInv, ReadCache, Busy, AtRest, Halfway
<1>1. CASE End(p, "failed")
    BY <1>0, <1>1, GivesUp
<1>2. CASE fetching' = [fetching EXCEPT ![p].at = at, ![p].buf = buf]
    <2>1. Begun(j) /\ OwnSound(j) /\ j.want = 1
        BY <1>0 DEF FetchInv, FetchTypes, OwnSound
    <2>2. /\ fetching'[p] = [j EXCEPT !.at = at, !.buf = buf]
          /\ DOMAIN fetching' = Fetchers
          /\ \A q \in Fetchers \ {p} : fetching'[q] = fetching[q]
        <3> HIDE DEF at, buf
        <3> QED
            BY <1>0, <1>2 DEF FetchTypes
    <2> HIDE DEF j, at, buf
    <2>3. fetching'[p] = [at |-> at, buf |-> buf, want |-> j.want, said |-> j.said,
                          probed |-> j.probed, crossed |-> j.crossed]
        BY <2>1, <2>2 DEF Begun
    <2>4. Begun(fetching'[p])
        BY <2>1, <2>3 DEF Begun
    <2>5. OwnSound(fetching[p])'
        <3>1. CASE hdr = NoFile
            <4>1. fetching'[p].at = "range" /\ fetching'[p].buf = <<>> /\ fetching'[p].want = 1
                BY <2>1, <2>3, <3>1 DEF at, buf
            <4>2. Growing(fetching[p])'
                BY <4>1 DEF Growing
            <4> QED
                BY <4>1, <4>2 DEF OwnSound, Writing
        <3>2. CASE hdr # NoFile
            <4>1. fetching'[p].at = "described" /\ fetching'[p].want = 1
                BY <2>1, <2>3, <3>2 DEF at
            <4> QED
                BY <4>1 DEF OwnSound, Writing
        <3> QED
            BY <3>1, <3>2
    <2>6. /\ fetching'[p].at = "described" => hdr' # NoFile
          /\ fetching'[p].at # "unreadable"
        BY <1>0, <2>3 DEF at
    <2>7. Unbroken' => ~(hdr' # NoFile /\ meta' \in {NoFile, Torn})
        BY <1>0, NothingHalfway, EventsStay
    <2>8. ASSUME Undisturbed' PROVE CacheSound' /\ HeldSound(fetching[p])'
        <3>1. Undisturbed /\ CacheSound
            BY <1>0, <2>8, EventsStay DEF FetchInv
        <3>2. CacheSound'
            BY <1>0, <2>2, <3>1, CacheKept
        <3>3. CASE hdr = NoFile
            <4>1. fetching'[p].at = "range"
                BY <2>3, <3>3 DEF at
            <4>2. ~\E r \in Revs : Whole(hdr, r) /\ meta = Said(r)
                BY <3>3, HeaderAssumption DEF Whole
            <4>3. Misfit
                BY <3>1, <4>2 DEF CacheSound, Misfit
            <4>4. Misfit'
                BY <1>0, <4>3 DEF Misfit, Said, Tag
            <4> QED
                BY <3>2, <4>1, <4>4 DEF HeldSound, Writing
        <3>4. CASE hdr # NoFile
            <4>1. fetching'[p].at = "described" /\ fetching'[p].buf = hdr' /\ hdr' # NoFile
                BY <1>0, <2>3, <3>4 DEF at, buf
            <4> QED
                BY <3>2, <4>1 DEF HeldSound, Writing
        <3> QED
            BY <3>3, <3>4
    <2> QED
        BY <1>0, <2>2, <2>4, <2>5, <2>6, <2>7, <2>8, FetchMoves
<1> QED
    BY <1>1, <1>2 DEF ReadCache

\* read_cache: the description.
LEMMA ReadMetaKeeps ==
    ASSUME FetchInv, NEW p \in Fetchers, ReadMeta(p)
    PROVE  FetchInv'
<1> DEFINE j == fetching[p]
           at == IF meta \in {NoFile, Torn} THEN "unreadable" ELSE "probe"
<1>0. /\ FetchTypes /\ UNCHANGED <<hub, server, hdr, meta, happened>> /\ j.at = "described"
      /\ p \in Busy /\ fetching[p].at \notin Halfway /\ happened \subseteq happened'
    BY DEF FetchInv, ReadMeta, Busy, AtRest, Halfway
<1>1. CASE End(p, "failed")
    BY <1>0, <1>1, GivesUp
<1>2. CASE fetching' = [fetching EXCEPT ![p].at = at, ![p].said = meta]
    <2>1. Begun(j) /\ OwnSound(j) /\ j.want = 1
        BY <1>0 DEF FetchInv, FetchTypes, OwnSound
    <2>2. /\ fetching'[p] = [j EXCEPT !.at = at, !.said = meta]
          /\ DOMAIN fetching' = Fetchers
          /\ \A q \in Fetchers \ {p} : fetching'[q] = fetching[q]
        <3> HIDE DEF at
        <3> QED
            BY <1>0, <1>2 DEF FetchTypes
    <2> HIDE DEF j, at
    <2>3. fetching'[p] = [at |-> at, buf |-> j.buf, want |-> j.want, said |-> meta,
                          probed |-> j.probed, crossed |-> j.crossed]
        BY <2>1, <2>2 DEF Begun
    <2>4. Begun(fetching'[p])
        BY <2>1, <2>3 DEF Begun
    <2>5. at \in {"unreadable", "probe"} /\ (at = "probe" <=> meta \notin {NoFile, Torn})
        BY DEF at
    <2>6. OwnSound(fetching[p])'
        BY <2>1, <2>3, <2>5 DEF OwnSound, Writing
    <2>7. Unbroken' => ~(hdr' # NoFile /\ meta' \in {NoFile, Torn})
        BY <1>0, NothingHalfway, EventsStay
    <2>8. ASSUME Unbroken' PROVE fetching'[p].at # "unreadable"
        <3>1. hdr # NoFile
            BY <1>0, <2>8, EventsStay DEF FetchInv, Alone, Unbroken, j
        <3> QED
            BY <1>0, <2>3, <2>5, <2>7, <2>8, <3>1
    <2>9. ASSUME Undisturbed' PROVE CacheSound' /\ HeldSound(fetching[p])'
        <3>1. Undisturbed /\ CacheSound /\ HeldSound(j)
            BY <1>0, <2>9, EventsStay DEF FetchInv, j
        <3>2. CacheSound'
            BY <1>0, <2>2, <3>1, CacheKept
        <3>3. j.buf = hdr /\ hdr # NoFile
            BY <1>0, <3>1 DEF HeldSound
        <3>4. HeldSound(fetching[p])'
            BY <1>0, <2>3, <2>5, <3>3 DEF HeldSound, Writing
        <3> QED
            BY <3>2, <3>4
    <2>10. fetching'[p].at # "described"
        BY <2>3, <2>5
    <2> QED
        BY <1>0, <2>2, <2>4, <2>6, <2>7, <2>8, <2>9, <2>10, FetchMoves
<1> QED
    BY <1>1, <1>2 DEF ReadMeta

\* probe.
LEMMA ProbeKeeps ==
    ASSUME FetchInv, NEW p \in Fetchers, Probe(p)
    PROVE  FetchInv'
<1> DEFINE j == fetching[p]
           hit == Said(hub) = j.said
           at == IF hit THEN "cached" ELSE "range"
           buf == IF hit THEN j.buf ELSE <<>>
<1>0. /\ FetchTypes /\ UNCHANGED <<hub, server, hdr, meta, happened>> /\ j.at = "probe" /\ hub \in Revs
      /\ p \in Busy /\ fetching[p].at \notin Halfway /\ happened \subseteq happened'
    BY DEF FetchInv, Probe, FetchTypes, Busy, AtRest, Halfway
<1>1. CASE End(p, "failed")
    BY <1>0, <1>1, GivesUp
<1>2. CASE fetching' = [fetching EXCEPT ![p].probed = hub, ![p].at = at,
                            ![p].buf = IF hit THEN @ ELSE <<>>]
    <2>1. Begun(j) /\ OwnSound(j) /\ j.want = 1
        BY <1>0 DEF FetchInv, FetchTypes, OwnSound
    <2>2. /\ fetching'[p] = [j EXCEPT !.probed = hub, !.at = at, !.buf = buf]
          /\ DOMAIN fetching' = Fetchers
          /\ \A q \in Fetchers \ {p} : fetching'[q] = fetching[q]
        <3> HIDE DEF hit, at
        <3> QED
            BY <1>0, <1>2 DEF FetchTypes
    <2> HIDE DEF j, hit, at, buf
    <2>3. fetching'[p] = [at |-> at, buf |-> buf, want |-> j.want, said |-> j.said,
                          probed |-> hub, crossed |-> j.crossed]
        BY <2>1, <2>2 DEF Begun
    <2>4. Begun(fetching'[p])
        BY <2>1, <2>3 DEF Begun
    <2>5. at \in {"cached", "range"}
        BY DEF at
    <2>6. OwnSound(fetching[p])'
        <3>1. CASE hit
            BY <2>3, <3>1 DEF OwnSound, Writing, at
        <3>2. CASE ~hit
            <4>1. fetching'[p].at = "range" /\ fetching'[p].buf = <<>> /\ fetching'[p].want = 1
                BY <2>1, <2>3, <3>2 DEF at, buf
            <4>2. Growing(fetching[p])'
                BY <4>1 DEF Growing
            <4> QED
                BY <4>1, <4>2 DEF OwnSound, Writing
        <3> QED
            BY <3>1, <3>2
    <2>7. Unbroken' => ~(hdr' # NoFile /\ meta' \in {NoFile, Torn})
        BY <1>0, NothingHalfway, EventsStay
    <2>8. fetching'[p].at \notin {"described", "unreadable"}
        BY <2>3, <2>5
    <2>9. ASSUME Undisturbed' PROVE CacheSound' /\ HeldSound(fetching[p])'
        <3>1. Undisturbed /\ CacheSound /\ HeldSound(j)
            BY <1>0, <2>9, EventsStay DEF FetchInv, j
        <3>2. CacheSound'
            BY <1>0, <2>2, <3>1, CacheKept
        <3>3. j.buf = hdr /\ hdr # NoFile /\ j.said = meta /\ meta \notin {NoFile, Torn}
            BY <1>0, <3>1 DEF HeldSound
        <3>4. CASE hit
            <4>1. ~Misfit
                BY <3>3, <3>4 DEF hit, Misfit
            <4>2. PICK r \in Revs : Whole(hdr, r) /\ meta = Said(r)
                BY <3>1, <3>3, <4>1 DEF CacheSound
            <4>3. server.etags => r = hub
                BY <1>0, <3>3, <3>4, <4>2, SaidOf DEF hit
            <4>4. Exact(j.buf, r) /\ (server.etags => Pure(j.buf, hub))
                BY <3>3, <4>2, <4>3 DEF Whole, Exact
            <4>5. fetching'[p].at = "cached" /\ fetching'[p].buf = j.buf /\ fetching'[p].probed = hub
                BY <2>3, <3>4 DEF at, buf
            <4>6. HeldSound(fetching[p])'
                BY <1>0, <4>4, <4>5 DEF HeldSound, Writing, Exact, Pure
            <4> QED
                BY <3>2, <4>6
        <3>5. CASE ~hit
            <4>1. Misfit
                BY <3>3, <3>5 DEF hit, Misfit
            <4>2. Misfit'
                BY <1>0, <4>1 DEF Misfit, Said, Tag
            <4>3. fetching'[p].at = "range"
                BY <2>3, <3>5 DEF at
            <4> QED
                BY <3>2, <4>2, <4>3 DEF HeldSound, Writing
        <3> QED
            BY <3>4, <3>5
    <2> QED
        BY <1>0, <2>2, <2>4, <2>6, <2>7, <2>8, <2>9, FetchMoves
<1> QED
    BY <1>1, <1>2 DEF Probe

\* fetch_url's loop.
LEMMA GetRangeKeeps ==
    ASSUME FetchInv, NEW p \in Fetchers, GetRange(p)
    PROVE  FetchInv'
<1> DEFINE j == fetching[p]
           want == IF Len(j.buf) >= j.want THEN 2 * j.want ELSE j.want
           buf == Received(j.buf, want)
           at(parsed) == CASE parsed = "ok" -> "write"
                           [] parsed = "truncated" /\ Len(buf) < Total[hub] -> "range"
                           [] OTHER -> "corrupt"
<1>0. /\ FetchTypes /\ UNCHANGED <<hub, server, hdr, meta, happened>> /\ j.at = "range" /\ hub \in Revs
      /\ p \in Busy /\ fetching[p].at \notin Halfway /\ happened \subseteq happened'
    BY DEF FetchInv, GetRange, FetchTypes, Busy, AtRest, Halfway
<1>1. CASE End(p, "incomplete") \/ End(p, "failed")
    BY <1>0, <1>1, GivesUp
<1>2. ASSUME want <= MaxHeader,
             server.ranges => Len(j.buf) < Total[hub],
             ~server.ranges => Total[hub] <= MaxHeader,
             NEW parsed \in Parses(buf),
             fetching' = [fetching EXCEPT ![p].buf = buf, ![p].said = Said(hub),
                             ![p].want = 2 * want, ![p].at = at(parsed)]
      PROVE  FetchInv'
    <2>1. Begun(j) /\ OwnSound(j)
        BY <1>0 DEF FetchInv, FetchTypes
    <2>2. /\ fetching'[p] = [j EXCEPT !.buf = buf, !.said = Said(hub), !.want = 2 * want, !.at = at(parsed)]
          /\ DOMAIN fetching' = Fetchers
          /\ \A q \in Fetchers \ {p} : fetching'[q] = fetching[q]
        <3> HIDE DEF want, buf, at
        <3> QED
            BY <1>0, <1>2 DEF FetchTypes
    <2>3. want = NextWant(j)
        BY DEF NextWant
    <2>4. /\ at(parsed) \in {"write", "range", "corrupt"}
          /\ at(parsed) = "write" => parsed = "ok"
          /\ at(parsed) = "range" => parsed = "truncated" /\ Len(buf) < Total[hub]
          /\ at(parsed) = "corrupt" => parsed # "ok" /\ ~(parsed = "truncated" /\ Len(buf) < Total[hub])
        <3> HIDE DEF buf
        <3> QED
            OBVIOUS
    <2>5. buf = Received(j.buf, want)
        OBVIOUS
    <2> HIDE DEF j, want, buf, at
    <2>6. fetching'[p] = [at |-> at(parsed), buf |-> buf, want |-> 2 * want, said |-> Said(hub),
                          probed |-> j.probed, crossed |-> j.crossed]
        BY <2>1, <2>2 DEF Begun
    <2>7. Begun(fetching'[p])
        BY <2>1, <2>6 DEF Begun
    <2>8. Said(hub)' = Said(hub)
        BY <1>0 DEF Said, Tag
    <2>9. ASSUME ~j.crossed PROVE OwnSound(fetching[p])'
        <3>1. Growing(j)
            BY <1>0, <2>1, <2>9 DEF OwnSound
        <3>2. PICK n \in Nat \ {0} :
                 /\ buf = [i \in 1..n |-> hub]
                 /\ n \in Wants(Total[hub]) /\ n <= MaxHeader
                 /\ n < Total[hub] => server.ranges /\ \E k \in 0..MaxHeader : n = Doubled[k] /\ want = Doubled[k]
            <4>1. \E n \in Nat \ {0} : Brings(j.buf, want, n)
                <5>1. /\ hub \in Revs /\ Growing(j) /\ want <= MaxHeader
                      /\ server.ranges => Len(j.buf) < Total[hub]
                      /\ ~server.ranges => Total[hub] <= MaxHeader
                    BY <1>0, <1>2, <3>1, Zenon
                <5> QED
                    BY <2>3, <5>1, ReceivedTried
            <4> QED
                BY <2>5, <4>1 DEF Brings
        <3>3. Len(buf) = n /\ parsed = Parse(Header[hub], n)
            BY <1>0, <1>2, <3>2, ParsesOne
        <3>4. /\ at(parsed) = "write" => Exact(buf, hub)
              /\ at(parsed) = "corrupt" => ReadLocal(Header[hub], Total[hub]) = "corrupt"
            <4>1. /\ parsed = "ok" => Exact(buf, hub)
                  /\ parsed # "ok" /\ ~(parsed = "truncated" /\ n < Total[hub]) =>
                        ReadLocal(Header[hub], Total[hub]) = "corrupt"
                BY <1>0, <3>2, <3>3, AnswerSound
            <4> QED
                BY <2>4, <3>3, <4>1
        <3>5. CASE at(parsed) = "write"
            <4>1. buf \in Seq(Revs)
                BY <1>0, <3>2
            <4>2. Whole(buf, hub)
                BY <3>4, <3>5, <4>1 DEF Whole
            <4>3. fetching'[p].at = "write" /\ fetching'[p].buf = buf /\ fetching'[p].said = Said(hub)'
                BY <2>6, <2>8, <3>5
            <4>4. Whole(fetching'[p].buf, hub') /\ fetching'[p].said = Said(hub)' /\ hub' \in Revs
                BY <1>0, <4>2, <4>3
            <4> QED
                BY <4>3, <4>4 DEF OwnSound, Writing, Whole, Exact, Pure
        <3>6. CASE at(parsed) = "range"
            <4>1. PICK k \in 0..MaxHeader : server.ranges /\ n = Doubled[k] /\ want = Doubled[k]
                BY <2>4, <3>2, <3>3, <3>6
            <4>2. /\ fetching'[p].buf = [i \in 1..Doubled[k] |-> hub']
                  /\ fetching'[p].want = 2 * Doubled[k] /\ server'.ranges
                BY <1>0, <2>6, <3>2, <4>1
            <4>3. Growing(fetching[p])'
                BY <4>2 DEF Growing
            <4> QED
                BY <2>6, <3>6, <4>3 DEF OwnSound, Writing
        <3>7. CASE at(parsed) = "corrupt"
            BY <1>0, <2>6, <3>4, <3>7 DEF OwnSound, Writing
        <3> QED
            BY <2>4, <3>5, <3>6, <3>7
    <2>10. ASSUME j.crossed PROVE OwnSound(fetching[p])'
        <3>1. fetching'[p].crossed /\ fetching'[p].said = Said(hub)' /\ hub' \in Revs
            BY <1>0, <2>6, <2>8, <2>10
        <3>2. fetching'[p].at \in {"write", "range", "corrupt"}
            BY <2>4, <2>6
        <3> QED
            BY <3>1, <3>2 DEF OwnSound
    <2>11. OwnSound(fetching[p])'
        BY <2>9, <2>10
    <2>12. Unbroken' => ~(hdr' # NoFile /\ meta' \in {NoFile, Torn})
        BY <1>0, NothingHalfway, EventsStay
    <2>13. fetching'[p].at \in {"write", "range", "corrupt"}
        BY <2>4, <2>6
    <2>14. ASSUME Undisturbed' PROVE CacheSound' /\ HeldSound(fetching[p])'
        <3>1. Undisturbed /\ CacheSound /\ HeldSound(j)
            BY <1>0, <2>14, EventsStay DEF FetchInv, j
        <3>2. CacheSound'
            BY <1>0, <2>2, <3>1, CacheKept
        <3>3. Misfit
            BY <1>0, <3>1 DEF HeldSound
        <3>4. Misfit'
            BY <1>0, <3>3 DEF Misfit, Said, Tag
        <3> QED
            BY <2>13, <3>2, <3>4 DEF HeldSound
    <2>15. fetching'[p].at \notin {"described", "unreadable"}
        BY <2>13
    <2> QED
        BY <1>0, <2>2, <2>7, <2>11, <2>12, <2>14, <2>15, FetchMoves
<1> QED
    BY <1>1, <1>2 DEF GetRange

\* write_cache.
LEMMA WriteCacheKeeps ==
    ASSUME FetchInv, NEW p \in Fetchers, WriteCache(p)
    PROVE  FetchInv'
<1> DEFINE j == fetching[p]
<1>0. FetchTypes /\ j.at \in Writing /\ p \in Busy /\ UNCHANGED <<hub, server>> /\ j.at # "idle"
    BY DEF FetchInv, WriteCache, Writing, Busy, AtRest
<1>1. PICK l \in {"fill", "writemeta", "fillmeta", "fresh"} : End(p, l)
    BY DEF WriteCache
<1>2. /\ DOMAIN fetching' = Fetchers
      /\ \A q \in Fetchers \ {p} : fetching'[q] = fetching[q]
      /\ Begun(fetching'[p]) /\ fetching'[p].at = l
      /\ fetching'[p].buf = j.buf /\ fetching'[p].said = j.said /\ fetching'[p].crossed = j.crossed
    BY <1>0, <1>1, EndMoves
<1>3. /\ happened \subseteq happened'
      /\ j.at = "fill" /\ j.crossed => "mixed" \in happened'
    BY DEF WriteCache, Happens
<1>4. \/ j.at = "write" /\ l = "fill" /\ hdr' = <<>> /\ meta' = meta
      \/ j.at = "fill" /\ l = "writemeta" /\ hdr' = j.buf /\ meta' = meta
      \/ j.at = "writemeta" /\ l = "fillmeta" /\ hdr' = hdr /\ meta' = Torn
      \/ j.at = "fillmeta" /\ l = "fresh" /\ hdr' = hdr /\ meta' = j.said
    <2>1. \A m : End(p, m) => fetching'[p].at = m
        BY <1>0, EndMoves
    <2> QED
        BY <1>2, <2>1 DEF WriteCache
<1>5. OwnSound(j)
    BY DEF FetchInv
<1>6. \A r : Said(r)' = Said(r)
    BY <1>0 DEF Said, Tag
<1>7. OwnSound(fetching[p])'
    <2>1. PICK r \in Revs : j.said = Said(r)
        BY <1>0, <1>5 DEF OwnSound
    <2>2. fetching'[p].said = Said(r)'
        BY <1>2, <1>6, <2>1
    <2>3. CASE j.crossed
        BY <1>2, <2>2, <2>3 DEF OwnSound
    <2>4. CASE ~j.crossed
        <3>1. PICK t \in Revs : Whole(j.buf, t) /\ j.said = Said(t)
            BY <1>0, <1>5, <2>4 DEF OwnSound
        <3>2. Whole(fetching'[p].buf, t) /\ fetching'[p].said = Said(t)'
            BY <1>2, <1>6, <3>1
        <3>3. Exact(fetching'[p].buf, t)
            BY <3>2 DEF Whole
        <3> QED
            BY <1>2, <3>2, <3>3 DEF OwnSound, Whole, Exact, Pure
    <2> QED
        BY <2>3, <2>4
<1>8. hdr' # NoFile /\ meta' \in {NoFile, Torn} /\ Unbroken' => l \in Halfway
    <2>1. CASE l = "fresh"
        <3>1. PICK r \in Revs : j.said = Said(r)
            BY <1>0, <1>5 DEF OwnSound
        <3>2. meta' \notin {NoFile, Torn}
            BY <1>4, <2>1, <3>1, SaidOf
        <3> QED
            BY <3>2
    <2>2. CASE l # "fresh"
        BY <1>4, <2>2 DEF Halfway
    <2> QED
        BY <2>1, <2>2
<1>9. ASSUME Undisturbed' PROVE CacheSound' /\ HeldSound(fetching[p])'
    <2>1. HeldSound(j) /\ ~("mixed" \in happened')
        BY <1>3, <1>9, EventsStay DEF FetchInv, Undisturbed
    <2>2. Misfit
        BY <1>0, <2>1 DEF HeldSound
    <2>3. l # "fresh" => Misfit'
        BY <1>0, <1>4, <1>6, <2>2 DEF Misfit
    <2>4. l \in {"writemeta", "fillmeta"} => hdr' = j.buf /\ ~j.crossed
        BY <1>3, <1>4, <2>1 DEF HeldSound
    <2>5. CASE l # "fresh"
        <3>1. l \in Halfway
            BY <2>5 DEF Halfway
        <3>2. CacheSound'
            BY <1>2, <2>3, <2>5, <3>1 DEF CacheSound
        <3>3. HeldSound(fetching[p])'
            BY <1>2, <2>3, <2>4, <2>5 DEF HeldSound
        <3> QED
            BY <3>2, <3>3
    <2>6. CASE l = "fresh"
        <3>1. j.at = "fillmeta" /\ hdr' = j.buf /\ meta' = j.said /\ ~j.crossed
            BY <1>4, <2>1, <2>6 DEF HeldSound
        <3>2. PICK r \in Revs : Whole(j.buf, r) /\ j.said = Said(r)
            BY <1>0, <1>5, <3>1 DEF OwnSound
        <3>3. Whole(hdr', r) /\ meta' = Said(r)'
            BY <1>6, <3>1, <3>2
        <3>4. CacheSound'
            BY <3>3 DEF CacheSound, Whole, Exact, Pure
        <3>5. HeldSound(fetching[p])'
            BY <1>2, <2>6 DEF HeldSound, Writing
        <3> QED
            BY <3>4, <3>5
    <2> QED
        BY <2>5, <2>6
<1>10. fetching'[p].at \notin {"described", "unreadable"}
    BY <1>2
<1> QED
    BY <1>0, <1>2, <1>3, <1>7, <1>8, <1>9, <1>10, FetchMoves

\* A fetch that stops where it is, and may leave a part of its bytes.
LEMMA StopKeeps ==
    ASSUME FetchInv, NEW p \in Fetchers, p \in Busy, Leaves(p), Happens(TRUE, "broken"),
           DOMAIN fetching' = Fetchers,
           \A q \in Fetchers \ {p} : fetching'[q] = fetching[q],
           fetching'[p] = [at |-> "idle"] \/ Begun(fetching'[p]),
           fetching'[p].at \in {"idle", "unwritten"},
           UNCHANGED <<hub, server, meta>>
    PROVE  FetchInv'
<1>0. happened \subseteq happened' /\ "broken" \in happened' /\ ~Unbroken'
    BY DEF Happens, Unbroken
<1>1. OwnSound(fetching[p])'
    BY DEF OwnSound, Writing
<1>2. HeldSound(fetching[p])'
    BY DEF HeldSound, Writing
<1>3. ASSUME Undisturbed' PROVE CacheSound'
    <2>1. CacheSound /\ HeldSound(fetching[p])
        BY <1>0, <1>3, EventsStay DEF FetchInv
    <2>2. CASE fetching[p].at \in Halfway
        <3>1. Misfit
            BY <2>1, <2>2 DEF HeldSound, Halfway, Writing
        <3>2. Misfit'
            BY <3>1 DEF Misfit, Said, Tag
        <3> QED
            BY <1>0, <3>2 DEF CacheSound
    <2>3. CASE fetching[p].at \notin Halfway
        <3>1. hdr' = hdr
            BY <2>3 DEF Leaves, Halfway
        <3> QED
            BY <1>0, <2>1, <2>3, <3>1, CacheKept
    <2> QED
        BY <2>2, <2>3
<1> QED
    BY <1>0, <1>1, <1>2, <1>3, FetchMoves

\* A publication: only a fetch between its requests, or the description, notices.
LEMMA PublishedKeeps ==
    ASSUME FetchInv, hub' \in Revs, UNCHANGED server, Published
    PROVE  FetchInv'
<1> DEFINE back == Said(hub)' = meta /\ (Busy # {} \/ "broken" \in happened)
<1>0. /\ fetching' = [p \in Fetchers |-> Crossed(fetching[p])] /\ UNCHANGED <<hdr, meta>>
      /\ happened' = IF back THEN happened \cup {"returned"} ELSE happened
    BY DEF Published, Happens
<1>1. happened \subseteq happened' /\ (back => ~Undisturbed')
    <2> HIDE DEF back
    <2> QED
        BY <1>0 DEF Undisturbed
<1>2. FetchTypes
    BY DEF FetchInv
<1>3. ASSUME NEW p \in Fetchers
      PROVE  /\ fetching'[p].at = fetching[p].at
             /\ fetching[p] # [at |-> "idle"] => Begun(fetching'[p])
             /\ fetching'[p].buf = fetching[p].buf /\ fetching'[p].want = fetching[p].want
             /\ fetching'[p].said = fetching[p].said /\ fetching'[p].probed = fetching[p].probed
             /\ IF fetching[p].at = "range" /\ fetching[p].buf # <<>> THEN fetching'[p].crossed
                ELSE fetching'[p] = fetching[p]
    <2> DEFINE j == fetching[p]
    <2>1. fetching'[p] = Crossed(j)
        BY <1>0
    <2>2. CASE j.at = "range" /\ j.buf # <<>>
        <3>1. Begun(j) /\ Crossed(j) = [j EXCEPT !.crossed = TRUE]
            BY <1>2, <2>2 DEF FetchTypes, Crossed
        <3> HIDE DEF j
        <3>2. Crossed(j) = [at |-> j.at, buf |-> j.buf, want |-> j.want, said |-> j.said,
                            probed |-> j.probed, crossed |-> TRUE]
            BY <3>1 DEF Begun
        <3> QED
            BY <2>1, <2>2, <3>2 DEF Begun, j
    <2>3. CASE ~(j.at = "range" /\ j.buf # <<>>)
        <3>1. fetching'[p] = j
            BY <2>1, <2>3 DEF Crossed
        <3> QED
            BY <1>2, <2>3, <3>1 DEF FetchTypes
    <2> QED
        BY <2>2, <2>3
<1>4. FetchTypes'
    <2>1. DOMAIN fetching' = Fetchers
        BY <1>0
    <2>2. ASSUME NEW p \in Fetchers PROVE fetching'[p] = [at |-> "idle"] \/ Begun(fetching'[p])
        BY <1>3
    <2> QED
        BY <2>1, <2>2 DEF FetchTypes
<1>5. \A r : Said(r)' = Said(r)
    BY DEF Said, Tag
<1>6. ASSUME NEW p \in Fetchers PROVE OwnSound(fetching[p])'
    <2> DEFINE j == fetching[p]
    <2>0. OwnSound(j)
        BY DEF FetchInv
    <2>1. CASE j.at = "range" /\ j.buf # <<>>
        BY <1>3, <2>1 DEF OwnSound, Writing
    <2>2. CASE j.at = "range" /\ j.buf = <<>>
        <3>1. fetching'[p] = j
            BY <1>3, <2>2
        <3>2. ASSUME ~j.crossed PROVE Growing(j)'
            <4>1. Growing(j)
                BY <2>0, <2>2, <3>2 DEF OwnSound
            <4>2. ~\E k \in 0..MaxHeader : j.buf = [i \in 1..Doubled[k] |-> hub]
                <5> SUFFICES ASSUME NEW k \in 0..MaxHeader, j.buf = [i \in 1..Doubled[k] |-> hub] PROVE FALSE
                    OBVIOUS
                <5>1. Doubled[k] \in Nat /\ Doubled[k] >= 1
                    BY DoubledGrows
                <5>2. Len([i \in 1..Doubled[k] |-> hub]) = Doubled[k]
                    BY <5>1
                <5> QED
                    BY <2>2, <5>1, <5>2
            <4>3. j.buf = <<>> /\ j.want = 1
                BY <4>1, <4>2 DEF Growing
            <4>4. fetching'[p].buf = <<>> /\ fetching'[p].want = 1
                BY <3>1, <4>3
            <4> QED
                BY <4>4 DEF Growing
        <3> QED
            BY <2>2, <3>1, <3>2 DEF OwnSound, Writing
    <2>3. CASE j.at # "range"
        <3>1. fetching'[p] = j
            BY <1>3, <2>3
        <3> QED
            BY <1>5, <2>0, <2>3, <3>1 DEF OwnSound, Whole, Exact, Pure
    <2> QED
        BY <2>1, <2>2, <2>3
<1>7. Busy' = Busy
    BY <1>3 DEF Busy
<1>8. ASSUME "overlap" \notin happened' PROVE Alone'
    <2>1. Alone
        BY <1>1, <1>8, EventsStay DEF FetchInv
    <2> QED
        BY <1>0, <1>3, <1>7, <2>1 DEF Alone
<1>9. ASSUME Unbroken' PROVE Readable'
    <2>1. Readable
        BY <1>1, <1>9, EventsStay DEF FetchInv
    <2> QED
        BY <1>0, <1>3, <2>1 DEF Readable
<1>10. ASSUME Undisturbed' PROVE CacheSound' /\ \A p \in Fetchers : HeldSound(fetching[p])'
    <2>1. CacheSound /\ ~back /\ \A p \in Fetchers : HeldSound(fetching[p])
        BY <1>1, <1>10, EventsStay DEF FetchInv
    <2>2. Busy # {} \/ "broken" \in happened => Misfit'
        BY <1>0, <2>1 DEF Misfit
    <2>3. CacheSound'
        <3>1. CASE hdr = NoFile /\ meta = NoFile
            BY <1>0, <3>1 DEF CacheSound
        <3>2. CASE \E r \in Revs : Whole(hdr, r) /\ meta = Said(r)
            <4>1. PICK r \in Revs : Whole(hdr, r) /\ meta = Said(r)
                BY <3>2
            <4>2. Whole(hdr, r)' /\ meta' = Said(r)'
                BY <1>0, <1>5, <4>1 DEF Whole, Exact, Pure
            <4> QED
                BY <4>2 DEF CacheSound
        <3>3. CASE "broken" \in happened
            BY <1>1, <2>2, <3>3 DEF CacheSound
        <3>4. ASSUME NEW p \in Fetchers, fetching[p].at \in Halfway PROVE CacheSound'
            <4>1. p \in Busy
                BY <3>4 DEF Busy, Halfway, AtRest
            <4>2. fetching'[p].at \in Halfway
                BY <1>3, <3>4
            <4> QED
                BY <2>2, <4>1, <4>2 DEF CacheSound
        <3> QED
            BY <2>1, <3>1, <3>2, <3>3, <3>4 DEF CacheSound
    <2>4. ASSUME NEW p \in Fetchers PROVE HeldSound(fetching[p])'
        <3>1. HeldSound(fetching[p])
            BY <2>1
        <3>2. fetching[p].at \in {"range"} \cup Writing => Misfit'
            BY <2>2 DEF Busy, AtRest, Writing
        <3>3. CASE fetching[p].at = "range"
            BY <1>3, <3>2, <3>3 DEF HeldSound
        <3>4. CASE fetching[p].at # "range"
            <4>1. fetching'[p] = fetching[p]
                BY <1>3, <3>4
            <4> QED
                BY <1>0, <3>1, <3>2, <3>4, <4>1 DEF HeldSound, Exact, Pure
        <3> QED
            BY <3>3, <3>4
    <2> QED
        BY <2>3, <2>4
<1> QED
    BY <1>4, <1>6, <1>8, <1>9, <1>10 DEF FetchInv

\* fetch_header.
LEMMA FetchHeaderKeeps ==
    ASSUME FetchInv, NEW p \in Fetchers, FetchHeader(p)
    PROVE  FetchInv'
<1> DEFINE j == [at |-> "cache", buf |-> <<>>, want |-> 1, said |-> Unknown, probed |-> Unknown,
                 crossed |-> FALSE]
<1>0. FetchTypes
    BY DEF FetchInv
<1>1. /\ DOMAIN fetching' = Fetchers /\ fetching'[p] = j
      /\ \A q \in Fetchers \ {p} : fetching'[q] = fetching[q]
      /\ UNCHANGED <<hub, server, hdr, meta>> /\ fetching[p].at \in AtRest
    BY <1>0 DEF FetchHeader, FetchTypes
<1>2. happened \subseteq happened' /\ (Busy # {} => "overlap" \in happened')
    BY DEF FetchHeader, Happens
<1>3. FetchTypes'
    <2>1. Begun(j)
        BY DEF Begun
    <2> HIDE DEF j
    <2> QED
        BY <1>0, <1>1, <2>1 DEF FetchTypes
<1>4. ASSUME NEW q \in Fetchers PROVE OwnSound(fetching[q])'
    <2>1. CASE q = p
        BY <1>1, <2>1 DEF OwnSound, Writing
    <2>2. CASE q # p
        <3>1. OwnSound(fetching[q]) /\ fetching'[q] = fetching[q]
            BY <1>1, <2>2 DEF FetchInv
        <3> QED
            BY <1>1, <3>1 DEF OwnSound, Growing, Whole, Exact, Pure, Said, Tag
    <2> QED
        BY <2>1, <2>2
<1>5. ASSUME "overlap" \notin happened', NEW q \in Fetchers, q # p PROVE fetching'[q].at \in AtRest
    BY <1>1, <1>2, <1>5 DEF Busy
<1>6. ASSUME "overlap" \notin happened' PROVE Alone'
    <2>1. \A q, r \in Busy' : q = r
        BY <1>5, <1>6 DEF Busy
    <2>2. \A q \in Fetchers : fetching'[q].at # "described"
        BY <1>1, <1>5, <1>6 DEF AtRest
    <2> QED
        BY <2>1, <2>2 DEF Alone
<1>7. ASSUME Unbroken' PROVE Readable'
    <2>1. Readable
        BY <1>2, <1>7, EventsStay DEF FetchInv
    <2>2. fetching[p].at \notin Halfway
        BY <1>1 DEF AtRest, Halfway
    <2> QED
        BY <1>1, <2>1, <2>2 DEF Readable
<1>8. ASSUME Undisturbed' PROVE CacheSound' /\ \A q \in Fetchers : HeldSound(fetching[q])'
    <2>1. CacheSound /\ \A q \in Fetchers : HeldSound(fetching[q])
        BY <1>2, <1>8, EventsStay DEF FetchInv
    <2>2. fetching[p].at \notin Halfway
        BY <1>1 DEF AtRest, Halfway
    <2>3. CacheSound'
        BY <1>1, <1>2, <2>1, <2>2, CacheKept
    <2>4. "overlap" \notin happened'
        BY <1>8 DEF Undisturbed
    <2>5. ASSUME NEW q \in Fetchers PROVE HeldSound(fetching[q])'
        <3>1. CASE q = p
            BY <1>1, <3>1 DEF HeldSound, Writing
        <3>2. CASE q # p
            <4>1. fetching'[q] = fetching[q] /\ fetching[q].at \in AtRest /\ HeldSound(fetching[q])
                BY <1>1, <1>5, <2>1, <2>4, <3>2
            <4> QED
                BY <1>1, <4>1 DEF HeldSound, AtRest, Writing, Exact, Pure
        <3> QED
            BY <3>1, <3>2
    <2> QED
        BY <2>3, <2>5
<1> QED
    BY <1>3, <1>4, <1>6, <1>7, <1>8 DEF FetchInv

\* Every step keeps the invariant of the fetches.
LEMMA FetchInvStep == FetchInv /\ [Next]_vars => FetchInv'
<1> SUFFICES ASSUME FetchInv, [Next]_vars PROVE FetchInv'
    OBVIOUS
<1>0. FetchTypes
    BY DEF FetchInv
<1>1. ASSUME UNCHANGED <<hub, server, cacheVars>> PROVE FetchInv'
    BY <1>1 DEF cacheVars, FetchInv, FetchTypes, Begun, OwnSound, Growing, Whole, Exact, Pure, Said, Tag,
                Alone, Busy, AtRest, Unbroken, Readable, Undisturbed, CacheSound, Misfit, HeldSound
<1>2. ASSUME NEW p \in Pullers, Pull(p) \/ PullStep(p) \/ KillPull(p), UNCHANGED cacheVars
      PROVE  FetchInv'
    <2>1. UNCHANGED <<hub, server>>
        BY <1>2 DEF Pull, PullStep, KillPull, HeadMetadata, CachedIfVerified, HashCached,
                    Download, VerifyDownloaded, WriteSidecar, FillSidecar
    <2> QED
        BY <1>1, <1>2, <2>1
<1>3. ASSUME Rewrite \/ Second, UNCHANGED cacheVars PROVE FetchInv'
    <2>1. UNCHANGED <<hub, server>>
        BY <1>3 DEF Rewrite, Second
    <2> QED
        BY <1>1, <1>3, <2>1
<1>4. ASSUME NEW p \in Fetchers, WriteFails(p) PROVE FetchInv'
    <2>1. p \in Busy /\ fetching[p].at # "idle"
        BY <1>4 DEF WriteFails, Writing, Busy, AtRest
    <2>2. /\ DOMAIN fetching' = Fetchers
          /\ \A q \in Fetchers \ {p} : fetching'[q] = fetching[q]
          /\ Begun(fetching'[p]) /\ fetching'[p].at = "unwritten"
        BY <1>0, <1>4, <2>1, EndMoves DEF WriteFails
    <2> QED
        BY <1>4, <2>1, <2>2, StopKeeps DEF WriteFails
<1>5. ASSUME NEW p \in Fetchers, FetchStep(p) PROVE FetchInv'
    BY <1>4, <1>5, ReadCacheKeeps, ReadMetaKeeps, ProbeKeeps, GetRangeKeeps, WriteCacheKeeps DEF FetchStep
<1>6. ASSUME NEW p \in Fetchers, KillFetch(p) PROVE FetchInv'
    <2>1. /\ DOMAIN fetching' = Fetchers
          /\ \A q \in Fetchers \ {p} : fetching'[q] = fetching[q]
          /\ fetching'[p] = [at |-> "idle"]
        BY <1>0, <1>6 DEF KillFetch, FetchTypes
    <2> QED
        BY <1>6, <2>1, StopKeeps DEF KillFetch
<1>7. ASSUME Publish, Published PROVE FetchInv'
    BY <1>7, PublishedKeeps DEF Publish
<1>8. CASE UNCHANGED vars
    BY <1>1, <1>8 DEF vars
<1> QED
    BY <1>2, <1>3, <1>5, <1>6, <1>7, <1>8, FetchHeaderKeeps DEF Next

\* fetch_url and its cache: a header that the hub gives, and one that the cache
\* gives, is whole and what a local copy of a revision gives, and the latter is
\* the served revision's if the server sends ETags.  Kills and failed writes at
\* any step do not change that; they may leave a cache that cannot be read.
THEOREM HeadersExact == Spec => []HeaderExact
<1>1. Init => FetchInv
    <2> SUFFICES ASSUME Init PROVE FetchInv
        OBVIOUS
    <2>1. /\ hub \in Revs /\ hdr = NoFile /\ meta = NoFile
          /\ fetching = [p \in Fetchers |-> [at |-> "idle"]]
        BY DEF Init, HubInit, FetchInit
    <2>2. FetchTypes
        BY <2>1 DEF FetchTypes
    <2>3. Alone /\ Readable /\ CacheSound
        BY <2>1 DEF Alone, Readable, CacheSound, Busy, AtRest
    <2>4. \A p \in Fetchers : OwnSound(fetching[p]) /\ HeldSound(fetching[p])
        BY <2>1 DEF OwnSound, HeldSound, Writing
    <2> QED
        BY <2>2, <2>3, <2>4 DEF FetchInv
<1>2. FetchInv => HeaderExact
    <2> SUFFICES ASSUME FetchInv, NEW p \in Fetchers
                 PROVE  LET j == fetching[p]
                        IN  /\ j.at = "fresh" /\ ~j.crossed => \E r \in Revs : Exact(j.buf, r)
                            /\ j.at = "cached" /\ Undisturbed => \E r \in Revs : Exact(j.buf, r)
                            /\ j.at = "cached" /\ Undisturbed /\ server.etags => Pure(j.buf, j.probed)
                            /\ j.at = "corrupt" /\ ~j.crossed =>
                                  \E r \in Revs : ReadLocal(Header[r], Total[r]) = "corrupt"
                            /\ j.at = "unreadable" => happened \cap {"overlap", "broken"} # {}
        BY Zenon DEF HeaderExact, Undisturbed
    <2>1. OwnSound(fetching[p]) /\ (Undisturbed => HeldSound(fetching[p]))
        BY DEF FetchInv
    <2>2. fetching[p].at = "unreadable" => ~Unbroken
        BY DEF FetchInv, Readable
    <2>3. ~Unbroken => happened \cap {"overlap", "broken"} # {}
        BY DEF Unbroken
    <2> QED
        BY <2>1, <2>2, <2>3, Zenon DEF OwnSound, HeldSound
<1> QED
    BY <1>1, <1>2, FetchInvStep, PTL DEF Spec
====
