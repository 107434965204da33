------------------------------ MODULE PullStore ------------------------------
(***************************************************************************)
(* crates/runa/src/pull.rs: `runa pull` and the local model store.  Several *)
(* processes pull from a hub that may publish new revisions meanwhile; a   *)
(* file is downloaded, checked against the hub's metadata and stamped with *)
(* a `.verified` sidecar, and any process may be killed in between.  The   *)
(* content of a file is the revision it came from, which stands for its    *)
(* SHA-256; times are whole seconds, as the code keeps them.               *)
(***************************************************************************)
EXTENDS Hub, Integers, Sequences, FiniteSets

CONSTANTS
    Pullers,        \* processes
    Garbled,        \* contents a download may leave that no revision has
    Size,           \* length of each content
    Tags,           \* quant tags
    Ggufs, Name,    \* .gguf siblings: how each matches a tag, its length, its
                    \* rank, and whether it lies in a subdirectory
    Snapshot,       \* the snapshot files of siblings_all, sorted
    Config,         \* config.json among them
    Limit,          \* max_model_bytes()
    MaxNow          \* bound: seconds

ASSUME PullAssumption ==
    /\ Revs \cap Garbled = {}
    /\ Size \in [Revs \cup Garbled -> Nat]
    /\ Name \in [Ggufs -> [class : [Tags -> 1..3], len : Nat, rank : Nat, nested : BOOLEAN]]
    /\ Tags \cap Ggufs = {} /\ "safetensors" \notin Tags \cup Ggufs
    /\ \A f, g \in Ggufs : Name[f].rank = Name[g].rank => f = g
    /\ Snapshot \in Seq({Snapshot[i] : i \in DOMAIN Snapshot})
    /\ Config \in {Snapshot[i] : i \in DOMAIN Snapshot}
    /\ NoFile \notin Ggufs
    /\ Limit \in Nat

VARIABLES
    now,        \* seconds
    disk,       \* file -> NoFile or its content and mtime
    side,       \* file -> NoFile or the sidecar: sha256 and verified_at
    pulling,    \* where each process is: at, ask, todo, meta
    late        \* ghost: the file changed between the hash and the sidecar
                \* that records it, or in the second of the sidecar

storeVars == <<now, disk, side, pulling, late>>

Files == Ggufs \cup {Snapshot[i] : i \in DOMAIN Snapshot}
Contents == Revs \cup Garbled

PullInit ==
    /\ now = 0
    /\ disk = [f \in Files |-> NoFile]
    /\ side = [f \in Files |-> NoFile]
    /\ pulling = [p \in Pullers |-> [at |-> "idle"]]
    /\ late = [f \in Files |-> FALSE]

-----------------------------------------------------------------------------
\* pick_quant: a suffix match (class 1) before a substring (class 2), then the
\* shortest name, then the first; class 3 does not match.
PickQuant(S, tag) ==
    LET Key(f) == <<Name[f].class[tag], Name[f].len, Name[f].rank>>
        Less(a, b) ==
            \/ a[1] < b[1]
            \/ a[1] = b[1] /\ a[2] < b[2]
            \/ a[1] = b[1] /\ a[2] = b[2] /\ a[3] < b[3]
        fits == {f \in S : Name[f].class[tag] < 3}
    IN  IF fits = {} THEN NoFile
        ELSE CHOOSE f \in fits : \A g \in fits \ {f} : Less(Key(f), Key(g))

\* What is pulled or looked for: a file by name, a quant tag, the snapshot.
Asks == Ggufs \cup Tags \cup {"safetensors"}

\* resolve_hf and pull_safetensors: the files to fetch.
Wanted(ask) ==
    CASE ask \in Tags -> <<PickQuant(Ggufs, ask)>>
      [] ask = "safetensors" -> Snapshot
      [] OTHER -> <<ask>>

Present(f) == disk[f] # NoFile

\* find_local's read_dir sees the names at the top of the repository's directory.
Listed == {f \in Ggufs : Present(f) /\ ~Name[f].nested}

\* Mutant: the first of the directory that matches will do.
MutFindLocal(ask) ==
    LET S == {f \in Listed : ask \in Tags /\ Name[f].class[ask] < 3}
    IN  IF S = {} THEN NoFile ELSE CHOOSE f \in S : \A g \in S : Name[f].rank <= Name[g].rank

\* find_local, for `run` and `chat`: whatever lies in the store.
FindLocal(ask) ==
    CASE ask \in Tags -> PickQuant(Listed, ask)
      [] ask = "safetensors" -> IF Present(Config) THEN Config ELSE NoFile
      [] OTHER -> IF Present(ask) THEN ask ELSE NoFile

-----------------------------------------------------------------------------
File(p) == Head(pulling[p].todo)
Content(f) == disk[f].content
Goto(p, l) == pulling' = [pulling EXCEPT ![p].at = l]
Fail(p) == Goto(p, "failed")

Advance(p) ==
    pulling' = [pulling EXCEPT
        ![p].todo = Tail(@),
        ![p].at = IF Len(pulling[p].todo) = 1 THEN "ok" ELSE "head"]

\* check_size_limit, on GGUF pulls only.
OverLimit(p, size) == pulling[p].ask # "safetensors" /\ size > Limit

Pull(p) ==
    /\ pulling[p].at \in {"idle", "ok", "failed"}
    /\ Spend("pulls", MaxPulls)
    /\ \E ask \in Asks :
          /\ Wanted(ask) # <<NoFile>>
          /\ pulling' = [pulling EXCEPT ![p] =
                [at |-> "head", ask |-> ask, todo |-> Wanted(ask), meta |-> hub]]
    /\ UNCHANGED <<hub, server, now, disk, side, late>>

\* head_metadata, and the size guard before anything is looked at.
HeadMetadata(p) ==
    /\ pulling[p].at = "head"
    /\ pulling' = [pulling EXCEPT ![p].meta = hub,
                      ![p].at = IF server.linked /\ OverLimit(p, Size[hub]) THEN "failed" ELSE "check"]
    /\ UNCHANGED <<hub, server, now, disk, side, late, spent>>

\* Mutant: the sidecar is trusted whatever the file's mtime.
MutTrusted(f, rev) ==
    side[f] # NoFile /\ Size[side[f].sha256] = Size[Content(f)] /\ side[f].sha256 = rev

\* The fast path of cached_if_verified: the sidecar vouches for the file.
Trusted(f, rev) ==
    /\ side[f] # NoFile
    /\ Size[side[f].sha256] = Size[Content(f)]
    /\ side[f].sha256 = rev
    /\ disk[f].mtime <= side[f].verified_at

\* cached_if_verified: size, sidecar, hash.
CachedIfVerified(p) ==
    LET f == File(p)
        rev == pulling[p].meta
    IN  /\ pulling[p].at = "check"
        /\ IF ~server.linked \/ ~Present(f) \/ Size[Content(f)] # Size[rev] THEN Goto(p, "download")
           ELSE IF Trusted(f, rev) THEN Advance(p)
           ELSE Goto(p, "hash")
        /\ UNCHANGED <<hub, server, now, disk, side, late, spent>>

HashCached(p) ==
    /\ pulling[p].at = "hash"
    /\ Goto(p, IF Present(File(p)) /\ Content(File(p)) = pulling[p].meta
               THEN "stamp" ELSE "download")
    /\ UNCHANGED <<hub, server, now, disk, side, late, spent>>

\* A new content at f now.
Lands(f, c) ==
    /\ disk' = [disk EXCEPT ![f] = [content |-> c, mtime |-> now]]
    /\ late' = [late EXCEPT ![f] = @ \/ (side[f] # NoFile /\ side[f].verified_at >= now)]

\* hf-hub's download, which replaces the file by what the hub serves now or by
\* something garbled, or fails and leaves it.
Download(p) ==
    /\ pulling[p].at = "download"
    /\ \/ \E c \in {hub} \cup Garbled : Lands(File(p), c) /\ Goto(p, "verify")
       \/ Fail(p) /\ UNCHANGED <<disk, late>>
    /\ UNCHANGED <<hub, server, now, side, spent>>

\* Mutant: a hash that differs is reported, the file stays.
MutVerifyDownloaded(p) ==
    LET f == File(p)
    IN  /\ pulling[p].at = "verify"
        /\ IF server.linked
           THEN IF Present(f) /\ Content(f) = pulling[p].meta THEN Goto(p, "stamp") ELSE Fail(p)
           ELSE Advance(p)
        /\ UNCHANGED <<hub, server, now, disk, side, late, spent>>

\* verify_downloaded: a wrong length fails and leaves the file, a wrong hash
\* removes it; without metadata there is nothing to check but the limit.
VerifyDownloaded(p) ==
    LET f == File(p)
        rev == pulling[p].meta
    IN  /\ pulling[p].at = "verify"
        /\ CASE server.linked /\ (~Present(f) \/ Size[Content(f)] # Size[rev]) ->
                    Fail(p) /\ UNCHANGED disk
             [] server.linked /\ Present(f) /\ Size[Content(f)] = Size[rev] ->
                    IF Content(f) = rev THEN Goto(p, "stamp") /\ UNCHANGED disk
                    ELSE Fail(p) /\ disk' = [disk EXCEPT ![f] = NoFile]
             [] ~server.linked ->
                    /\ IF Present(f) /\ OverLimit(p, Size[Content(f)]) THEN Fail(p) ELSE Advance(p)
                    /\ UNCHANGED disk
        /\ UNCHANGED <<hub, server, now, side, late, spent>>

\* write_sidecar, some time after the hash: the old one is cut to nothing ...
WriteSidecar(p) ==
    /\ pulling[p].at = "stamp"
    /\ side' = [side EXCEPT ![File(p)] = NoFile]
    /\ Goto(p, "fill")
    /\ UNCHANGED <<hub, server, now, disk, late, spent>>

\* ... and written again.
FillSidecar(p) ==
    LET f == File(p)
    IN  /\ pulling[p].at = "fill"
        /\ side' = [side EXCEPT ![f] = [sha256 |-> pulling[p].meta, verified_at |-> now]]
        /\ late' = [late EXCEPT ![f] = Present(f) /\ Content(f) # pulling[p].meta]
        /\ Advance(p)
        /\ UNCHANGED <<hub, server, now, disk, spent>>

PullStep(p) ==
    \/ HeadMetadata(p) \/ CachedIfVerified(p) \/ HashCached(p) \/ Download(p)
    \/ VerifyDownloaded(p) \/ WriteSidecar(p) \/ FillSidecar(p)

\* The user is cut off, or stops it.
KillPull(p) ==
    /\ pulling[p].at \notin {"idle", "ok", "failed"}
    /\ Spend("kills", MaxKills)
    /\ pulling' = [pulling EXCEPT ![p] = [at |-> "idle"]]
    /\ UNCHANGED <<hub, server, now, disk, side, late>>

\* Somebody else writes into the store.
Rewrite ==
    /\ Spend("rewrites", MaxRewrites)
    /\ \E f \in Ggufs, c \in Garbled : Present(f) /\ Lands(f, c)
    /\ UNCHANGED <<hub, server, now, side, pulling>>

Second ==
    /\ now < MaxNow /\ now' = now + 1
    /\ UNCHANGED <<hub, server, disk, side, pulling, late, spent>>

-----------------------------------------------------------------------------
\* A pull that skips the download because of the sidecar skips it for the
\* right bytes, through rewrites of the file, new revisions, kills and other
\* pulls; only a file that changed between its hash and its sidecar, or in the
\* second of the sidecar, is missed.
SkipSound ==
    \A p \in Pullers :
        LET f == File(p)
        IN  pulling[p].at = "check" /\ server.linked /\ Present(f) /\ Trusted(f, pulling[p].meta)
                => late[f] \/ Content(f) = pulling[p].meta

Resting == \A p \in Pullers : pulling[p].at \in {"idle", "ok", "failed"}

\* Once all pulls are over, a file of the store with the length of a published
\* revision is a published revision: verify_downloaded removes what is not,
\* however pulls interleave, as long as nobody is killed between the download
\* and the check.  (A file of another length than the metadata gave stays, so
\* this is about revisions of one length.)
NothingGarbled ==
    Resting /\ server.linked /\ spent.kills = 0 /\ spent.rewrites = 0 =>
        \A f \in Files : Present(f) =>
            Content(f) \in Revs \/ \A r \in Revs : Size[Content(f)] # Size[r]

\* What was pulled by a quant tag is what `run` finds by that tag, whatever else
\* is in the store, if the hub keeps it at the top of the repository.  One in a
\* subdirectory is never found by its tag: `run` says that it is not downloaded,
\* or takes another file of the tag that is at the top.
PullThenFind ==
    \A p \in Pullers :
        LET tag == pulling[p].ask
            best == PickQuant(Ggufs, tag)
        IN  pulling[p].at = "ok" /\ tag \in Tags /\ Present(best)
                => (FindLocal(tag) = best <=> ~Name[best].nested)
==============================================================================
