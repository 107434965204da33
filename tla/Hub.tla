--------------------------------- MODULE Hub ---------------------------------
(* The model hub as runa sees it: one repository, whose files change when a *)
(* new revision is published.                                               *)
EXTENDS Integers

CONSTANTS
    Revs,           \* revisions of the repository
    Servers,        \* what a hub may send: records of linked, ranges, etags
    NoFile,
    MaxPulls, MaxFetches, MaxPublished, MaxKills, MaxRewrites,      \* bounds
    Starts          \* how much of each is used up from the start

VARIABLES
    hub,            \* the revision the hub serves
    server,         \* does it send x-linked-size and x-linked-etag, answer
                    \* range requests, send an ETag
    spent           \* how much of each bound is used up

Counters == {"pulls", "fetches", "published", "kills", "rewrites"}

ASSUME HubAssumption ==
    /\ Revs # {} /\ NoFile \notin Revs
    /\ Starts \subseteq [Counters -> Nat]

HubInit == hub \in Revs /\ server \in Servers /\ spent \in Starts

Spend(what, bound) == spent[what] < bound /\ spent' = [spent EXCEPT ![what] = @ + 1]

\* A new revision.
Publish == Spend("published", MaxPublished) /\ hub' \in Revs \ {hub} /\ UNCHANGED server
==============================================================================
