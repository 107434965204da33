----------------------------- MODULE HubClients ------------------------------
(***************************************************************************)
(* `runa pull` and `runa fit` processes against one hub: PullStore and     *)
(* HeaderCache share the revision it serves and nothing else.              *)
(***************************************************************************)
EXTENDS PullStore, HeaderCache

vars == <<hub, server, spent, storeVars, cacheVars>>

Init == HubInit /\ PullInit /\ FetchInit

Next ==
    \/ \E p \in Pullers :
          /\ Pull(p) \/ PullStep(p) \/ KillPull(p)
          /\ UNCHANGED cacheVars
    \/ (Rewrite \/ Second) /\ UNCHANGED cacheVars
    \/ \E p \in Fetchers :
          /\ FetchHeader(p) \/ FetchStep(p) \/ KillFetch(p)
          /\ UNCHANGED storeVars
    \/ Publish /\ Published /\ UNCHANGED storeVars

Spec == Init /\ [][Next]_vars
==============================================================================
