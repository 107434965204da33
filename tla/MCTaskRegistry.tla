---------------------------- MODULE MCTaskRegistry ---------------------------
(* TaskRegistry as `runa tasks` uses it: every agent in a process of its    *)
(* own.                                                                     *)
EXTENDS TaskRegistry, TLC

OwnProcess == [a \in Agents |-> a]
==============================================================================
