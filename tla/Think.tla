-------------------------------- MODULE Think --------------------------------
(***************************************************************************)
(* The thinking knob: crates/runa-core/src/think.rs (ThinkConfig and its   *)
(* overlays) and the layers that crates/runa/src/config.rs puts on top of  *)
(* each other for it.                                                      *)
(***************************************************************************)
EXTENDS Integers, Sequences, SequencesExt, TLC

CONSTANTS
    None, Error,
    Numeral         \* the value of each numeral a user types

DefaultGrace == 64
Efforts == {"low", "medium", "high", "max"}

DefaultThink == [mode |-> "off", tokens |-> None, grace |-> None, effort |-> None, show |-> FALSE]
NoOverrides == [think |-> None, budget |-> None, grace |-> None, effort |-> None, show |-> None]

\* What one place may say, what a [think] table holds, and what comes of them.
Overrides ==
    [think : BOOLEAN \cup {None}, budget : Nat \cup {None}, grace : Nat \cup {None}, effort : Efforts \cup {None},
     show : BOOLEAN \cup {None}]
ThinkTables ==
    [mode : STRING \cup {None}, budget : Nat \cup {None}, grace : Nat \cup {None}, effort : Efforts \cup {None},
     show : BOOLEAN \cup {None}]
ThinkConfigs ==
    [mode : {"off", "on", "budget", "effort"}, tokens : Nat \cup {None}, grace : Nat \cup {None},
     effort : Efforts \cup {None}, show : BOOLEAN]

Or(a, b) == IF a = None THEN b ELSE a

\* parse_u32 and parse_budget.
ParseU32(w) == IF w \in DOMAIN Numeral THEN Numeral[w] ELSE Error
ParseBudget(w) == IF ParseU32(w) = 0 THEN Error ELSE ParseU32(w)

\* ThinkConfig::apply.
Apply(c, o) ==
    LET grace == Or(o.grace, IF c.mode = "budget" THEN c.grace ELSE DefaultGrace)
        On(m) == [DefaultThink EXCEPT !.mode = m, !.show = Or(o.show, c.show)]
        unclear == /\ o.budget # None \/ o.effort # None
                   /\ o.think = FALSE \/ (o.budget # None /\ o.effort # None)
        quiet == o.budget = None /\ o.effort = None
    IN  CASE unclear -> Error
          [] ~unclear /\ o.budget # None -> [On("budget") EXCEPT !.tokens = o.budget, !.grace = grace]
          [] ~unclear /\ o.effort # None -> [On("effort") EXCEPT !.effort = o.effort]
          [] quiet /\ o.think # None -> On(IF o.think THEN "on" ELSE "off")
          [] OTHER -> [c EXCEPT !.show = Or(o.show, @),
                                !.grace = IF c.mode = "budget" THEN grace ELSE @]

\* ThinkOverrides::from_slash_args over the words of the line: a word either
\* decides at once or waits for its argument.
Word(acc, w) ==
    CASE acc = Error -> Error
      [] acc.wait # None ->
            LET v == CASE acc.wait = "budget" -> ParseBudget(w) [] acc.wait = "grace" -> ParseU32(w)
                       [] OTHER -> IF w \in Efforts THEN w ELSE Error
            IN  IF v = Error THEN Error ELSE [o |-> [acc.o EXCEPT ![acc.wait] = v], wait |-> None]
      [] w \in {"on", "off"} -> [acc EXCEPT !.o.think = (w = "on")]
      [] w \in {"show", "hide"} -> [acc EXCEPT !.o.show = (w = "show")]
      [] w \in {"budget", "grace", "effort"} -> [acc EXCEPT !.wait = w]
      [] OTHER -> Error

FromSlashArgs(words) ==
    LET end == FoldLeft(Word, [o |-> NoOverrides, wait |-> None], words)
    IN  IF end = Error THEN Error ELSE IF end.wait # None THEN Error ELSE end.o

\* overrides_from_think_table: with a mode, only what the mode needs counts.
FromThinkTable(t) ==
    LET o == [NoOverrides EXCEPT !.grace = t.grace, !.show = t.show]
    IN  CASE t.mode = None -> [o EXCEPT !.budget = t.budget, !.effort = t.effort]
          [] t.mode = "budget" -> IF t.budget = None THEN Error ELSE [o EXCEPT !.budget = t.budget]
          [] t.mode = "effort" -> IF t.effort = None THEN Error ELSE [o EXCEPT !.effort = t.effort]
          [] t.mode \in {"on", "off"} -> [o EXCEPT !.think = (t.mode = "on")]
          [] OTHER -> Error

\* resolve_think: the tables of the files, then the environment, then the flags.
Overlay(c, o) == IF c = Error \/ o = Error THEN Error ELSE Apply(c, o)
\* Mutant: the files override the flags.
MutResolveThink(layers) ==
    LET after[n \in 0..Len(layers)] ==
            IF n = 0 THEN DefaultThink ELSE Overlay(after[n - 1], Reverse(layers)[n])
    IN  after[Len(layers)]

ResolveThink(layers) ==
    LET after[n \in 0..Len(layers)] == IF n = 0 THEN DefaultThink ELSE Overlay(after[n - 1], layers[n])
    IN  after[Len(layers)]
==============================================================================
