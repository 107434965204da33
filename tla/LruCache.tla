------------------------------- MODULE LruCache -------------------------------
(***************************************************************************)
(* What a least-recently-used cache promises, without saying how it keeps  *)
(* its books: the ids it holds in the order of their last use, and which   *)
(* id each client has been given.  Giving an id to a client is a use of it. *)
(* ModelPool implements it with its deque, its engine map, the eviction    *)
(* loop and the handles it hands out.                                      *)
(***************************************************************************)
EXTENDS Naturals, Sequences, FiniteSets

CONSTANTS Ids, Size, Clients, None

VARIABLES
    recent,     \* ids held, least recently used first
    given       \* the id each client has been given and not given back

cacheVars == <<recent, given>>

Held(s) == {s[i] : i \in DOMAIN s}

Distinct(s) == \A i, j \in DOMAIN s : s[i] = s[j] => i = j

\* x was used before y, as far as s remembers.
Before(s, x, y) == \E i, j \in DOMAIN s : i < j /\ s[i] = x /\ s[j] = y

LruInit == recent = <<>> /\ given = [c \in Clients |-> None]

\* After a use of m the cache holds m, as the most recent, and as many of the
\* ids it held as there is room for, in the order they were in; an id is
\* given up only if everything older than it is given up too, and only when
\* the cache is full.
Use(m) ==
    /\ Distinct(recent')
    /\ Held(recent') \subseteq Held(recent) \cup {m}
    /\ Len(recent') > 0 /\ recent'[Len(recent')] = m
    /\ Len(recent') <= Size
    /\ \A x, y \in Held(recent) \ {m} :
          Before(recent, x, y) =>
              /\ x \in Held(recent') => y \in Held(recent')
              /\ x \in Held(recent') => Before(recent', x, y)
    /\ \A x \in Held(recent) \ Held(recent') :
          x # m /\ m \notin Held(recent) /\ Len(recent') = Size

\* A client asks for m and gets it, or has left when it comes.
Serve(c, m) == Use(m) /\ given' = [given EXCEPT ![c] = m]

ServeNobody(m) == Use(m) /\ UNCHANGED given

\* A client gives back what it has; the cache does not notice.
GiveBack(c) == given' = [given EXCEPT ![c] = None] /\ UNCHANGED recent

LruNext ==
    \/ \E c \in Clients, m \in Ids : Serve(c, m)
    \/ \E m \in Ids : ServeNobody(m)
    \/ \E c \in Clients : GiveBack(c)

LruSpec == LruInit /\ [][LruNext]_cacheVars
==============================================================================
