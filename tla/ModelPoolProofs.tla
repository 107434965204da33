--------------------------- MODULE ModelPoolProofs ---------------------------
(* Machine-checked proofs about ModelPool, for every set of models and      *)
(* requests and every value of the limits.                                  *)
EXTENDS ModelPool, FiniteSetTheorems, SequenceTheorems, TLAPS

Ids(s) == {s[i] : i \in DOMAIN s}

NoDup(s) == \A i, j \in DOMAIN s : s[i] = s[j] => i = j

\* u is t without its first k ids.
IsSuffix(u, t, k) ==
    /\ k \in 0..Len(t)
    /\ Len(u) = Len(t) - k
    /\ \A i \in 1..(Len(t) - k) : u[i] = t[k + i]

Excess(t) == IF Len(t) > MaxLoaded THEN Len(t) - MaxLoaded ELSE 0

-----------------------------------------------------------------------------
(* The collection operators.                                               *)

\* HashMap::insert adds the key and keeps every other entry.
LEMMA PutType ==
    ASSUME NEW D, NEW V, NEW f \in [D -> V], NEW k, NEW v \in V
    PROVE  Put(f, k, v) \in [D \cup {k} -> V]
BY DEF Put

\* Removing keys keeps every other entry.
LEMMA DropType ==
    ASSUME NEW D, NEW V, NEW f \in [D -> V], NEW S
    PROVE  Drop(f, S) \in [D \ S -> V]
BY DEF Drop

\* lru.retain(|x| x != id) on a deque without duplicates: a deque without
\* duplicates that lists the other ids, in the order they were in.
LEMMA RetainProps ==
    ASSUME NEW S, NEW s \in Seq(S), NEW m
    PROVE  LET r == Retain(s, m) IN
           /\ r \in Seq(S)
           /\ NoDup(s) => NoDup(r)
           /\ NoDup(s) => Ids(r) = Ids(s) \ {m}
           /\ Len(r) = IF m \in Ids(s) THEN Len(s) - 1 ELSE Len(s)
<1> DEFINE r == Retain(s, m)
<1>0. DOMAIN s = 1..Len(s) /\ Len(s) \in Nat
  OBVIOUS
<1>1. CASE ~ \E i \in DOMAIN s : s[i] = m
  <2>1. r = s
    BY <1>1 DEF Retain
  <2> QED
    BY <1>1, <2>1 DEF Ids, NoDup
<1>2. CASE \E i \in DOMAIN s : s[i] = m
  <2> DEFINE i == CHOOSE i \in DOMAIN s : s[i] = m
  <2>1. i \in DOMAIN s /\ s[i] = m
    BY <1>2
  <2>2. r = [j \in 1..(Len(s) - 1) |-> IF j < i THEN s[j] ELSE s[j + 1]]
    BY <1>2 DEF Retain
  <2> HIDE DEF i
  <2>3. i \in 1..Len(s) /\ Len(s) - 1 \in Nat
    BY <2>1, <1>0
  <2>4. r \in Seq(S) /\ Len(r) = Len(s) - 1 /\ DOMAIN r = 1..(Len(s) - 1)
    <3>1. \A j \in 1..(Len(s) - 1) : (IF j < i THEN s[j] ELSE s[j + 1]) \in S
      BY <2>3, <1>0
    <3>2. r \in [1..(Len(s) - 1) -> S]
      BY <3>1, <2>2
    <3> QED
      BY <3>2, <2>3
  <2> HIDE DEF r
  <2>5. NoDup(s) => NoDup(r)
    BY <2>1, <2>2, <2>3, <2>4, <1>0 DEF NoDup
  <2>6. ASSUME NoDup(s) PROVE Ids(r) = Ids(s) \ {m}
    <3>1. Ids(r) \subseteq Ids(s) \ {m}
      BY <2>1, <2>2, <2>3, <2>4, <1>0, <2>6 DEF NoDup, Ids
    <3>2. ASSUME NEW x \in Ids(s) \ {m} PROVE x \in Ids(r)
      <4>1. PICK k \in 1..Len(s) : s[k] = x
        BY <1>0 DEF Ids
      <4>2. k # i
        BY <4>1, <2>1
      <4>3. CASE k < i
        <5>1. k \in 1..(Len(s) - 1) /\ r[k] = x
          BY <4>1, <4>3, <2>2, <2>3
        <5> QED
          BY <5>1, <2>4 DEF Ids
      <4>4. CASE k > i
        <5>1. k - 1 \in 1..(Len(s) - 1) /\ ~(k - 1 < i) /\ (k - 1) + 1 = k
          BY <4>1, <4>4, <2>3
        <5>2. r[k - 1] = x
          BY <4>1, <5>1, <2>2
        <5> QED
          BY <5>1, <5>2, <2>4 DEF Ids
      <4> QED
        BY <4>1, <4>2, <4>3, <4>4, <2>3
    <3> QED
      BY <3>1, <3>2
  <2>7. m \in Ids(s)
    BY <2>1 DEF Ids
  <2> QED
    BY <2>4, <2>5, <2>6, <2>7 DEF r
<1> QED
  BY <1>1, <1>2

\* touch_lru moves an id to the back, or adds it there.
LEMMA TouchProps ==
    ASSUME NEW S, NEW s \in Seq(S), NEW m \in S
    PROVE  LET t == TouchLru(s, m) IN
           /\ t \in Seq(S)
           /\ NoDup(s) => NoDup(t)
           /\ NoDup(s) => Ids(t) = Ids(s) \cup {m}
           /\ Len(t) = IF m \in Ids(s) THEN Len(s) ELSE Len(s) + 1
           /\ Len(t) > 0 /\ t[Len(t)] = m
<1> DEFINE r == Retain(s, m)
<1> DEFINE t == TouchLru(s, m)
<1>1. /\ r \in Seq(S)
      /\ NoDup(s) => NoDup(r)
      /\ NoDup(s) => Ids(r) = Ids(s) \ {m}
      /\ Len(r) = IF m \in Ids(s) THEN Len(s) - 1 ELSE Len(s)
  BY RetainProps
<1>2. t = Append(r, m)
  BY DEF TouchLru
<1> HIDE DEF r, t
<1>3. /\ t \in Seq(S)
      /\ Len(t) = Len(r) + 1
      /\ \A i \in 1..Len(r) : t[i] = r[i]
      /\ t[Len(r) + 1] = m
  BY <1>1, <1>2, AppendProperties
<1>4. DOMAIN t = 1..Len(t) /\ DOMAIN r = 1..Len(r) /\ Len(r) \in Nat
  BY <1>1, <1>3
<1>5. ASSUME NoDup(s) PROVE NoDup(t)
  <2>1. m \notin Ids(r)
    BY <1>1, <1>5
  <2> QED
    BY <1>1, <1>3, <1>4, <1>5, <2>1 DEF NoDup, Ids
<1>6. Ids(t) = Ids(r) \cup {m}
  BY <1>3, <1>4 DEF Ids
<1> QED
  <2>1. Len(s) \in Nat
    OBVIOUS
  <2> QED
    BY <1>1, <1>3, <1>4, <1>5, <1>6, <2>1 DEF t

\* A deque without duplicates lists as many ids as it is long.
LEMMA NoDupCardinality ==
    ASSUME NEW S, NEW s \in Seq(S), NoDup(s)
    PROVE  IsFiniteSet(Ids(s)) /\ Cardinality(Ids(s)) = Len(s)
<1>1. DOMAIN s = 1..Len(s) /\ Len(s) \in Nat
  OBVIOUS
<1>2. s \in Bijection(1..Len(s), Ids(s))
  BY <1>1 DEF Ids, NoDup, Bijection, Injection, Surjection, IsInjective
<1>3. ExistsBijection(1..Len(s), Ids(s))
  BY <1>2 DEF ExistsBijection
<1> QED
  BY <1>1, <1>3, FS_CountingElements, FS_NatBijection

\* The eviction loop on a pool whose lru lists exactly its ids: it takes the
\* excess over MaxLoaded off the front, and nothing when there is none.
LEMMA EvictionCount ==
    ASSUME NEW S, NEW s \in Seq(S), NoDup(s), NEW e, DOMAIN e = Ids(s),
           MaxLoaded \in Nat
    PROVE  Evictions(e, s) =
             IF Len(s) > MaxLoaded THEN Len(s) - MaxLoaded ELSE 0
<1>1. DOMAIN s = 1..Len(s) /\ Len(s) \in Nat
  OBVIOUS
<1>2. Cardinality(DOMAIN e) = Len(s)
  BY NoDupCardinality
<1> DEFINE taken == {i \in 1..Len(s) : /\ i + MaxLoaded <= Cardinality(DOMAIN e)
                                      /\ \A j \in 1..i : s[j] \in DOMAIN e}
<1>3. taken = 1..(Len(s) - MaxLoaded)
  <2>1. \A i \in 1..Len(s) : \A j \in 1..i : s[j] \in DOMAIN e
    BY <1>1 DEF Ids
  <2> QED
    BY <1>1, <1>2, <2>1
<1>4. Cardinality(1..(Len(s) - MaxLoaded)) =
        IF Len(s) > MaxLoaded THEN Len(s) - MaxLoaded ELSE 0
  <2>1. 1 \in Int /\ Len(s) - MaxLoaded \in Int
    BY <1>1
  <2>2. Cardinality(1..(Len(s) - MaxLoaded)) =
          IF 1 > Len(s) - MaxLoaded THEN 0 ELSE (Len(s) - MaxLoaded) - 1 + 1
    BY <2>1, FS_Interval
  <2> QED
    BY <1>1, <2>2
<1> QED
  BY <1>3, <1>4 DEF Evictions

\* The loop never runs past the end of the deque.
LEMMA EvictionBound ==
    ASSUME NEW S, NEW s \in Seq(S), NEW e
    PROVE  Evictions(e, s) \in 0..Len(s)
<1>1. Len(s) \in Nat
  OBVIOUS
<1> DEFINE taken == {i \in 1..Len(s) : /\ i + MaxLoaded <= Cardinality(DOMAIN e)
                                      /\ \A j \in 1..i : s[j] \in DOMAIN e}
<1>2. /\ IsFiniteSet(1..Len(s))
      /\ Cardinality(1..Len(s)) = Len(s)
  BY <1>1, FS_Interval
<1>3. /\ IsFiniteSet(taken)
      /\ Cardinality(taken) <= Cardinality(1..Len(s))
  BY <1>2, FS_Subset
<1>4. Cardinality(taken) \in Nat
  BY <1>3, FS_CardinalityType
<1> QED
  BY <1>1, <1>2, <1>3, <1>4 DEF Evictions

-----------------------------------------------------------------------------
(* Type correctness.                                                       *)

\* Handing an engine to a process keeps the types of the handles.
LEMMA GiveType ==
    ASSUME TypeOK, NEW p \in Procs, NEW e \in Procs, Give(p, e)
    PROVE  /\ pc' \in [Procs -> {"new", "waiting", "asr", "ensure", "loading",
                                 "have", "sent", "done"}]
           /\ handle' \in [Procs -> Procs \cup {NoEngine}]
           /\ reply' \in [Procs -> {"none", "ok", "err"}]
           /\ status' \in [Procs -> {"none", "ok", "error"}]
BY DEF TypeOK, Give

\* Answering a request keeps the types of what it lets go of.
LEMMA AnswerType ==
    ASSUME TypeOK, NEW p \in Procs, NEW out \in {"ok", "error"}, Answer(p, out)
    PROVE  /\ pc' \in [Procs -> {"new", "waiting", "asr", "ensure", "loading",
                                 "have", "sent", "done"}]
           /\ handle' \in [Procs -> Procs \cup {NoEngine}]
           /\ status' \in [Procs -> {"none", "ok", "error"}]
BY DEF TypeOK, Answer

\* Refusing a process keeps the types of what it lets go of.
LEMMA RefuseType ==
    ASSUME TypeOK, NEW p \in Procs, Refuse(p)
    PROVE  /\ pc' \in [Procs -> {"new", "waiting", "asr", "ensure", "loading",
                                 "have", "sent", "done"}]
           /\ handle' \in [Procs -> Procs \cup {NoEngine}]
           /\ reply' \in [Procs -> {"none", "ok", "err"}]
           /\ status' \in [Procs -> {"none", "ok", "error"}]
<1>1. CASE p = Warm
  BY <1>1 DEF TypeOK, Refuse
<1>2. CASE p # Warm
  BY <1>2, AnswerType DEF TypeOK, Refuse
<1> QED
  BY <1>1, <1>2

\* Posting a job keeps the types of the queues.
LEMMA PostType ==
    ASSUME TypeOK, NEW r \in Reqs, Post(r)
    PROVE  /\ pc' \in [Procs -> {"new", "waiting", "asr", "ensure", "loading",
                                 "have", "sent", "done"}]
           /\ handle' \in [Procs -> Procs \cup {NoEngine}]
           /\ status' \in [Procs -> {"none", "ok", "error"}]
           /\ queue' \in [Procs -> Seq(Jobs)]
<1>0. r \in Procs /\ r \in Jobs
  BY DEF Procs, Jobs
<1>1. CASE estate[handle[r]] = "ready"
  <2>1. \A e \in Procs : Append(queue[e], r) \in Seq(Jobs)
    BY <1>0 DEF TypeOK
  <2>2. queue \in [Procs -> Seq(Jobs)]
    BY DEF TypeOK
  <2>3. queue' = [queue EXCEPT ![handle[r]] = Append(@, r)]
    BY <1>1 DEF Post
  <2>4. queue' \in [Procs -> Seq(Jobs)]
    <3>1. queue' = [e \in Procs |-> IF e = handle[r] THEN Append(queue[e], r)
                                    ELSE queue[e]]
      BY <2>2, <2>3
    <3> QED
      BY <2>1, <2>2, <3>1
  <2>5. pc' = [pc EXCEPT ![r] = "sent"] /\ handle' = handle /\ status' = status
    BY <1>1 DEF Post
  <2> QED
    BY <1>0, <2>4, <2>5 DEF TypeOK
<1>2. CASE estate[handle[r]] # "ready"
  BY <1>0, <1>2, AnswerType DEF TypeOK, Post
<1> QED
  BY <1>1, <1>2

\* The pool after a load, before and after the eviction loop.
LEMMA LoadDoneType ==
    ASSUME TypeOK, NEW p \in Procs, LoadDone(p)
    PROVE  /\ DOMAIN engines' \in SUBSET Models
           /\ engines' \in [DOMAIN engines' -> Procs]
           /\ lru' \in Seq(Models)
           /\ DOMAIN last_used' \in SUBSET Models
           /\ last_used' \in [DOMAIN last_used' -> 0..IdleTimeout]
<1> DEFINE m == model[p]
           e == Put(engines, m, p)
           s == TouchLru(lru, m)
           n == Evictions(e, s)
           victims == {s[i] : i \in 1..n}
<1>1. m \in Models /\ Loaded \subseteq Models /\ 0 \in 0..IdleTimeout
  BY PoolAssumption DEF TypeOK
<1>2. /\ engines' = Drop(e, victims)
      /\ lru' = SubSeq(s, n + 1, Len(s))
      /\ last_used' = Drop(Put(last_used, m, 0), victims)
  BY DEF LoadDone
<1>3. s \in Seq(Models)
  BY <1>1, TouchProps DEF TypeOK
<1>4. e \in [Loaded \cup {m} -> Procs]
  BY PutType DEF TypeOK
<1>5. Put(last_used, m, 0) \in [DOMAIN last_used \cup {m} -> 0..IdleTimeout]
  BY <1>1, PutType DEF TypeOK
<1> HIDE DEF e, s, n, victims
<1>6. engines' \in [(Loaded \cup {m}) \ victims -> Procs]
  BY <1>2, <1>4, DropType
<1>7. last_used' \in [(DOMAIN last_used \cup {m}) \ victims -> 0..IdleTimeout]
  BY <1>2, <1>5, DropType
<1>8. lru' \in Seq(Models)
  <2>1. Len(s) \in Nat /\ n \in 0..Len(s)
    BY <1>3, EvictionBound DEF n
  <2>2. \A i \in (n + 1)..Len(s) : s[i] \in Models
    BY <1>3, <2>1
  <2> QED
    BY <1>2, <2>1, <2>2, SubSeqProperties
<1> QED
  BY <1>1, <1>6, <1>7, <1>8 DEF TypeOK

\* Every variable keeps its type.
THEOREM TypeCorrect == Spec => []TypeOK
<1> USE PoolAssumption
<1>1. Init => TypeOK
  BY DEF Init, TypeOK, Procs, Jobs, Loaded
<1>2. TypeOK /\ [Next]_vars => TypeOK'
  <2> SUFFICES ASSUME TypeOK, [Next]_vars PROVE TypeOK'
    OBVIOUS
  <2>0. Reqs \subseteq Procs /\ Reqs \subseteq Jobs /\ Warm \in Procs
    BY DEF Procs, Jobs
  <2>1. ASSUME NEW r \in Reqs, Arrive(r) PROVE TypeOK'
    BY <2>0, <2>1 DEF Arrive, TypeOK, pvars, evars, Loaded
  <2>2. ASSUME NEW r \in Reqs, AcquireParallel(r) PROVE TypeOK'
    <3>1. CASE Answer(r, "error")
      <4>1. /\ pc' \in [Procs -> {"new", "waiting", "asr", "ensure", "loading",
                                   "have", "sent", "done"}]
            /\ handle' \in [Procs -> Procs \cup {NoEngine}]
            /\ status' \in [Procs -> {"none", "ok", "error"}]
        BY <2>0, <3>1, AnswerType
      <4> QED
        BY <2>2, <4>1 DEF AcquireParallel, TypeOK, pvars, evars, Loaded
    <3>2. CASE ~Answer(r, "error")
      <4>1. /\ \E v \in {"asr", "ensure"} : pc' = [pc EXCEPT ![r] = v]
            /\ UNCHANGED <<handle, status, model, kind, left, reply, gone, pvars,
                           evars, warm, deaths>>
        BY <2>2, <3>2 DEF AcquireParallel
      <4> QED
        BY <2>0, <4>1 DEF TypeOK, pvars, evars, Loaded
    <3> QED
      BY <3>1, <3>2
  <2>3. ASSUME NEW r \in Reqs, Transcribe(r) PROVE TypeOK'
    BY <2>0, <2>3, AnswerType DEF Transcribe, TypeOK, pvars, evars, Loaded
  <2>4. ASSUME NEW r \in Reqs, Disconnect(r) PROVE TypeOK'
    BY <2>0, <2>4 DEF Disconnect, TypeOK, pvars, evars, Loaded
  <2>5. ASSUME NEW p \in Procs, EnsureLoaded(p) PROVE TypeOK'
    <3>1. model[p] \in Models /\ engines[model[p]] \in Procs
      BY <2>5 DEF TypeOK, EnsureLoaded
    <3>2. lru' \in Seq(Models)
      BY <2>5, <3>1, TouchProps DEF TypeOK, EnsureLoaded
    <3>a. 0 \in 0..IdleTimeout
      OBVIOUS
    <3>b. last_used' = Put(last_used, model[p], 0)
      BY <2>5 DEF EnsureLoaded
    <3>3. last_used' \in [DOMAIN last_used \cup {model[p]} -> 0..IdleTimeout]
      BY <3>a, <3>b, PutType DEF TypeOK
    <3>4. /\ DOMAIN last_used' \in SUBSET Models
          /\ last_used' \in [DOMAIN last_used' -> 0..IdleTimeout]
      BY <3>1, <3>3 DEF TypeOK
    <3> QED
      BY <2>5, <3>1, <3>2, <3>4, GiveType DEF EnsureLoaded, TypeOK, evars, Loaded
  <2>6. ASSUME NEW p \in Procs, EnsureRefused(p) PROVE TypeOK'
    BY <2>6, RefuseType DEF EnsureRefused, TypeOK, pvars, evars, Loaded
  <2>7. ASSUME NEW p \in Procs, StartLoad(p) PROVE TypeOK'
    BY <2>7 DEF StartLoad, TypeOK, pvars, Loaded
  <2>8. ASSUME NEW p \in Procs, LoadFails(p) PROVE TypeOK'
    BY <2>8, RefuseType DEF LoadFails, TypeOK, pvars, Loaded
  <2>9. ASSUME NEW p \in Procs, LoadDone(p) PROVE TypeOK'
    <3>1. Give(p, p)
      BY <2>9 DEF LoadDone
    <3> QED
      BY <2>9, <3>1, GiveType, LoadDoneType DEF LoadDone, TypeOK, Loaded
  <2>10. CASE WarmReport
    BY <2>0, <2>10 DEF WarmReport, TypeOK, pvars, evars, Loaded
  <2>11. ASSUME NEW r \in Reqs, Send(r) PROVE TypeOK'
    BY <2>0, <2>11, PostType DEF Send, TypeOK, pvars, Loaded
  <2>12. ASSUME NEW r \in Reqs, Receive(r) PROVE TypeOK'
    <3>1. /\ pc' \in [Procs -> {"new", "waiting", "asr", "ensure", "loading",
                                 "have", "sent", "done"}]
          /\ handle' \in [Procs -> Procs \cup {NoEngine}]
          /\ status' \in [Procs -> {"none", "ok", "error"}]
          /\ queue' \in [Procs -> Seq(Jobs)]
      <4>1. CASE reply[r] = "ok" /\ left[r] > 1
        BY <2>12, <4>1, PostType DEF Receive
      <4>2. CASE ~(reply[r] = "ok" /\ left[r] > 1)
        <5>1. queue' = queue /\ \E out \in {"ok", "error"} : Answer(r, out)
          BY <2>12, <4>2 DEF Receive
        <5> QED
          BY <2>0, <5>1, AnswerType DEF TypeOK
      <4> QED
        BY <4>1, <4>2
    <3>2. left' \in [Procs -> 0..MaxInputs]
      <4>1. CASE left' = left
        BY <4>1 DEF TypeOK
      <4>2. CASE left' # left
        <5>1. left[r] > 1 /\ left' = [left EXCEPT ![r] = @ - 1]
          BY <2>12, <4>2 DEF Receive
        <5>2. left[r] - 1 \in 0..MaxInputs
          BY <2>0, <5>1 DEF TypeOK
        <5> QED
          BY <5>1, <5>2 DEF TypeOK
      <4> QED
        BY <4>1, <4>2
    <3>3. reply' \in [Procs -> {"none", "ok", "err"}]
      BY <2>0, <2>12 DEF Receive, TypeOK
    <3> QED
      BY <2>12, <3>1, <3>2, <3>3 DEF Receive, TypeOK, pvars, Loaded
  <2>13. ASSUME NEW e \in Procs, TakeJob(e) PROVE TypeOK'
    <3>1. queue[e] \in Seq(Jobs) /\ queue[e] # <<>>
      BY <2>13 DEF TakeJob, TypeOK
    <3>2. Head(queue[e]) \in Jobs /\ Tail(queue[e]) \in Seq(Jobs)
      BY <3>1, HeadTailProperties
    <3>3. running' \in [Procs -> Jobs \cup {NoEngine}]
      BY <2>13, <3>2 DEF TakeJob, TypeOK
    <3>4. queue' \in [Procs -> Seq(Jobs)]
      BY <2>13, <3>2 DEF TakeJob, TypeOK
    <3>5. used' \in [Procs -> BOOLEAN] /\ kv' \in [Procs -> SUBSET Reqs]
      <4>1. CASE Head(queue[e]) \in Reqs /\ kind[Head(queue[e])] = "chat"
        <5>1. /\ kv' = [kv EXCEPT ![e] = (IF used[e] THEN {} ELSE @)
                                           \cup {Head(queue[e])}]
              /\ used' = [used EXCEPT ![e] = TRUE]
          BY <2>13, <4>1 DEF TakeJob
        <5>2. ((IF used[e] THEN {} ELSE kv[e]) \cup {Head(queue[e])})
                 \in SUBSET Reqs
          BY <4>1 DEF TypeOK
        <5>3. kv' \in [Procs -> SUBSET Reqs]
          BY <5>1, <5>2 DEF TypeOK
        <5>4. used' \in [Procs -> BOOLEAN]
          BY <5>1 DEF TypeOK
        <5> QED
          BY <5>3, <5>4
      <4>2. CASE ~(Head(queue[e]) \in Reqs /\ kind[Head(queue[e])] = "chat")
        BY <2>13, <4>2 DEF TakeJob, TypeOK
      <4> QED
        BY <4>1, <4>2
    <3> QED
      BY <2>13, <3>3, <3>4, <3>5 DEF TakeJob, TypeOK, hvars, pvars, Loaded
  <2>14. ASSUME NEW e \in Procs, FinishJob(e) PROVE TypeOK'
    <3>1. reply' \in [Procs -> {"none", "ok", "err"}]
      BY <2>0, <2>14 DEF FinishJob, TypeOK
    <3>2. running' \in [Procs -> Jobs \cup {NoEngine}]
      BY <2>14 DEF FinishJob, TypeOK
    <3> QED
      BY <2>14, <3>1, <3>2 DEF FinishJob, TypeOK, pvars, Loaded
  <2>15. ASSUME NEW e \in Procs, StopEngine(e) PROVE TypeOK'
    BY <2>0, <2>15 DEF StopEngine, TypeOK, hvars, pvars, Loaded
  <2>16. ASSUME NEW e \in Procs, EngineDies(e) PROVE TypeOK'
    BY <2>0, <2>16 DEF EngineDies, TypeOK, pvars, Loaded
  <2>17. CASE Tick
    BY <2>0, <2>17 DEF Tick, TypeOK, hvars, evars, Loaded
  <2>18. CASE IdleSweep
    <3> DEFINE live == {m \in DueForIdle : estate[engines[m]] = "ready"}
               dead == DueForIdle \ live
               swept == {engines[m] : m \in live}
    <3>1. live \subseteq Models
      BY DEF DueForIdle, TypeOK
    <3>2. /\ queue' = [e \in Procs |->
                   IF e \in swept THEN Append(queue[e], Idle) ELSE queue[e]]
          /\ engines' = Drop(engines, dead)
          /\ last_used' = [m \in (DOMAIN last_used \cup live) \ dead |->
                             IF m \in live THEN 0 ELSE last_used[m]]
      BY <2>18 DEF IdleSweep
    <3> HIDE DEF live, dead, swept
    <3>3. queue' \in [Procs -> Seq(Jobs)]
      <4>1. \A e \in Procs : Append(queue[e], Idle) \in Seq(Jobs)
        BY DEF TypeOK, Jobs
      <4> QED
        BY <3>2, <4>1 DEF TypeOK
    <3>4. engines' \in [Loaded \ dead -> Procs]
      BY <3>2, DropType DEF TypeOK
    <3>5. last_used' \in [(DOMAIN last_used \cup live) \ dead -> 0..IdleTimeout]
      <4>1. \A m \in (DOMAIN last_used \cup live) \ dead :
              (IF m \in live THEN 0 ELSE last_used[m]) \in 0..IdleTimeout
        BY DEF TypeOK
      <4> QED
        BY <3>2, <4>1
    <3> QED
      BY <2>18, <3>1, <3>3, <3>4, <3>5 DEF IdleSweep, TypeOK, hvars, Loaded
  <2>19. CASE UNCHANGED vars
    BY <2>19 DEF vars, TypeOK, Loaded
  <2> QED
    BY <2>1, <2>2, <2>3, <2>4, <2>5, <2>6, <2>7, <2>8, <2>9, <2>10, <2>11,
       <2>12, <2>13, <2>14, <2>15, <2>16, <2>17, <2>18, <2>19
       DEF Next, HandlerStep, EnsureStep, EngineStep
<1> QED
  BY <1>1, <1>2, PTL DEF Spec

-----------------------------------------------------------------------------
(* The pool's collections agree and stay within max_loaded.                *)

\* LruExact and Capacity over the length of lru.
LEMMA LruForm ==
    ASSUME TypeOK
    PROVE  /\ LruExact <=> (deaths = 0 => /\ NoDup(lru)
                                         /\ Ids(lru) = Loaded
                                         /\ DOMAIN last_used = Loaded)
           /\ LruExact => (Capacity <=> (deaths = 0 => Len(lru) <= MaxLoaded))
<1>1. LruExact <=> (deaths = 0 => /\ NoDup(lru)
                                  /\ Ids(lru) = Loaded
                                  /\ DOMAIN last_used = Loaded)
  BY DEF LruExact, NoDup, Ids
<1>2. ASSUME LruExact, deaths = 0 PROVE Cardinality(Loaded) = Len(lru)
  BY <1>1, <1>2, NoDupCardinality DEF TypeOK
<1> QED
  BY <1>1, <1>2 DEF Capacity

\* The same after a step.
LEMMA LruFormPrime ==
    ASSUME TypeOK',
           deaths' = 0 => /\ NoDup(lru') /\ Ids(lru') = Loaded'
                          /\ DOMAIN last_used' = Loaded'
                          /\ Len(lru') <= MaxLoaded
    PROVE  LruExact' /\ Capacity'
<1>1. LruExact'
  BY DEF LruExact, NoDup, Ids
<1>2. ASSUME deaths' = 0 PROVE Cardinality(Loaded') = Len(lru')
  BY <1>2, NoDupCardinality DEF TypeOK
<1> QED
  BY <1>1, <1>2 DEF Capacity

\* A load that ends in a pool within its limit leaves a pool within its limit
\* whose three collections agree.
LEMMA LoadDonePool ==
    ASSUME TypeOK, PoolInv, NEW p \in Procs, LoadDone(p), deaths = 0
    PROVE  /\ NoDup(lru')
           /\ Ids(lru') = DOMAIN engines'
           /\ DOMAIN last_used' = DOMAIN engines'
           /\ Len(lru') <= MaxLoaded
           /\ IsSuffix(lru', TouchLru(lru, model[p]),
                       Excess(TouchLru(lru, model[p])))
<1> DEFINE m == model[p]
           e == Put(engines, m, p)
           s == TouchLru(lru, m)
           n == Evictions(e, s)
           victims == {s[i] : i \in 1..n}
           u == Put(last_used, m, 0)
<1>1. /\ NoDup(lru) /\ Ids(lru) = Loaded /\ DOMAIN last_used = Loaded
      /\ Len(lru) <= MaxLoaded
      /\ lru \in Seq(Models) /\ m \in Models
      /\ MaxLoaded \in Nat
  BY LruForm, PoolAssumption DEF PoolInv, TypeOK
<1>2. /\ engines' = Drop(e, victims)
      /\ lru' = SubSeq(s, n + 1, Len(s))
      /\ last_used' = Drop(u, victims)
  BY DEF LoadDone
<1>3. s \in Seq(Models) /\ NoDup(s) /\ Ids(s) = Loaded \cup {m}
  BY <1>1, TouchProps
<1>4. DOMAIN e = Ids(s) /\ DOMAIN u = Ids(s)
  BY <1>1, <1>3 DEF Put, Loaded
<1>5. n = IF Len(s) > MaxLoaded THEN Len(s) - MaxLoaded ELSE 0
  BY <1>1, <1>3, <1>4, EvictionCount
<1> HIDE DEF e, s, n, u
<1>6. DOMAIN s = 1..Len(s) /\ Len(s) \in Nat /\ n \in 0..Len(s)
  BY <1>1, <1>3, <1>5
<1>7. /\ lru' \in Seq(Models)
      /\ Len(lru') = Len(s) - n
      /\ \A i \in 1..(Len(s) - n) : lru'[i] = s[n + i]
  <2>1. \A i \in (n + 1)..Len(s) : s[i] \in Models
    BY <1>3, <1>6
  <2>2. n + 1 \in Int /\ Len(s) \in Int
    BY <1>6
  <2>3. /\ lru' \in Seq(Models)
        /\ Len(lru') = IF n + 1 <= Len(s) THEN Len(s) - (n + 1) + 1 ELSE 0
        /\ \A i \in 1..(Len(s) - (n + 1) + 1) : lru'[i] = s[(n + 1) + i - 1]
    BY <1>2, <2>1, <2>2, SubSeqProperties
  <2>a. n \in Nat /\ Len(s) \in Nat /\ n <= Len(s)
    BY <1>6
  <2>4. Len(s) - (n + 1) + 1 = Len(s) - n
    BY <2>a
  <2>b. n + 1 <= Len(s) \/ Len(s) - n = 0
    BY <2>a
  <2>5. \A i \in 1..(Len(s) - n) : (n + 1) + i - 1 = n + i
    BY <1>6
  <2>6. Len(lru') = Len(s) - n
    BY <2>3, <2>4, <2>a, <2>b
  <2>7. \A i \in 1..(Len(s) - n) : lru'[i] = s[n + i]
    BY <2>3, <2>4, <2>5
  <2> QED
    BY <2>3, <2>6, <2>7
<1>8. DOMAIN lru' = 1..(Len(s) - n)
  BY <1>7
<1>9. NoDup(lru')
  <2> SUFFICES ASSUME NEW i \in 1..(Len(s) - n), NEW j \in 1..(Len(s) - n),
                      lru'[i] = lru'[j]
               PROVE  i = j
    BY <1>8 DEF NoDup
  <2>1. n + i \in DOMAIN s /\ n + j \in DOMAIN s
    BY <1>6
  <2>2. s[n + i] = s[n + j]
    BY <1>7
  <2>3. n + i = n + j
    BY <1>3, <2>1, <2>2 DEF NoDup
  <2> QED
    BY <1>6, <2>3
<1>10. Ids(lru') = Ids(s) \ victims
  <2>1. ASSUME NEW i \in 1..(Len(s) - n)
        PROVE  lru'[i] \in Ids(s) /\ lru'[i] \notin victims
    <3>1. n + i \in 1..Len(s) /\ lru'[i] = s[n + i]
      BY <1>6, <1>7
    <3>2. \A j \in 1..n : s[j] # s[n + i]
      BY <1>3, <1>6, <3>1 DEF NoDup
    <3> QED
      BY <1>6, <3>1, <3>2 DEF Ids
  <2>2. ASSUME NEW j \in 1..Len(s), s[j] \notin victims
        PROVE  s[j] \in Ids(lru')
    <3>1. j > n
      BY <2>2, <1>6
    <3>2. j - n \in 1..(Len(s) - n) /\ lru'[j - n] = s[j]
      BY <3>1, <1>6, <1>7
    <3> QED
      BY <3>2, <1>8 DEF Ids
  <2> QED
    BY <2>1, <2>2, <1>6, <1>8 DEF Ids
<1>11. DOMAIN engines' = Ids(s) \ victims /\ DOMAIN last_used' = Ids(s) \ victims
  BY <1>2, <1>4 DEF Drop
<1>12. Len(lru') <= MaxLoaded
  <2>1. CASE Len(s) > MaxLoaded
    BY <1>1, <1>5, <1>6, <1>7, <2>1
  <2>2. CASE ~(Len(s) > MaxLoaded)
    BY <1>1, <1>5, <1>6, <1>7, <2>2
  <2> QED
    BY <2>1, <2>2
<1>13. IsSuffix(lru', s, Excess(s))
  BY <1>5, <1>6, <1>7 DEF IsSuffix, Excess
<1> QED
  BY <1>9, <1>10, <1>11, <1>12, <1>13 DEF s

\* Steps that leave the pool and the engine threads' states alone, and take no
\* process into or out of the loading phase, keep PoolInv.
LEMMA PoolUntouched ==
    ASSUME TypeOK, PoolInv, NEW p \in Procs,
           UNCHANGED <<engines, lru, estate, deaths>>,
           DOMAIN last_used' = DOMAIN last_used,
           \A q \in Procs \ {p} : pc'[q] = pc[q],
           \/ pc'[p] \in {"have", "sent", "done"}
           \/ pc[p] = pc'[p]
           \/ pc[p] \in {"new", "waiting", "asr", "ensure"} /\ pc'[p] # "loading"
    PROVE  PoolInv'
<1>1. LoaderState'
  BY DEF PoolInv, LoaderState
<1>2. PoolLive' /\ LruExact' /\ Capacity'
  BY DEF PoolInv, PoolLive, LruExact, Capacity, Loaded
<1> QED
  BY <1>1, <1>2 DEF PoolInv

\* PoolInv is inductive relative to TypeOK.
LEMMA PoolInvStep == TypeOK /\ TypeOK' /\ PoolInv /\ [Next]_vars => PoolInv'
<1> USE PoolAssumption
<1> SUFFICES ASSUME TypeOK, TypeOK', PoolInv, [Next]_vars PROVE PoolInv'
  OBVIOUS
<1>0. /\ Reqs \subseteq Procs /\ Warm \in Procs /\ DOMAIN pc = Procs
      /\ pc = [q \in Procs |-> pc[q]]
  BY DEF Procs, TypeOK
<1>1. ASSUME NEW r \in Reqs, Arrive(r) PROVE PoolInv'
  BY <1>0, <1>1, PoolUntouched DEF Arrive, pvars, evars
<1>2. ASSUME NEW r \in Reqs, AcquireParallel(r) PROVE PoolInv'
  <2>1. \E v \in {"asr", "ensure", "done"} : pc' = [pc EXCEPT ![r] = v]
    BY <1>2 DEF AcquireParallel, Answer
  <2>2. pc[r] = "waiting" /\ UNCHANGED <<pvars, evars, deaths>>
    BY <1>2 DEF AcquireParallel
  <2> QED
    BY <1>0, <2>1, <2>2, PoolUntouched DEF pvars, evars
<1>3. ASSUME NEW r \in Reqs, Transcribe(r) PROVE PoolInv'
  BY <1>0, <1>3, PoolUntouched DEF Transcribe, Answer, pvars, evars
<1>4. ASSUME NEW r \in Reqs, Disconnect(r) PROVE PoolInv'
  <2>1. /\ r \in Procs /\ UNCHANGED <<pvars, evars, deaths>>
        /\ pc' = pc \/ pc' = [pc EXCEPT ![r] = "done"]
    BY <1>0, <1>4 DEF Disconnect
  <2> QED
    BY <1>0, <2>1, PoolUntouched DEF pvars, evars
<1>5. ASSUME NEW p \in Procs, EnsureLoaded(p) PROVE PoolInv'
  <2>1. /\ \E v \in {"have", "done"} : pc' = [pc EXCEPT ![p] = v]
        /\ UNCHANGED <<engines, evars, deaths>>
    BY <1>5 DEF EnsureLoaded, Give
  <2>2. LoaderState'
    BY <1>0, <2>1 DEF PoolInv, LoaderState, evars
  <2>3. PoolLive'
    BY <2>1 DEF PoolInv, PoolLive, Loaded, evars
  <2>4. ASSUME deaths = 0
        PROVE  /\ NoDup(lru') /\ Ids(lru') = Loaded /\ Len(lru') <= MaxLoaded
               /\ DOMAIN last_used' = Loaded
    <3>1. /\ NoDup(lru) /\ Ids(lru) = Loaded /\ DOMAIN last_used = Loaded
          /\ Len(lru) <= MaxLoaded
      BY <2>4, LruForm DEF PoolInv
    <3>2. model[p] \in Loaded /\ lru' = TouchLru(lru, model[p])
      BY <1>5 DEF EnsureLoaded
    <3>3. NoDup(lru') /\ Ids(lru') = Loaded /\ Len(lru') = Len(lru)
      <4>1. lru \in Seq(Models) /\ model[p] \in Models
        BY DEF TypeOK
      <4>2. model[p] \in Ids(lru) /\ Ids(lru) \cup {model[p]} = Loaded
        BY <3>1, <3>2
      <4>3. /\ NoDup(TouchLru(lru, model[p]))
            /\ Ids(TouchLru(lru, model[p])) = Ids(lru) \cup {model[p]}
            /\ Len(TouchLru(lru, model[p])) = Len(lru)
        BY <3>1, <4>1, <4>2, TouchProps
      <4> QED
        BY <3>2, <4>2, <4>3
    <3>4. DOMAIN last_used' = Loaded
      BY <1>5, <3>1, <3>2 DEF EnsureLoaded, Put
    <3> QED
      BY <3>1, <3>3, <3>4
  <2>5. LruExact' /\ Capacity'
    <3>1. Loaded' = Loaded /\ deaths' = deaths
      BY <2>1 DEF Loaded
    <3> QED
      BY <2>4, <3>1, LruForm, LruFormPrime
  <2> QED
    BY <2>2, <2>3, <2>5 DEF PoolInv
<1>6. ASSUME NEW p \in Procs, EnsureRefused(p) PROVE PoolInv'
  <2>1. /\ \E v \in {"have", "done"} : pc' = [pc EXCEPT ![p] = v]
        /\ UNCHANGED <<pvars, evars, deaths>>
    BY <1>6 DEF EnsureRefused, Refuse, Answer
  <2> QED
    BY <1>0, <2>1, PoolUntouched DEF pvars, evars
<1>7. ASSUME NEW p \in Procs, StartLoad(p) PROVE PoolInv'
  <2>1. /\ estate[p] = "none"
        /\ estate' = [estate EXCEPT ![p] = "loading"]
        /\ pc' = [pc EXCEPT ![p] = "loading"]
        /\ UNCHANGED <<pvars, deaths>>
    BY <1>7 DEF StartLoad, PoolInv, LoaderState
  <2>2. LoaderState'
    BY <1>0, <2>1 DEF PoolInv, LoaderState, TypeOK
  <2>3. PoolLive'
    BY <2>1 DEF PoolInv, PoolLive, Loaded, pvars, TypeOK
  <2>4. LruExact' /\ Capacity'
    BY <2>1 DEF PoolInv, LruExact, Capacity, Loaded, pvars
  <2> QED
    BY <2>2, <2>3, <2>4 DEF PoolInv
<1>8. ASSUME NEW p \in Procs, LoadFails(p) PROVE PoolInv'
  <2>1. /\ estate[p] = "loading"
        /\ estate' = [estate EXCEPT ![p] = "stopped"]
        /\ \E v \in {"have", "done"} : pc' = [pc EXCEPT ![p] = v]
        /\ UNCHANGED <<pvars, deaths>>
    BY <1>8 DEF LoadFails, Refuse, Answer, PoolInv, LoaderState
  <2>2. LoaderState'
    BY <2>1 DEF PoolInv, LoaderState, TypeOK
  <2>3. PoolLive'
    BY <2>1 DEF PoolInv, PoolLive, Loaded, pvars, TypeOK
  <2>4. LruExact' /\ Capacity'
    BY <2>1 DEF PoolInv, LruExact, Capacity, Loaded, pvars
  <2> QED
    BY <2>2, <2>3, <2>4 DEF PoolInv
<1>9. ASSUME NEW p \in Procs, LoadDone(p) PROVE PoolInv'
  <2>1. /\ estate' = [estate EXCEPT ![p] = "ready"]
        /\ \E v \in {"have", "done"} : pc' = [pc EXCEPT ![p] = v]
        /\ deaths' = deaths
    BY <1>9 DEF LoadDone, Give
  <2>2. LoaderState'
    BY <2>1 DEF PoolInv, LoaderState, TypeOK
  <2>3. PoolLive'
    <3>1. \A m \in DOMAIN engines' :
            engines'[m] = p \/ (m \in Loaded /\ engines'[m] = engines[m])
      BY <1>9 DEF LoadDone, Put, Drop, Loaded
    <3> QED
      BY <2>1, <3>1 DEF PoolInv, PoolLive, Loaded, TypeOK
  <2>4. LruExact' /\ Capacity'
    BY <1>9, <2>1, LoadDonePool, LruFormPrime DEF Loaded
  <2> QED
    BY <2>2, <2>3, <2>4 DEF PoolInv
<1>10. CASE WarmReport
  BY <1>0, <1>10, PoolUntouched DEF WarmReport, pvars, evars
<1>11. ASSUME NEW r \in Reqs, Send(r) PROVE PoolInv'
  <2>1. /\ \E v \in {"sent", "done"} : pc' = [pc EXCEPT ![r] = v]
        /\ UNCHANGED <<pvars, estate, deaths>>
    BY <1>11 DEF Send, Post, Answer
  <2> QED
    BY <1>0, <2>1, PoolUntouched DEF pvars
<1>12. ASSUME NEW r \in Reqs, Receive(r) PROVE PoolInv'
  <2>1. /\ \E v \in {"sent", "done"} : pc' = [pc EXCEPT ![r] = v]
        /\ UNCHANGED <<pvars, estate, deaths>>
    BY <1>12 DEF Receive, Post, Answer
  <2> QED
    BY <1>0, <2>1, PoolUntouched DEF pvars
<1>13. ASSUME NEW e \in Procs, TakeJob(e) PROVE PoolInv'
  BY <1>13, PoolUntouched DEF TakeJob, hvars, pvars
<1>14. ASSUME NEW e \in Procs, FinishJob(e) PROVE PoolInv'
  BY <1>14, PoolUntouched DEF FinishJob, pvars
<1>15. ASSUME NEW e \in Procs, StopEngine(e) PROVE PoolInv'
  <2>1. /\ estate[e] = "ready" /\ \A m \in Loaded : engines[m] # e
        /\ estate' = [estate EXCEPT ![e] = "stopped"]
        /\ UNCHANGED <<pc, pvars, deaths>>
    BY <1>15 DEF StopEngine, InPool, hvars
  <2>2. LoaderState'
    BY <2>1 DEF PoolInv, LoaderState, TypeOK
  <2>3. PoolLive'
    BY <2>1 DEF PoolInv, PoolLive, Loaded, pvars, TypeOK
  <2>4. LruExact' /\ Capacity'
    BY <2>1 DEF PoolInv, LruExact, Capacity, Loaded, pvars
  <2> QED
    BY <2>2, <2>3, <2>4 DEF PoolInv
<1>16. ASSUME NEW e \in Procs, EngineDies(e) PROVE PoolInv'
  <2>1. /\ estate[e] = "ready" /\ deaths' # 0 /\ pc' = pc
        /\ estate' = [estate EXCEPT ![e] = "stopped"]
    BY <1>16 DEF EngineDies, TypeOK
  <2>2. LoaderState'
    BY <2>1 DEF PoolInv, LoaderState, TypeOK
  <2> QED
    BY <2>1, <2>2 DEF PoolInv, PoolLive, LruExact, Capacity
<1>17. CASE Tick
  <2>1. DOMAIN last_used' = DOMAIN last_used
    BY <1>17 DEF Tick
  <2> QED
    BY <1>0, <1>17, <2>1, PoolUntouched DEF Tick, hvars, evars
<1>18. CASE IdleSweep
  <2> DEFINE live == {m \in DueForIdle : estate[engines[m]] = "ready"}
             dead == DueForIdle \ live
  <2>1. /\ engines' = Drop(engines, dead)
        /\ DOMAIN last_used' = (DOMAIN last_used \cup live) \ dead
        /\ UNCHANGED <<pc, lru, estate, deaths>>
    BY <1>18 DEF IdleSweep, hvars
  <2>2. LoaderState'
    BY <2>1 DEF PoolInv, LoaderState
  <2>3. CASE deaths # 0
    BY <2>1, <2>2, <2>3 DEF PoolInv, PoolLive, LruExact, Capacity
  <2>4. CASE deaths = 0
    <3>1. dead = {}
      BY <2>4 DEF PoolInv, PoolLive, DueForIdle
    <3>2. engines' = engines
      BY <2>1, <3>1 DEF Drop, TypeOK
    <3>3. DOMAIN last_used' = DOMAIN last_used
      BY <2>1, <2>4, <3>1 DEF PoolInv, LruExact, DueForIdle
    <3> QED
      BY <1>0, <2>1, <3>2, <3>3, PoolUntouched
  <2> QED
    BY <2>3, <2>4
<1>19. CASE UNCHANGED vars
  BY <1>0, <1>19, PoolUntouched DEF vars
<1> QED
  BY <1>1, <1>2, <1>3, <1>4, <1>5, <1>6, <1>7, <1>8, <1>9, <1>10, <1>11,
     <1>12, <1>13, <1>14, <1>15, <1>16, <1>17, <1>18, <1>19
     DEF Next, HandlerStep, EnsureStep, EngineStep

\* The inductive invariant holds throughout.
THEOREM PoolAlways == Spec => []PoolInv
<1>1. Init => PoolInv
  <2>1. ASSUME Init PROVE PoolInv
    <3>1. LoaderState
      BY <2>1 DEF Init, LoaderState
    <3>2. Loaded = {} /\ lru = <<>> /\ DOMAIN last_used = {}
      BY <2>1 DEF Init, Loaded
    <3>3. PoolLive /\ LruExact
      BY <3>2 DEF PoolLive, LruExact
    <3>4. Capacity
      BY <3>2, FS_EmptySet, PoolAssumption DEF Capacity
    <3> QED
      BY <3>1, <3>3, <3>4 DEF PoolInv
  <2> QED
    BY <2>1
<1> QED
  BY <1>1, TypeCorrect, PoolInvStep, PTL DEF Spec

\* touch_lru, evict_if_needed and idle_sweep, for every number of models,
\* requests and permits: engines, lru and last_used always agree.
THEOREM PoolInStep == Spec => []LruExact
<1>1. PoolInv => LruExact
  BY DEF PoolInv
<1> QED
  BY <1>1, PoolAlways, PTL

\* evict_if_needed: never more than max_loaded engines are in the map, for
\* every number of models, requests and permits.
THEOREM PoolBounded == Spec => []Capacity
<1>1. PoolInv => Capacity
  BY DEF PoolInv
<1> QED
  BY <1>1, PoolAlways, PTL

-----------------------------------------------------------------------------
(* The pool implements an LRU cache.                                       *)

Precedes(s, x, y) == \E i, j \in DOMAIN s : i < j /\ s[i] = x /\ s[j] = y

\* Closing the gap keeps the order of the ids that stay.
LEMMA RetainOrder ==
    ASSUME NEW S, NEW s \in Seq(S), NEW m, NEW x, NEW y, x # m, y # m,
           Precedes(s, x, y)
    PROVE  Precedes(Retain(s, m), x, y)
<1>0. DOMAIN s = 1..Len(s) /\ Len(s) \in Nat
  OBVIOUS
<1>1. CASE ~ \E i \in DOMAIN s : s[i] = m
  BY <1>1 DEF Retain
<1>2. CASE \E i \in DOMAIN s : s[i] = m
  <2> DEFINE i == CHOOSE i \in DOMAIN s : s[i] = m
             r == Retain(s, m)
  <2>1. i \in DOMAIN s /\ s[i] = m
    BY <1>2
  <2>2. r = [j \in 1..(Len(s) - 1) |-> IF j < i THEN s[j] ELSE s[j + 1]]
    BY <1>2 DEF Retain
  <2>3. PICK a, b \in DOMAIN s : a < b /\ s[a] = x /\ s[b] = y
    BY DEF Precedes
  <2> HIDE DEF i, r
  <2>4. a # i /\ b # i
    BY <2>1, <2>3
  <2> DEFINE shift(k) == IF k < i THEN k ELSE k - 1
  <2>5. \A k \in 1..Len(s) : k # i =>
          /\ shift(k) \in 1..(Len(s) - 1)
          /\ (IF shift(k) < i THEN s[shift(k)] ELSE s[shift(k) + 1]) = s[k]
    <3> SUFFICES ASSUME NEW k \in 1..Len(s), k # i
                 PROVE  /\ shift(k) \in 1..(Len(s) - 1)
                        /\ (IF shift(k) < i THEN s[shift(k)]
                             ELSE s[shift(k) + 1]) = s[k]
      OBVIOUS
    <3>1. CASE k < i
      BY <1>0, <2>1, <3>1
    <3>2. CASE ~(k < i)
      <4>1. k - 1 \in 1..(Len(s) - 1) /\ ~(k - 1 < i) /\ (k - 1) + 1 = k
        BY <1>0, <2>1, <3>2
      <4> QED
        BY <3>2, <4>1
    <3> QED
      BY <3>1, <3>2
  <2>6. shift(a) \in DOMAIN r /\ shift(b) \in DOMAIN r
    BY <1>0, <2>2, <2>3, <2>4, <2>5
  <2>7. r[shift(a)] = x /\ r[shift(b)] = y
    BY <1>0, <2>2, <2>3, <2>4, <2>5
  <2>8. shift(a) < shift(b)
    BY <1>0, <2>1, <2>3, <2>4
  <2> QED
    BY <2>6, <2>7, <2>8 DEF Precedes, r
<1> QED
  BY <1>1, <1>2

\* touch_lru keeps the order of the other ids.
LEMMA TouchOrder ==
    ASSUME NEW S, NEW s \in Seq(S), NEW m \in S, NEW x, NEW y, x # m, y # m,
           Precedes(s, x, y)
    PROVE  Precedes(TouchLru(s, m), x, y)
<1> DEFINE r == Retain(s, m)
<1>1. r \in Seq(S) /\ Precedes(r, x, y)
  BY RetainProps, RetainOrder
<1> HIDE DEF r
<1>2. PICK a, b \in DOMAIN r : a < b /\ r[a] = x /\ r[b] = y
  BY <1>1 DEF Precedes
<1>3. /\ Append(r, m) \in Seq(S) /\ Len(Append(r, m)) = Len(r) + 1
      /\ \A i \in 1..Len(r) : Append(r, m)[i] = r[i]
  BY <1>1, AppendProperties
<1>4. /\ a \in 1..Len(r) /\ b \in 1..Len(r)
      /\ a \in DOMAIN Append(r, m) /\ b \in DOMAIN Append(r, m)
  BY <1>1, <1>2, <1>3
<1>5. Precedes(Append(r, m), x, y)
  BY <1>2, <1>3, <1>4 DEF Precedes
<1> QED
  BY <1>5 DEF TouchLru, r

\* Taking k ids off the front of a deque without duplicates: what stays keeps
\* its order, and whatever is younger than something that stays, stays.
LEMMA SuffixOrder ==
    ASSUME NEW S, NEW t \in Seq(S), NoDup(t), NEW u \in Seq(S),
           NEW k, IsSuffix(u, t, k),
           NEW x, NEW y, Precedes(t, x, y), x \in Ids(u)
    PROVE  y \in Ids(u) /\ Precedes(u, x, y)
<1>0. DOMAIN t = 1..Len(t) /\ DOMAIN u = 1..Len(u) /\ Len(t) \in Nat
  OBVIOUS
<1>a. /\ k \in 0..Len(t)
      /\ Len(u) = Len(t) - k
      /\ \A i \in 1..(Len(t) - k) : u[i] = t[k + i]
  BY DEF IsSuffix
<1>1. PICK a, b \in 1..Len(t) : a < b /\ t[a] = x /\ t[b] = y
  BY <1>0 DEF Precedes
<1>2. PICK c \in 1..Len(u) : u[c] = x
  BY <1>0 DEF Ids
<1>3. k + c \in 1..Len(t) /\ t[k + c] = x
  BY <1>0, <1>2, <1>a
<1>4. a = k + c
  BY <1>0, <1>1, <1>3 DEF NoDup
<1>5. b - k \in 1..Len(u) /\ c < b - k /\ k + (b - k) = b
  BY <1>0, <1>1, <1>2, <1>4, <1>a
<1>6. u[b - k] = y
  <2>1. b - k \in 1..(Len(t) - k)
    BY <1>5, <1>a
  <2>2. u[b - k] = t[k + (b - k)]
    BY <2>1, <1>a
  <2> QED
    BY <1>1, <1>5, <2>2
<1> QED
  BY <1>0, <1>2, <1>5, <1>6 DEF Ids, Precedes

\* What Cache!Use asks of a step, for a deque u that is the deque s after a
\* use of m and k evictions.
LEMMA TouchEvictUse ==
    ASSUME NEW s \in Seq(Models), NEW u \in Seq(Models), NEW m \in Models,
           NoDup(s), Len(s) <= MaxLoaded, MaxLoaded \in Nat \ {0},
           IsSuffix(u, TouchLru(s, m), Excess(TouchLru(s, m)))
    PROVE  /\ NoDup(u)
           /\ Ids(u) \subseteq Ids(s) \cup {m}
           /\ Len(u) > 0 /\ u[Len(u)] = m
           /\ Len(u) <= MaxLoaded
           /\ \A x, y \in Ids(s) \ {m} : Precedes(s, x, y) =>
                 /\ x \in Ids(u) => y \in Ids(u)
                 /\ x \in Ids(u) => Precedes(u, x, y)
           /\ \A x \in Ids(s) \ Ids(u) :
                 x # m /\ m \notin Ids(s) /\ Len(u) = MaxLoaded
<1> DEFINE t == TouchLru(s, m)
           k == Excess(TouchLru(s, m))
<1>1. /\ t \in Seq(Models) /\ NoDup(t) /\ Ids(t) = Ids(s) \cup {m}
      /\ Len(t) = IF m \in Ids(s) THEN Len(s) ELSE Len(s) + 1
      /\ Len(t) > 0 /\ t[Len(t)] = m
  BY TouchProps
<1> HIDE DEF t
<1>a. /\ k \in 0..Len(t)
      /\ Len(u) = Len(t) - k
      /\ \A i \in 1..(Len(t) - k) : u[i] = t[k + i]
  BY DEF IsSuffix, t
<1>b. k = IF Len(t) > MaxLoaded THEN Len(t) - MaxLoaded ELSE 0
  BY DEF Excess, t
<1>c. IsSuffix(u, t, k)
  BY DEF t
<1> HIDE DEF k
<1>0. /\ DOMAIN t = 1..Len(t) /\ DOMAIN u = 1..Len(u)
      /\ Len(t) \in Nat /\ Len(s) \in Nat /\ Len(u) \in Nat
  BY <1>1
<1>2. NoDup(u)
  <2> SUFFICES ASSUME NEW i \in 1..Len(u), NEW j \in 1..Len(u), u[i] = u[j]
               PROVE  i = j
    BY <1>0 DEF NoDup
  <2>1. k + i \in DOMAIN t /\ k + j \in DOMAIN t /\ t[k + i] = t[k + j]
    BY <1>0, <1>a
  <2>2. k + i = k + j
    BY <1>1, <2>1 DEF NoDup
  <2> QED
    BY <1>a, <1>0, <2>2
<1>3. Ids(u) \subseteq Ids(t)
  <2> SUFFICES ASSUME NEW i \in 1..Len(u) PROVE u[i] \in Ids(t)
    BY <1>0 DEF Ids
  <2>1. k + i \in DOMAIN t /\ u[i] = t[k + i]
    BY <1>0, <1>a
  <2> QED
    BY <2>1 DEF Ids
<1>4. Len(u) > 0 /\ Len(u) <= MaxLoaded
  <2>1. CASE Len(t) > MaxLoaded
    BY <1>0, <1>a, <1>b, <2>1
  <2>2. CASE ~(Len(t) > MaxLoaded)
    <3>1. k = 0
      BY <1>b, <2>2
    <3>2. Len(u) = Len(t) /\ Len(t) > 0
      BY <1>0, <1>1, <1>a, <3>1
    <3> QED
      BY <1>0, <2>2, <3>2
  <2> QED
    BY <2>1, <2>2
<1>5. u[Len(u)] = m
  <2>1. Len(u) \in 1..(Len(t) - k) /\ k + Len(u) = Len(t)
    BY <1>0, <1>4, <1>a
  <2> QED
    BY <1>1, <1>a, <2>1
<1>6. ASSUME NEW x \in Ids(s) \ {m}, NEW y \in Ids(s) \ {m},
             Precedes(s, x, y), x \in Ids(u)
      PROVE  y \in Ids(u) /\ Precedes(u, x, y)
  <2>1. Precedes(t, x, y)
    BY <1>6, TouchOrder DEF t
  <2> QED
    BY <1>1, <1>6, <1>c, <2>1, SuffixOrder
<1>7. ASSUME NEW x \in Ids(s) \ Ids(u)
      PROVE  x # m /\ m \notin Ids(s) /\ Len(u) = MaxLoaded
  <2>1. x # m
    BY <1>0, <1>4, <1>5 DEF Ids
  <2>2. CASE k = 0
    <3>1. PICK i \in 1..Len(t) : t[i] = x
      BY <1>0, <1>1 DEF Ids
    <3>2. i \in 1..(Len(t) - k) /\ k + i = i /\ i \in DOMAIN u
      BY <1>0, <1>a, <2>2
    <3>3. u[i] = x
      BY <3>1, <3>2, <1>a
    <3> QED
      BY <3>2, <3>3 DEF Ids
  <2>3. CASE k # 0
    <3>1. Len(t) > MaxLoaded
      BY <2>3, <1>b
    <3>2. m \notin Ids(s)
      BY <1>0, <1>1, <3>1
    <3>3. Len(u) = MaxLoaded
      BY <1>0, <3>1, <1>a, <1>b
    <3> QED
      BY <2>1, <3>2, <3>3
  <2> QED
    BY <2>2, <2>3
<1> QED
  BY <1>1, <1>2, <1>3, <1>4, <1>5, <1>6, <1>7

\* A step in which the deque goes through a use and the eviction loop is a
\* use of the abstract cache.
LEMMA UseStep ==
    ASSUME TypeOK, TypeOK', LruExact, Capacity, deaths = 0, NEW m \in Models,
           IsSuffix(lru', TouchLru(lru, m), Excess(TouchLru(lru, m)))
    PROVE  Cache!Use(m)
<1>1. NoDup(lru) /\ Len(lru) <= MaxLoaded
  BY LruForm
<1>2. /\ lru \in Seq(Models) /\ lru' \in Seq(Models)
      /\ MaxLoaded \in Nat \ {0}
  BY PoolAssumption DEF TypeOK
<1>3. /\ NoDup(lru')
      /\ Ids(lru') \subseteq Ids(lru) \cup {m}
      /\ Len(lru') > 0 /\ lru'[Len(lru')] = m
      /\ Len(lru') <= MaxLoaded
      /\ \A x, y \in Ids(lru) \ {m} : Precedes(lru, x, y) =>
            /\ x \in Ids(lru') => y \in Ids(lru')
            /\ x \in Ids(lru') => Precedes(lru', x, y)
      /\ \A x \in Ids(lru) \ Ids(lru') :
            x # m /\ m \notin Ids(lru) /\ Len(lru') = MaxLoaded
  BY <1>1, <1>2, TouchEvictUse
<1>4. /\ \A s : Cache!Held(s) = Ids(s)
      /\ \A s : Cache!Distinct(s) <=> NoDup(s)
      /\ \A s, x, y : Cache!Before(s, x, y) <=> Precedes(s, x, y)
  BY DEF Cache!Held, Ids, Cache!Distinct, NoDup, Cache!Before, Precedes
<1> QED
  BY <1>3, <1>4 DEF Cache!Use

\* A process has no handle before ensure_engine has ended.
NoHandleYet ==
    \A p \in Procs :
        pc[p] \in {"new", "waiting", "asr", "ensure", "loading"} => handle[p] = NoEngine

\* NoHandleYet is inductive relative to TypeOK.
LEMMA NoHandleStep == TypeOK /\ NoHandleYet /\ [Next]_vars => NoHandleYet'
<1> SUFFICES ASSUME TypeOK, NoHandleYet, [Next]_vars PROVE NoHandleYet'
  OBVIOUS
<1>0. Reqs \subseteq Procs /\ Warm \in Procs
  BY DEF Procs
<1>1. ASSUME NEW r \in Procs, NEW v \in {"have", "sent", "done"},
             pc' = [pc EXCEPT ![r] = v],
             \A q \in Procs \ {r} : handle'[q] = handle[q]
      PROVE  NoHandleYet'
  BY <1>1 DEF NoHandleYet, TypeOK
<1>2. ASSUME NEW r \in Procs, NEW out, Answer(r, out) PROVE NoHandleYet'
  BY <1>1, <1>2 DEF Answer, TypeOK
<1>3. ASSUME NEW r \in Procs, Refuse(r) PROVE NoHandleYet'
  BY <1>1, <1>2, <1>3 DEF Refuse
<1>4. ASSUME NEW r \in Procs, NEW e, Give(r, e) PROVE NoHandleYet'
  BY <1>1, <1>4 DEF Give, TypeOK
<1>5. ASSUME NEW r \in Procs, Post(r) PROVE NoHandleYet'
  BY <1>1, <1>2, <1>5 DEF Post
<1>6. ASSUME NEW r \in Procs, handle' = handle,
             \A q \in Procs \ {r} : pc'[q] = pc[q],
             \/ pc'[r] = pc[r]
             \/ pc[r] \in {"new", "waiting", "asr", "ensure", "loading"}
      PROVE  NoHandleYet'
  BY <1>6 DEF NoHandleYet
<1>7. ASSUME NEW r \in Reqs, Arrive(r) \/ HandlerStep(r) PROVE NoHandleYet'
  <2>0. r \in Procs
    BY <1>0
  <2>1. CASE Arrive(r)
    BY <1>6, <2>0, <2>1 DEF Arrive, TypeOK
  <2>2. CASE AcquireParallel(r)
    BY <1>2, <1>6, <2>0, <2>2 DEF AcquireParallel, TypeOK
  <2>3. CASE Transcribe(r) \/ Send(r) \/ Receive(r)
    BY <1>2, <1>5, <2>0, <2>3 DEF Transcribe, Send, Receive
  <2> QED
    BY <1>7, <2>1, <2>2, <2>3 DEF HandlerStep
<1>8. ASSUME NEW r \in Reqs, Disconnect(r) PROVE NoHandleYet'
  BY <1>0, <1>8 DEF Disconnect, NoHandleYet, TypeOK
<1>9. ASSUME NEW p \in Procs, EnsureStep(p) PROVE NoHandleYet'
  <2>1. CASE EnsureLoaded(p) \/ LoadDone(p)
    BY <1>4, <2>1 DEF EnsureLoaded, LoadDone
  <2>2. CASE EnsureRefused(p) \/ LoadFails(p)
    BY <1>3, <2>2 DEF EnsureRefused, LoadFails
  <2>3. CASE StartLoad(p)
    BY <1>6, <2>3 DEF StartLoad, TypeOK
  <2> QED
    BY <1>9, <2>1, <2>2, <2>3 DEF EnsureStep
<1>10. ASSUME NEW e \in Procs, EngineStep(e) \/ EngineDies(e) PROVE NoHandleYet'
  BY <1>6, <1>10 DEF EngineStep, TakeJob, FinishJob, StopEngine, EngineDies, hvars
<1>11. CASE WarmReport
  BY <1>0, <1>1, <1>11 DEF WarmReport, TypeOK
<1>12. CASE Tick \/ IdleSweep \/ UNCHANGED vars
  BY <1>0, <1>6, <1>12 DEF Tick, IdleSweep, vars, hvars
<1> QED
  BY <1>7, <1>8, <1>9, <1>10, <1>11, <1>12 DEF Next

\* No process has a handle before it was given one.
LEMMA NoHandleAlways == Spec => []NoHandleYet
<1>1. Init => NoHandleYet
    BY DEF Init, NoHandleYet
<1> QED
    BY <1>1, NoHandleStep, TypeCorrect, PTL DEF Spec

\* A use that ends with Give is a step of the abstract cache.
LEMMA GiveServes ==
    ASSUME TypeOK, NoHandleYet, NEW p \in Procs, NEW e \in Procs,
           pc[p] \in {"ensure", "loading"}, Give(p, e), model' = model,
           Cache!Use(model[p])
    PROVE  Cache!LruNext
<1>0. /\ model[p] \in Models /\ handle[p] = NoEngine /\ e # NoEngine
      /\ DOMAIN handle = Procs
  BY PoolAssumption DEF TypeOK, NoHandleYet, Procs
<1>1. CASE p \in gone \cup {Warm}
  <2>1. handle' = handle
    BY <1>0, <1>1 DEF Give, TypeOK
  <2>2. Given' = Given
    BY <2>1 DEF Given
  <2> QED
    BY <1>0, <2>2 DEF Cache!LruNext, Cache!ServeNobody
<1>2. CASE p \notin gone \cup {Warm}
  <2>1. handle' = [handle EXCEPT ![p] = e]
    BY <1>2 DEF Give
  <2>2. Given' = [Given EXCEPT ![p] = model[p]]
    BY <1>0, <2>1 DEF Given, TypeOK
  <2> QED
    BY <1>0, <2>2 DEF Cache!LruNext, Cache!Serve
<1> QED
  BY <1>1, <1>2

\* Dropping one handle and leaving lru and the models alone is a step of the
\* abstract cache.
LEMMA DropGivesBack ==
    ASSUME TypeOK, NEW p \in Procs, lru' = lru, model' = model,
           handle' = [handle EXCEPT ![p] = NoEngine]
    PROVE  Cache!LruNext
<1>1. Given' = [Given EXCEPT ![p] = NoEngine]
  BY DEF Given, TypeOK
<1> QED
  BY <1>1 DEF Cache!LruNext, Cache!GiveBack

\* Keeping every handle and lru is no step of it.
LEMMA KeepStutters ==
    ASSUME lru' = lru, model' = model, handle' = handle
    PROVE  UNCHANGED Cache!cacheVars
BY DEF Given, Cache!cacheVars

\* Where no engine thread dies, the pool implements the LRU cache for every
\* number of models and every limit: no interleaving of requests, loads,
\* sweeps and disconnects evicts anything but the least recently requested
\* model, or evicts with room to spare (the code behaviour of ensure_engine
\* and evict_if_needed).
THEOREM LruRefinement == ASSUME MaxDeaths = 0 PROVE Spec => LruOrder
<1>1. Init => Cache!LruInit
  BY DEF Init, Cache!LruInit, Given
<1>2. ASSUME TypeOK, TypeOK', LruExact, Capacity, PoolInv,
             NoHandleYet, [Next]_vars
      PROVE  [Cache!LruNext]_(Cache!cacheVars)
  <2>0. deaths = 0
    BY <1>2 DEF TypeOK
  <2>1. ASSUME NEW p \in Procs, EnsureLoaded(p) PROVE Cache!LruNext
    <3> DEFINE m == model[p]
               t == TouchLru(lru, m)
    <3>1. /\ m \in Models /\ m \in Loaded /\ lru' = t
          /\ lru \in Seq(Models) /\ MaxLoaded \in Nat
      BY <1>2, <2>1, PoolAssumption DEF EnsureLoaded, TypeOK
    <3>2. NoDup(lru) /\ Ids(lru) = Loaded /\ Len(lru) <= MaxLoaded
      BY <1>2, <2>0, LruForm
    <3>3. t \in Seq(Models) /\ Len(t) = Len(lru)
      BY <3>1, <3>2, TouchProps
    <3> HIDE DEF t
    <3>4. Excess(t) = 0 /\ Len(t) \in Nat
      BY <3>1, <3>2, <3>3 DEF Excess
    <3>5. IsSuffix(lru', t, Excess(t))
      BY <3>1, <3>3, <3>4 DEF IsSuffix
    <3>6. Cache!Use(m)
      BY <1>2, <2>0, <3>1, <3>5, UseStep DEF t
    <3>7. engines[m] \in Procs
      BY <1>2, <3>1 DEF TypeOK
    <3> QED
      BY <1>2, <2>1, <3>6, <3>7, GiveServes DEF EnsureLoaded
  <2>2. ASSUME NEW p \in Procs, LoadDone(p) PROVE Cache!LruNext
    <3>1. model[p] \in Models
      BY <1>2 DEF TypeOK
    <3>2. Cache!Use(model[p])
      BY <1>2, <2>0, <2>2, <3>1, LoadDonePool, UseStep
    <3> QED
      BY <1>2, <2>2, <3>2, GiveServes DEF LoadDone
  <2>3. ASSUME NEW p \in Procs, EnsureStep(p), ~EnsureLoaded(p), ~LoadDone(p)
        PROVE  [Cache!LruNext]_(Cache!cacheVars)
    <3>1. lru' = lru /\ model' = model /\ (Refuse(p) \/ handle' = handle)
      BY <2>3 DEF EnsureStep, EnsureRefused, StartLoad, LoadFails, pvars
    <3> QED
      BY <1>2, <3>1, DropGivesBack, KeepStutters DEF Refuse, Answer
  <2>4. ASSUME NEW r \in Reqs, HandlerStep(r) \/ Disconnect(r)
        PROVE  [Cache!LruNext]_(Cache!cacheVars)
    <3>1. lru' = lru /\ model' = model
      BY <2>4 DEF HandlerStep, AcquireParallel, Transcribe, Send, Receive,
                  Disconnect, pvars
    <3>2. handle' = handle \/ handle' = [handle EXCEPT ![r] = NoEngine]
      BY <2>4 DEF HandlerStep, AcquireParallel, Transcribe, Send, Receive,
                  Disconnect, Post, Answer
    <3> QED
      BY <1>2, <3>1, <3>2, DropGivesBack, KeepStutters DEF Procs
  <2>5. ASSUME NEW r \in Reqs, Arrive(r) PROVE UNCHANGED Cache!cacheVars
    <3>1. /\ lru' = lru /\ handle' = handle /\ handle[r] = NoEngine
          /\ \A q \in Procs \ {r} : model'[q] = model[q]
      BY <1>2, <2>5 DEF Arrive, pvars, NoHandleYet, TypeOK, Procs
    <3> QED
      BY <3>1 DEF Given, Cache!cacheVars
  <2>6. ASSUME NEW e \in Procs, EngineStep(e) \/ EngineDies(e)
        PROVE  UNCHANGED Cache!cacheVars
    BY <2>6, KeepStutters
       DEF EngineStep, TakeJob, FinishJob, StopEngine, EngineDies, pvars, hvars
  <2>7. ASSUME WarmReport \/ Tick \/ IdleSweep \/ UNCHANGED vars
        PROVE  UNCHANGED Cache!cacheVars
    BY <2>7, KeepStutters DEF WarmReport, Tick, IdleSweep, pvars, hvars, vars
  <2> QED
    BY <1>2, <2>1, <2>2, <2>3, <2>4, <2>5, <2>6, <2>7 DEF Next
<1>3. Spec => []PoolInv
  BY PoolAlways
<1> QED
  BY <1>1, <1>2, <1>3, NoHandleAlways, TypeCorrect, PoolInStep, PoolBounded, PTL
     DEF Spec, LruOrder, Cache!LruSpec

-----------------------------------------------------------------------------
(* No job is lost, and none runs on another's cells.                       *)

In(r, q) == \E i \in DOMAIN q : q[i] = r

\* r is in q, at one place.
Once(r, q) == In(r, q) /\ \A i, j \in DOMAIN q : q[i] = r /\ q[j] = r => i = j

JobAt(r, e) == running[e] = r \/ In(r, queue[e])

\* Only a thread that runs has jobs.
QueuesLive ==
    \A e \in Procs : estate[e] # "ready" => queue[e] = <<>> /\ running[e] = NoEngine

\* A job belongs to a handler that waits for it at that engine, or to one
\* that has gone; a handler that waits has its job at one place.
JobsOwned ==
    /\ \A r \in Reqs : \A e \in Procs : JobAt(r, e) =>
          \/ pc[r] = "done"
          \/ pc[r] = "sent" /\ handle[r] = e /\ reply[r] = "none"
    /\ \A r \in Reqs : pc[r] = "sent" /\ reply[r] = "none" =>
          \/ running[handle[r]] = r /\ ~In(r, queue[handle[r]])
          \/ running[handle[r]] # r /\ Once(r, queue[handle[r]])
    /\ \A r \in Reqs : pc[r] \notin {"sent", "done"} => reply[r] = "none"

\* An engine in the map or in a handle was loaded for that model.
HandlesServe ==
    /\ \A p \in Procs : handle[p] # NoEngine =>
          estate[handle[p]] \in {"ready", "stopped"} /\ model[handle[p]] = model[p]
    /\ \A m \in Loaded : estate[engines[m]] \in {"ready", "stopped"} /\ model[engines[m]] = m
    /\ \A r \in Reqs : pc[r] \in {"have", "sent"} => handle[r] # NoEngine

\* The `used` flag is up whenever the context holds cells.
CellsFlagged ==
    /\ \A e \in Procs : ~used[e] => kv[e] = {}
    /\ FreshContext

JobInv == QueuesLive /\ JobsOwned /\ HandlesServe /\ CellsFlagged

\* What a send on the channel does to the places of a job.
LEMMA AppendPlaces ==
    ASSUME NEW q \in Seq(Jobs), NEW x \in Jobs, NEW r
    PROVE  /\ In(r, Append(q, x)) <=> In(r, q) \/ r = x
           /\ Once(r, q) /\ r # x => Once(r, Append(q, x))
           /\ ~In(x, q) => Once(x, Append(q, x))
<1> DEFINE a == Append(q, x)
<1>1. /\ a \in Seq(Jobs) /\ Len(a) = Len(q) + 1
      /\ \A i \in 1..Len(q) : a[i] = q[i]
      /\ a[Len(q) + 1] = x
    BY AppendProperties
<1>2. DOMAIN q = 1..Len(q) /\ DOMAIN a = 1..Len(q) + 1 /\ Len(q) \in Nat
    BY <1>1
<1> HIDE DEF a
<1>3. In(r, a) <=> In(r, q) \/ r = x
    BY <1>1, <1>2 DEF In
<1>4. ASSUME Once(r, q), r # x PROVE Once(r, a)
    BY <1>1, <1>2, <1>4 DEF In, Once
<1>5. ASSUME ~In(x, q) PROVE Once(x, a)
    BY <1>1, <1>2, <1>5 DEF In, Once
<1> QED
    BY <1>3, <1>4, <1>5 DEF a

\* What a receive on the channel does to them.
LEMMA TailPlaces ==
    ASSUME NEW q \in Seq(Jobs), q # <<>>, NEW r
    PROVE  /\ Head(q) \in Jobs /\ In(Head(q), q) /\ Tail(q) \in Seq(Jobs)
           /\ In(r, Tail(q)) => In(r, q)
           /\ Once(r, q) /\ r # Head(q) => Once(r, Tail(q))
           /\ Once(r, q) /\ r = Head(q) => ~In(r, Tail(q))
<1> DEFINE t == Tail(q)
<1>1. /\ t \in Seq(Jobs) /\ Len(t) = Len(q) - 1
      /\ \A i \in 1..Len(t) : t[i] = q[i + 1]
      /\ Head(q) = q[1] /\ Len(q) \in Nat \ {0}
    BY HeadTailProperties, EmptySeq
<1>2. DOMAIN q = 1..Len(q) /\ DOMAIN t = 1..Len(q) - 1 /\ q[1] \in Jobs
    BY <1>1
<1> HIDE DEF t
<1>3. In(r, t) => In(r, q)
    BY <1>1, <1>2 DEF In
<1>4. In(Head(q), q)
    BY <1>1, <1>2 DEF In
<1>5. ASSUME Once(r, q), r # Head(q) PROVE Once(r, t)
    <2>1. PICK i \in 1..Len(q) : q[i] = r
        BY <1>2, <1>5 DEF Once, In
    <2>2. i - 1 \in 1..Len(q) - 1 /\ t[i - 1] = r
        BY <1>1, <1>2, <1>5, <2>1
    <2>3. In(r, t)
        BY <1>2, <2>2 DEF In
    <2> QED
        BY <1>1, <1>2, <1>5, <2>3 DEF Once
<1>6. ASSUME Once(r, q), r = Head(q) PROVE ~In(r, t)
    BY <1>1, <1>2, <1>6 DEF Once, In
<1> QED
    BY <1>1, <1>2, <1>3, <1>4, <1>5, <1>6 DEF t

\* JobInv says where the jobs of the handlers that wait are.
LEMMA JobInvAccounts == TypeOK /\ JobInv => JobsAccounted /\ FreshContext
<1> SUFFICES ASSUME TypeOK, JobInv, NEW r \in Reqs, pc[r] = "sent", reply[r] = "none"
             PROVE  LET e == handle[r]
                        at == {i \in DOMAIN queue[e] : queue[e][i] = r}
                    IN  /\ e \in Procs /\ estate[e] = "ready" /\ model[e] = model[r]
                        /\ \/ running[e] = r /\ at = {}
                           \/ running[e] # r /\ Cardinality(at) = 1
    BY DEF JobsAccounted, JobInv, CellsFlagged
<1> DEFINE e == handle[r]
           at == {i \in DOMAIN queue[e] : queue[e][i] = r}
<1>0. r \in Procs /\ r # NoEngine
    BY PoolAssumption DEF Procs
<1>1. e \in Procs /\ model[e] = model[r]
    BY <1>0 DEF TypeOK, JobInv, HandlesServe
<1>2. \/ running[e] = r /\ ~In(r, queue[e])
      \/ running[e] # r /\ Once(r, queue[e])
    BY DEF JobInv, JobsOwned
<1>3. estate[e] = "ready"
    <2> SUFFICES ASSUME estate[e] # "ready" PROVE FALSE
        OBVIOUS
    <2>1. queue[e] = <<>> /\ running[e] = NoEngine
        BY <1>1 DEF JobInv, QueuesLive
    <2> QED
        BY <1>0, <1>2, <2>1 DEF Once, In
<1>4. CASE running[e] = r /\ ~In(r, queue[e])
    BY <1>1, <1>3, <1>4 DEF In
<1>5. CASE running[e] # r /\ Once(r, queue[e])
    <2>1. PICK i \in DOMAIN queue[e] : queue[e][i] = r
        BY <1>5 DEF Once, In
    <2>2. at = {i}
        BY <1>5, <2>1 DEF Once
    <2> QED
        BY <1>1, <1>3, <1>5, <2>2, FS_Singleton
<1> QED
    BY <1>2, <1>4, <1>5

\* A step of one process outside the channels: it does not begin to wait, and
\* one that has a job out ends.
LEMMA ProcJobs ==
    ASSUME TypeOK, QueuesLive, JobsOwned, CellsFlagged, NEW p \in Procs,
           UNCHANGED <<queue, running, used, kv>>,
           \A q \in Procs \ {p} : /\ pc'[q] = pc[q] /\ handle'[q] = handle[q]
                                  /\ reply'[q] = reply[q] /\ kind'[q] = kind[q]
                                  /\ estate'[q] = estate[q],
           kind'[p] = kind[p] \/ pc[p] = "new",
           estate[p] = "ready" => estate'[p] = "ready",
           pc'[p] # "sent",
           pc[p] \in {"sent", "done"} => pc'[p] = "done",
           p \in Reqs /\ pc'[p] # "done" => reply'[p] = "none"
    PROVE  QueuesLive' /\ JobsOwned' /\ CellsFlagged'
<1>0. Reqs \subseteq Procs
    BY DEF Procs
<1>1. QueuesLive'
    BY DEF QueuesLive
<1>2. \A r \in Reqs : \A e \in Procs : JobAt(r, e)' <=> JobAt(r, e)
    BY DEF JobAt, In
<1>3. JobsOwned'
    <2>1. \A r \in Reqs : \A e \in Procs : JobAt(r, e)' =>
             \/ pc'[r] = "done"
             \/ pc'[r] = "sent" /\ handle'[r] = e /\ reply'[r] = "none"
        BY <1>0, <1>2 DEF JobsOwned
    <2>2. \A r \in Reqs : pc'[r] = "sent" /\ reply'[r] = "none" =>
              \/ running'[handle'[r]] = r /\ ~In(r, queue'[handle'[r]])
              \/ running'[handle'[r]] # r /\ Once(r, queue'[handle'[r]])
        BY <1>0 DEF JobsOwned
    <2>3. \A r \in Reqs : pc'[r] \notin {"sent", "done"} => reply'[r] = "none"
        BY <1>0 DEF JobsOwned
    <2> QED
        BY <2>1, <2>2, <2>3 DEF JobsOwned, In, Once
<1>4. CellsFlagged'
    <2>1. ASSUME NEW e \in Procs, running[e] \in Reqs, kind'[running[e]] = "chat"
          PROVE  kv'[e] = {running[e]}
        <3>1. pc[running[e]] # "new"
            BY <2>1 DEF JobsOwned, JobAt
        <3>2. kind[running[e]] = "chat"
            BY <1>0, <2>1, <3>1
        <3> QED
            BY <2>1, <3>2 DEF CellsFlagged, FreshContext
    <2> QED
        BY <2>1 DEF CellsFlagged, FreshContext
<1> QED
    BY <1>1, <1>3, <1>4

\* A step of one process that may take or drop a handle and enter its own
\* engine in the map.
LEMMA ProcHandles ==
    ASSUME TypeOK, TypeOK', HandlesServe, NEW p \in Procs,
           UNCHANGED model,
           \A q \in Procs \ {p} : pc'[q] = pc[q] /\ handle'[q] = handle[q],
           \A e \in Procs : estate[e] \in {"ready", "stopped"} => estate'[e] \in {"ready", "stopped"},
           \/ handle'[p] \in {NoEngine, handle[p]}
           \/ estate'[handle'[p]] \in {"ready", "stopped"} /\ model[handle'[p]] = model[p],
           \A m \in DOMAIN engines' : \/ m \in Loaded /\ engines'[m] = engines[m]
                                      \/ engines'[m] = p /\ model[p] = m /\ estate'[p] = "ready",
           p \in Reqs /\ pc'[p] \in {"have", "sent"} => handle'[p] # NoEngine
    PROVE  HandlesServe'
<1>0. Reqs \subseteq Procs
    BY DEF Procs
<1>1. ASSUME NEW q \in Procs, handle'[q] # NoEngine
      PROVE  estate'[handle'[q]] \in {"ready", "stopped"} /\ model'[handle'[q]] = model'[q]
    <2>1. handle \in [Procs -> Procs \cup {NoEngine}]
        BY DEF TypeOK
    <2>2. handle[q] # NoEngine =>
              /\ estate[handle[q]] \in {"ready", "stopped"} /\ model[handle[q]] = model[q]
              /\ estate'[handle[q]] \in {"ready", "stopped"}
        BY <2>1 DEF HandlesServe
    <2> QED
        BY <1>1, <2>2
<1>2. ASSUME NEW m \in DOMAIN engines'
      PROVE  estate'[engines'[m]] \in {"ready", "stopped"} /\ model'[engines'[m]] = m
    <2>1. engines \in [Loaded -> Procs]
        BY DEF TypeOK
    <2>2. m \in Loaded =>
              /\ estate'[engines[m]] \in {"ready", "stopped"} /\ model[engines[m]] = m
        BY <2>1 DEF HandlesServe
    <2> QED
        BY <1>2, <2>2
<1>3. \A r \in Reqs : pc'[r] \in {"have", "sent"} => handle'[r] # NoEngine
    BY <1>0 DEF HandlesServe
<1> QED
    BY <1>1, <1>2, <1>3 DEF HandlesServe, Loaded

\* The moves of a process that ends, takes an engine or is refused.
LEMMA EndsMove ==
    ASSUME TypeOK, NEW p \in Procs, NEW out, Answer(p, out)
    PROVE  /\ pc'[p] = "done" /\ handle'[p] = NoEngine
           /\ \A q \in Procs \ {p} : pc'[q] = pc[q] /\ handle'[q] = handle[q]
BY DEF TypeOK, Answer

\* A load that fails: a request ends, the warm-up goes on.
LEMMA RefusedMove ==
    ASSUME TypeOK, JobsOwned, NEW p \in Procs, pc[p] \in {"ensure", "loading"}, Refuse(p)
    PROVE  /\ pc'[p] \in {"have", "done"} /\ handle'[p] \in {NoEngine, handle[p]}
           /\ p \in Reqs => pc'[p] = "done"
           /\ \A q \in Procs \ {p} : /\ pc'[q] = pc[q] /\ handle'[q] = handle[q]
                                     /\ reply'[q] = reply[q]
<1>1. CASE p = Warm
    BY <1>1, PoolAssumption DEF TypeOK, Refuse
<1>2. CASE p # Warm
    BY <1>2, EndsMove DEF TypeOK, Refuse
<1> QED
    BY <1>1, <1>2

\* A process that ensure_engine hands an engine to.
LEMMA GivenMove ==
    ASSUME TypeOK, JobsOwned, NEW p \in Procs, NEW e \in Procs, Give(p, e),
           pc[p] \in {"ensure", "loading"}
    PROVE  /\ pc'[p] \in {"have", "done"} /\ handle'[p] \in {NoEngine, e}
           /\ p \in Reqs => reply'[p] = "none"
           /\ p \in Reqs /\ pc'[p] = "have" => handle'[p] = e
           /\ \A q \in Procs \ {p} : /\ pc'[q] = pc[q] /\ handle'[q] = handle[q]
                                     /\ reply'[q] = reply[q]
<1>1. /\ DOMAIN pc = Procs /\ DOMAIN handle = Procs /\ DOMAIN reply = Procs
      /\ Warm \notin Reqs
    BY PoolAssumption DEF TypeOK
<1>2. p \in Reqs => reply[p] = "none"
    BY DEF JobsOwned
<1>3. /\ pc'[p] = IF p \in gone THEN "done" ELSE "have"
      /\ handle'[p] = IF p \in gone \cup {Warm} THEN NoEngine ELSE e
      /\ reply'[p] = IF p = Warm THEN "ok" ELSE reply[p]
      /\ \A q \in Procs \ {p} : /\ pc'[q] = pc[q] /\ handle'[q] = handle[q]
                                /\ reply'[q] = reply[q]
    BY <1>1 DEF Give
<1> QED
    BY <1>1, <1>2, <1>3

\* The steps of the handlers and of ensure_engine outside the channels.
LEMMA OutsideStep ==
    ASSUME TypeOK, TypeOK', LoaderState, NoHandleYet, JobInv, NEW p \in Procs,
           \/ p \in Reqs /\ (Arrive(p) \/ AcquireParallel(p) \/ Transcribe(p) \/ Disconnect(p))
           \/ EnsureStep(p)
           \/ p = Warm /\ WarmReport
    PROVE  JobInv'
<1> USE DEF JobInv
<1>0. /\ Reqs \subseteq Procs /\ Warm \notin Reqs
      /\ NoEngine \notin Procs
      /\ pc \in [Procs -> {"new", "waiting", "asr", "ensure", "loading", "have", "sent", "done"}]
      /\ handle \in [Procs -> Procs \cup {NoEngine}]
      /\ DOMAIN estate = Procs /\ DOMAIN reply = Procs
      /\ model \in [Procs -> Models] /\ DOMAIN kind = Procs
      /\ engines \in [Loaded -> Procs]
    BY PoolAssumption DEF TypeOK, Procs
<1>1. CASE p \in Reqs /\ Arrive(p)
    <2>1. /\ pc[p] = "new" /\ pc'[p] = "waiting"
          /\ \A q \in Procs \ {p} : pc'[q] = pc[q] /\ kind'[q] = kind[q] /\ model'[q] = model[q]
          /\ UNCHANGED <<handle, reply, engines, estate, queue, running, used, kv>>
        BY <1>0, <1>1 DEF Arrive, pvars, evars
    <2>2. QueuesLive' /\ JobsOwned' /\ CellsFlagged'
        <3>1. reply'[p] = "none"
            BY <1>1, <2>1 DEF JobsOwned
        <3> QED
            BY <2>1, <3>1, ProcJobs
    <2>3. estate[p] = "none" /\ handle[p] = NoEngine
        BY <2>1 DEF LoaderState, NoHandleYet
    <2>4. HandlesServe'
        <3>1. ASSUME NEW q \in Procs, handle'[q] # NoEngine
              PROVE  estate'[handle'[q]] \in {"ready", "stopped"} /\ model'[handle'[q]] = model'[q]
            <4>1. handle[q] \in Procs /\ handle[q] # p /\ q # p
                BY <1>0, <2>1, <2>3, <3>1 DEF HandlesServe
            <4> QED
                BY <2>1, <4>1, <3>1 DEF HandlesServe
        <3>2. ASSUME NEW m \in DOMAIN engines'
              PROVE  estate'[engines'[m]] \in {"ready", "stopped"} /\ model'[engines'[m]] = m
            <4>1. m \in Loaded /\ engines[m] \in Procs
                BY <1>0, <2>1, <3>2 DEF Loaded
            <4>2. engines[m] # p
                BY <4>1, <2>3 DEF HandlesServe
            <4> QED
                BY <2>1, <4>1, <4>2 DEF HandlesServe
        <3>3. \A r \in Reqs : pc'[r] \in {"have", "sent"} => handle'[r] # NoEngine
            BY <1>0, <2>1 DEF HandlesServe
        <3> QED
            BY <3>1, <3>2, <3>3 DEF HandlesServe, Loaded
    <2> QED
        BY <2>2, <2>4
<1>2. CASE p \in Reqs /\ (AcquireParallel(p) \/ Transcribe(p) \/ Disconnect(p))
    <2>1. /\ UNCHANGED <<model, kind, reply, engines, estate, queue, running, used, kv>>
          /\ \A q \in Procs \ {p} : pc'[q] = pc[q] /\ handle'[q] = handle[q]
          /\ \/ pc'[p] = "done" /\ handle'[p] = NoEngine
             \/ pc[p] \notin {"sent", "done", "have"} /\ pc'[p] \in {"asr", "ensure", "loading"}
                 /\ handle'[p] \in {NoEngine, handle[p]}
        <3>1. CASE AcquireParallel(p)
            BY <1>0, <3>1, EndsMove DEF AcquireParallel, pvars, evars
        <3>2. CASE Transcribe(p)
            BY <1>0, <3>2, EndsMove DEF Transcribe, pvars, evars
        <3>3. CASE Disconnect(p)
            BY <1>0, <3>3 DEF Disconnect, pvars, evars
        <3> QED
            BY <1>2, <3>1, <3>2, <3>3
    <2>2. QueuesLive' /\ JobsOwned' /\ CellsFlagged'
        <3>1. p \in Reqs /\ pc'[p] # "done" => reply'[p] = "none"
            BY <2>1, <1>0 DEF JobsOwned
        <3> QED
            BY <2>1, <3>1, ProcJobs
    <2>3. HandlesServe'
        BY <2>1, ProcHandles DEF Loaded
    <2> QED
        BY <2>2, <2>3
<1>3. CASE EnsureLoaded(p)
    <2>1. /\ pc[p] = "ensure" /\ model[p] \in Loaded /\ Give(p, engines[model[p]])
          /\ UNCHANGED <<model, kind, engines, estate, queue, running, used, kv>>
        BY <1>3 DEF EnsureLoaded, evars
    <2> DEFINE e == engines[model[p]]
    <2>2. e \in Procs /\ estate[e] \in {"ready", "stopped"} /\ model[e] = model[p]
        BY <1>0, <2>1 DEF HandlesServe
    <2> HIDE DEF e
    <2>3. /\ pc'[p] \in {"have", "done"} /\ handle'[p] \in {NoEngine, e}
          /\ p \in Reqs => reply'[p] = "none"
          /\ p \in Reqs /\ pc'[p] = "have" => handle'[p] = e
          /\ \A q \in Procs \ {p} : /\ pc'[q] = pc[q] /\ handle'[q] = handle[q]
                                    /\ reply'[q] = reply[q]
        BY <2>1, <2>2, GivenMove DEF e
    <2>4. QueuesLive' /\ JobsOwned' /\ CellsFlagged'
        BY <2>1, <2>3, ProcJobs
    <2>5. HandlesServe'
        BY <1>0, <2>1, <2>2, <2>3, ProcHandles DEF Loaded
    <2> QED
        BY <2>4, <2>5
<1>4. CASE EnsureRefused(p) \/ LoadFails(p)
    <2>1. /\ pc[p] \in {"ensure", "loading"} /\ Refuse(p)
          /\ UNCHANGED <<model, kind, engines, queue, running, used, kv>>
          /\ \A e \in Procs : \/ estate'[e] = estate[e]
                              \/ e = p /\ pc[p] = "loading" /\ estate'[e] = "stopped"
        <3>1. CASE EnsureRefused(p)
            BY <3>1 DEF EnsureRefused, evars, pvars
        <3>2. CASE LoadFails(p)
            BY <1>0, <3>2 DEF LoadFails, pvars
        <3> QED
            BY <1>4, <3>1, <3>2
    <2>2. /\ pc'[p] \in {"have", "done"} /\ handle'[p] \in {NoEngine, handle[p]}
          /\ p \in Reqs => pc'[p] = "done"
          /\ \A q \in Procs \ {p} : /\ pc'[q] = pc[q] /\ handle'[q] = handle[q]
                                    /\ reply'[q] = reply[q]
        BY <2>1, RefusedMove
    <2>3. pc[p] = "loading" => estate[p] = "loading"
        BY DEF LoaderState
    <2>4. QueuesLive' /\ JobsOwned' /\ CellsFlagged'
        BY <2>1, <2>2, <2>3, ProcJobs
    <2>5. HandlesServe'
        BY <1>0, <2>1, <2>2, <2>3, ProcHandles DEF Loaded
    <2> QED
        BY <2>4, <2>5
<1>5. CASE StartLoad(p)
    <2>1. /\ pc[p] = "ensure" /\ pc'[p] = "loading"
          /\ UNCHANGED <<model, kind, handle, reply, engines, queue, running, used, kv>>
          /\ \A q \in Procs \ {p} : pc'[q] = pc[q] /\ estate'[q] = estate[q]
        BY <1>0, <1>5 DEF StartLoad, pvars
    <2>2. estate[p] = "none" /\ (p \in Reqs => reply[p] = "none")
        BY <2>1 DEF LoaderState, JobsOwned
    <2>3. QueuesLive' /\ JobsOwned' /\ CellsFlagged'
        BY <2>1, <2>2, ProcJobs
    <2>4. HandlesServe'
        BY <1>0, <2>1, <2>2, ProcHandles DEF Loaded
    <2> QED
        BY <2>3, <2>4
<1>6. CASE LoadDone(p)
    <2>1. /\ pc[p] = "loading" /\ Give(p, p) /\ estate'[p] = "ready"
          /\ UNCHANGED <<model, kind, queue, running, used, kv>>
          /\ \A q \in Procs \ {p} : estate'[q] = estate[q]
        BY <1>0, <1>6 DEF LoadDone
    <2>2. /\ pc'[p] \in {"have", "done"} /\ handle'[p] \in {NoEngine, p}
          /\ p \in Reqs => reply'[p] = "none"
          /\ p \in Reqs /\ pc'[p] = "have" => handle'[p] = p
          /\ \A q \in Procs \ {p} : /\ pc'[q] = pc[q] /\ handle'[q] = handle[q]
                                    /\ reply'[q] = reply[q]
        BY <2>1, GivenMove
    <2>3. QueuesLive' /\ JobsOwned' /\ CellsFlagged'
        BY <2>1, <2>2, ProcJobs
    <2>4. \A m \in DOMAIN engines' : \/ m \in Loaded /\ engines'[m] = engines[m]
                                     \/ engines'[m] = p /\ model[p] = m /\ estate'[p] = "ready"
        BY <1>6, <2>1 DEF LoadDone, Put, Drop, Loaded
    <2>5. HandlesServe'
        BY <1>0, <2>1, <2>2, <2>4, ProcHandles
    <2> QED
        BY <2>3, <2>5
<1>7. CASE p = Warm /\ WarmReport
    <2>1. /\ pc[p] = "have" /\ pc'[p] = "done"
          /\ UNCHANGED <<model, kind, handle, reply, engines, estate, queue, running, used, kv>>
          /\ \A q \in Procs \ {p} : pc'[q] = pc[q]
        BY <1>0, <1>7 DEF WarmReport, pvars, evars
    <2>2. QueuesLive' /\ JobsOwned' /\ CellsFlagged'
        BY <2>1, ProcJobs
    <2>3. HandlesServe'
        BY <2>1, ProcHandles DEF Loaded
    <2> QED
        BY <2>2, <2>3
<1> QED
    BY <1>1, <1>2, <1>3, <1>4, <1>5, <1>6, <1>7 DEF EnsureStep

\* A handler without a job out sends one, or finds the receiver gone.
LEMMA PostStep ==
    ASSUME TypeOK, TypeOK', JobInv, NEW r \in Reqs, pc[r] \in {"have", "sent"},
           \A e \in Procs : ~JobAt(r, e),
           Post(r), reply'[r] = "none", \A q \in Procs \ {r} : reply'[q] = reply[q],
           UNCHANGED <<model, kind, engines, estate, running, used, kv>>
    PROVE  JobInv'
<1> USE DEF JobInv
<1>0. /\ Reqs \subseteq Procs /\ r \in Jobs /\ NoEngine \notin Procs
      /\ DOMAIN pc = Procs /\ queue \in [Procs -> Seq(Jobs)]
      /\ handle \in [Procs -> Procs \cup {NoEngine}]
    BY PoolAssumption DEF TypeOK, Procs, Jobs
<1> DEFINE h == handle[r]
<1>1. h \in Procs
    BY <1>0 DEF HandlesServe
<1>2. CASE estate[h] = "ready"
    <2>1. /\ pc'[r] = "sent" /\ \A q \in Procs \ {r} : pc'[q] = pc[q]
          /\ handle' = handle
          /\ queue'[h] = Append(queue[h], r) /\ \A e \in Procs \ {h} : queue'[e] = queue[e]
        BY <1>0, <1>1, <1>2 DEF Post
    <2> HIDE DEF h
    <2>2. queue[h] \in Seq(Jobs)
        BY <1>0, <1>1
    <2>3. \A s : In(s, queue'[h]) <=> In(s, queue[h]) \/ s = r
        BY <1>0, <2>1, <2>2, AppendPlaces
    <2>4. \A s : Once(s, queue[h]) /\ s # r => Once(s, queue'[h])
        BY <1>0, <2>1, <2>2, AppendPlaces
    <2>5. Once(r, queue'[h]) /\ running[h] # r
        <3>1. ~In(r, queue[h]) /\ running[h] # r
            BY <1>1 DEF JobAt
        <3> QED
            BY <1>0, <2>1, <2>2, <3>1, AppendPlaces
    <2>6. QueuesLive'
        BY <1>2, <2>1 DEF QueuesLive
    <2>7. ASSUME NEW s \in Reqs, NEW e \in Procs, JobAt(s, e)'
          PROVE  \/ pc'[s] = "done"
                 \/ pc'[s] = "sent" /\ handle'[s] = e /\ reply'[s] = "none"
        <3>0. running'[e] = s \/ In(s, queue'[e])
            BY <2>7 DEF JobAt, In
        <3>1. CASE s = r
            <4>1. e = h
                BY <2>1, <3>0, <3>1 DEF JobAt
            <4> QED
                BY <2>1, <3>1, <4>1 DEF h
        <3>2. CASE s # r
            <4>1. JobAt(s, e)
                BY <2>1, <2>3, <3>0, <3>2 DEF JobAt
            <4> QED
                BY <1>0, <2>1, <3>2, <4>1 DEF JobsOwned
        <3> QED
            BY <3>1, <3>2
    <2>8. ASSUME NEW s \in Reqs, pc'[s] = "sent", reply'[s] = "none"
          PROVE  \/ running'[handle'[s]] = s /\ ~In(s, queue'[handle'[s]])
                 \/ running'[handle'[s]] # s /\ Once(s, queue'[handle'[s]])
        <3>1. CASE s = r
            BY <2>1, <2>5, <3>1 DEF h
        <3>2. CASE s # r
            <4>1. \/ running[handle[s]] = s /\ ~In(s, queue[handle[s]])
                  \/ running[handle[s]] # s /\ Once(s, queue[handle[s]])
                BY <1>0, <2>1, <2>8, <3>2 DEF JobsOwned
            <4>2. handle[s] \in Procs
                BY <1>0, <2>1, <2>8, <3>2 DEF HandlesServe
            <4> QED
                BY <2>1, <2>3, <2>4, <3>2, <4>1, <4>2
        <3> QED
            BY <3>1, <3>2
    <2>9. \A s \in Reqs : pc'[s] \notin {"sent", "done"} => reply'[s] = "none"
        BY <1>0, <2>1 DEF JobsOwned
    <2>10. JobsOwned'
        BY <2>7, <2>8, <2>9 DEF JobsOwned, In, Once
    <2>11. HandlesServe' /\ CellsFlagged'
        BY <1>0, <1>1, <2>1 DEF HandlesServe, CellsFlagged, FreshContext, Loaded, h
    <2> QED
        BY <2>6, <2>10, <2>11
<1>3. CASE estate[h] # "ready"
    <2>1. Answer(r, "error") /\ UNCHANGED queue
        BY <1>3 DEF Post
    <2>2. /\ pc'[r] = "done" /\ handle'[r] = NoEngine
          /\ \A q \in Procs \ {r} : pc'[q] = pc[q] /\ handle'[q] = handle[q]
        BY <1>0, <2>1, EndsMove
    <2>3. QueuesLive' /\ JobsOwned' /\ CellsFlagged'
        BY <1>0, <2>1, <2>2, ProcJobs
    <2>4. HandlesServe'
        BY <1>0, <2>2, ProcHandles DEF Loaded
    <2> QED
        BY <2>3, <2>4
<1> QED
    BY <1>2, <1>3

\* generate_events and embed_vector.
LEMMA ChannelStep ==
    ASSUME TypeOK, TypeOK', JobInv, NEW r \in Reqs, Send(r) \/ Receive(r)
    PROVE  JobInv'
<1> USE DEF JobInv
<1>0. r \in Procs /\ DOMAIN reply = Procs
    BY DEF TypeOK, Procs
<1>1. CASE Send(r)
    <2>1. pc[r] = "have" /\ reply[r] = "none" /\ \A e \in Procs : ~JobAt(r, e)
        BY <1>1 DEF Send, JobsOwned
    <2>2. Post(r) /\ UNCHANGED <<model, kind, reply, engines, estate, running, used, kv>>
        BY <1>1 DEF Send, pvars
    <2> QED
        BY <2>1, <2>2, PostStep
<1>2. CASE Receive(r)
    <2>1. /\ pc[r] = "sent" /\ reply'[r] = "none" /\ \A e \in Procs : ~JobAt(r, e)
          /\ \A q \in Procs \ {r} : reply'[q] = reply[q]
        BY <1>0, <1>2 DEF Receive, JobsOwned
    <2>2. UNCHANGED <<model, kind, engines, estate, running, used, kv>>
        BY <1>2 DEF Receive, pvars
    <2>3. CASE Post(r)
        BY <2>1, <2>2, <2>3, PostStep
    <2>4. CASE UNCHANGED queue /\ \E out : Answer(r, out)
        <3>1. /\ pc'[r] = "done" /\ handle'[r] = NoEngine
              /\ \A q \in Procs \ {r} : pc'[q] = pc[q] /\ handle'[q] = handle[q]
            BY <1>0, <2>4, EndsMove
        <3>2. QueuesLive' /\ JobsOwned' /\ CellsFlagged'
            BY <1>0, <2>1, <2>2, <2>4, <3>1, ProcJobs
        <3>3. HandlesServe'
            BY <1>0, <2>2, <3>1, ProcHandles DEF Loaded
        <3> QED
            BY <3>2, <3>3
    <2> QED
        BY <1>2, <2>3, <2>4 DEF Receive
<1> QED
    BY <1>1, <1>2

\* The engine threads and the sweep, which change no handle.
LEMMA HandlesKept ==
    ASSUME TypeOK, HandlesServe, UNCHANGED <<pc, model, handle>>,
           \A e \in Procs : estate'[e] = estate[e] \/ estate'[e] = "stopped",
           \A m \in DOMAIN engines' : m \in Loaded /\ engines'[m] = engines[m]
    PROVE  HandlesServe'
<1>1. handle \in [Procs -> Procs \cup {NoEngine}] /\ engines \in [Loaded -> Procs]
    BY DEF TypeOK
<1> QED
    BY <1>1 DEF HandlesServe, Loaded

\* What an engine thread does, its death included.
LEMMA EngineJobs ==
    ASSUME TypeOK, TypeOK', JobInv, NEW e \in Procs, EngineStep(e) \/ EngineDies(e)
    PROVE  JobInv'
<1> USE DEF JobInv
<1>0. /\ Reqs \subseteq Procs /\ NoEngine \notin Reqs /\ Idle \notin Reqs
      /\ queue \in [Procs -> Seq(Jobs)] /\ DOMAIN running = Procs
      /\ DOMAIN estate = Procs /\ DOMAIN used = Procs /\ kv \in [Procs -> SUBSET Reqs]
      /\ DOMAIN reply = Procs
      /\ used \in [Procs -> BOOLEAN]
    BY PoolAssumption DEF TypeOK, Procs
<1>1. CASE TakeJob(e)
    <2> DEFINE q == queue[e]
               j == Head(queue[e])
    <2>1. /\ q # <<>> /\ running[e] = NoEngine /\ estate[e] = "ready"
          /\ running'[e] = j /\ queue'[e] = Tail(q)
          /\ \A x \in Procs \ {e} : running'[x] = running[x] /\ queue'[x] = queue[x]
          /\ UNCHANGED <<pc, model, kind, handle, reply, engines, estate>>
        BY <1>0, <1>1 DEF TakeJob, hvars, pvars
    <2>2. \A x \in Procs \ {e} : kv'[x] = kv[x] /\ used'[x] = used[x]
        BY <1>0, <1>1 DEF TakeJob
    <2>3. \/ j \in Reqs /\ kind[j] = "chat" /\ used'[e] /\ kv'[e] = {j}
          \/ ~(j \in Reqs /\ kind[j] = "chat") /\ kv'[e] = kv[e] /\ used'[e] = used[e]
        <3>1. CASE j \in Reqs /\ kind[j] = "chat"
            <4>1. kv'[e] = (IF used[e] THEN {} ELSE kv[e]) \cup {j} /\ used'[e]
                BY <1>0, <1>1, <3>1 DEF TakeJob
            <4> QED
                BY <3>1, <4>1 DEF CellsFlagged
        <3>2. CASE ~(j \in Reqs /\ kind[j] = "chat")
            BY <1>0, <1>1, <3>2 DEF TakeJob
        <3> QED
            BY <3>1, <3>2
    <2> HIDE DEF j
    <2>4. q \in Seq(Jobs)
        BY <1>0
    <2>5. /\ In(j, q)
          /\ \A s : In(s, Tail(q)) => In(s, q)
          /\ \A s : Once(s, q) /\ s # j => Once(s, Tail(q))
          /\ \A s : Once(s, q) /\ s = j => ~In(s, Tail(q))
        BY <2>1, <2>4, TailPlaces DEF j
    <2> HIDE DEF q
    <2>6. QueuesLive'
        BY <2>1 DEF QueuesLive
    <2>7. ASSUME NEW s \in Reqs, NEW x \in Procs, JobAt(s, x)' PROVE JobAt(s, x)
        <3>1. running'[x] = s \/ In(s, queue'[x])
            BY <2>7 DEF JobAt, In
        <3> QED
            BY <2>1, <2>5, <3>1 DEF JobAt, q
    <2>8. ASSUME NEW s \in Reqs, pc'[s] = "sent", reply'[s] = "none"
          PROVE  \/ running'[handle'[s]] = s /\ ~In(s, queue'[handle'[s]])
                 \/ running'[handle'[s]] # s /\ Once(s, queue'[handle'[s]])
        <3>0. pc[s] = "sent" /\ reply[s] = "none" /\ handle'[s] = handle[s]
            BY <2>1, <2>8
        <3>1. \/ running[handle[s]] = s /\ ~In(s, queue[handle[s]])
              \/ running[handle[s]] # s /\ Once(s, queue[handle[s]])
            BY <3>0 DEF JobsOwned
        <3>2. handle[s] \in Procs
            BY <1>0, <3>0 DEF HandlesServe, TypeOK
        <3> QED
            BY <1>0, <2>1, <2>5, <3>0, <3>1, <3>2 DEF q
    <2>9. JobsOwned'
        <3>1. ASSUME NEW s \in Reqs, NEW x \in Procs, JobAt(s, x)'
              PROVE  \/ pc'[s] = "done"
                     \/ pc'[s] = "sent" /\ handle'[s] = x /\ reply'[s] = "none"
            BY <2>1, <2>7, <3>1 DEF JobsOwned
        <3>2. \A s \in Reqs : pc'[s] \notin {"sent", "done"} => reply'[s] = "none"
            BY <2>1 DEF JobsOwned
        <3> QED
            BY <2>8, <3>1, <3>2 DEF JobsOwned, In, Once
    <2>10. CellsFlagged'
        BY <1>0, <2>1, <2>2, <2>3 DEF CellsFlagged, FreshContext
    <2>11. HandlesServe'
        BY <2>1, HandlesKept DEF Loaded
    <2> QED
        BY <2>6, <2>9, <2>10, <2>11
<1>2. CASE FinishJob(e)
    <2> SUFFICES ASSUME NEW j, j = running[e] PROVE JobInv'
        OBVIOUS
    <2>1. /\ j # NoEngine /\ running'[e] = NoEngine
          /\ \A x \in Procs \ {e} : running'[x] = running[x]
          /\ UNCHANGED <<pc, model, kind, handle, engines, estate, queue, used, kv>>
        BY <1>0, <1>2 DEF FinishJob, pvars
    <2>10. /\ j \in Reqs /\ pc[j] = "sent" => reply'[j] # "none"
           /\ \A s \in Reqs : s # j \/ pc[s] # "sent" => reply'[s] = reply[s]
        <3>1. CASE j \in Reqs /\ pc[j] = "sent"
            BY <1>0, <1>2, <3>1 DEF FinishJob
        <3>2. CASE ~(j \in Reqs /\ pc[j] = "sent")
            BY <1>0, <1>2, <3>2 DEF FinishJob
        <3> QED
            BY <3>1, <3>2
    <2>2. QueuesLive'
        BY <2>1 DEF QueuesLive
    <2>3. \A s \in Reqs : \A x \in Procs : JobAt(s, x)' => JobAt(s, x)
        BY <1>0, <2>1 DEF JobAt, In
    <2>4. ASSUME j \in Reqs, pc[j] = "sent", NEW x \in Procs PROVE ~JobAt(j, x)'
        <3>1. JobAt(j, e)
            BY DEF JobAt
        <3>2. handle[j] = e /\ reply[j] = "none"
            BY <2>4, <3>1 DEF JobsOwned
        <3>3. ~In(j, queue[e])
            BY <2>4, <3>2 DEF JobsOwned
        <3>4. x # e => ~JobAt(j, x)
            BY <2>4, <3>2 DEF JobsOwned
        <3> QED
            BY <1>0, <2>1, <2>4, <3>3, <3>4 DEF JobAt, In
    <2>5. ASSUME NEW s \in Reqs, NEW x \in Procs, JobAt(s, x)'
          PROVE  \/ pc[s] = "done"
                 \/ pc[s] = "sent" /\ handle[s] = x /\ reply'[s] = "none"
        <3>1. JobAt(s, x)
            BY <2>3, <2>5
        <3>2. s # j \/ pc[s] # "sent"
            BY <2>4, <2>5
        <3> QED
            BY <2>10, <3>1, <3>2 DEF JobsOwned
    <2>6. ASSUME NEW s \in Reqs, pc[s] = "sent", reply'[s] = "none"
          PROVE  \/ running'[handle[s]] = s /\ ~In(s, queue[handle[s]])
                 \/ running'[handle[s]] # s /\ Once(s, queue[handle[s]])
        <3>1. s # j /\ reply[s] = "none"
            BY <2>6, <2>10
        <3>2. handle[s] \in Procs
            BY <1>0, <2>6 DEF HandlesServe, TypeOK
        <3>3. \/ running[handle[s]] = s /\ ~In(s, queue[handle[s]])
              \/ running[handle[s]] # s /\ Once(s, queue[handle[s]])
            BY <2>6, <3>1 DEF JobsOwned
        <3> QED
            BY <1>0, <2>1, <3>1, <3>2, <3>3
    <2>7. JobsOwned'
        <3>1. \A s \in Reqs : pc'[s] \notin {"sent", "done"} => reply'[s] = "none"
            BY <2>1, <2>10 DEF JobsOwned
        <3> QED
            BY <2>1, <2>5, <2>6, <3>1 DEF JobsOwned, In, Once
    <2>8. CellsFlagged'
        BY <1>0, <2>1 DEF CellsFlagged, FreshContext
    <2>9. HandlesServe'
        BY <2>1, HandlesKept DEF Loaded
    <2> QED
        BY <2>2, <2>7, <2>8, <2>9
<1>3. CASE StopEngine(e)
    <2>1. /\ running[e] = NoEngine /\ queue[e] = <<>>
          /\ UNCHANGED <<pc, model, kind, handle, reply, engines, queue, running>>
          /\ estate'[e] = "stopped" /\ \A x \in Procs \ {e} : estate'[x] = estate[x]
          /\ kv'[e] = {} /\ \A x \in Procs \ {e} : kv'[x] = kv[x] /\ used'[x] = used[x]
        BY <1>0, <1>3 DEF StopEngine, hvars, pvars
    <2>2. QueuesLive'
        BY <2>1 DEF QueuesLive
    <2>3. JobsOwned'
        BY <2>1 DEF JobsOwned, JobAt, In, Once
    <2>4. CellsFlagged'
        BY <1>0, <2>1 DEF CellsFlagged, FreshContext
    <2>5. HandlesServe'
        BY <2>1, HandlesKept DEF Loaded
    <2> QED
        BY <2>2, <2>3, <2>4, <2>5
<1>4. CASE EngineDies(e)
    <2>1. /\ UNCHANGED <<pc, model, kind, handle, engines>>
          /\ estate'[e] = "stopped" /\ \A x \in Procs \ {e} : estate'[x] = estate[x]
          /\ kv'[e] = {} /\ \A x \in Procs \ {e} : kv'[x] = kv[x] /\ used'[x] = used[x]
          /\ queue'[e] = <<>> /\ running'[e] = NoEngine
          /\ \A x \in Procs \ {e} : queue'[x] = queue[x] /\ running'[x] = running[x]
          /\ \A s \in Procs : reply'[s] =
                 IF pc[s] = "sent" /\ handle[s] = e /\ reply[s] = "none" THEN "err" ELSE reply[s]
        BY <1>0, <1>4 DEF EngineDies, pvars
    <2>2. QueuesLive'
        BY <2>1 DEF QueuesLive
    <2>3. ASSUME NEW s \in Reqs, NEW x \in Procs, JobAt(s, x)' PROVE x # e /\ JobAt(s, x)
        <3>1. running'[x] = s \/ In(s, queue'[x])
            BY <2>3 DEF JobAt, In
        <3> QED
            BY <1>0, <2>1, <3>1 DEF JobAt, In
    <2>4. ASSUME NEW s \in Reqs, NEW x \in Procs, JobAt(s, x)'
          PROVE  \/ pc[s] = "done"
                 \/ pc[s] = "sent" /\ handle[s] = x /\ reply'[s] = "none"
        BY <1>0, <2>1, <2>3, <2>4 DEF JobsOwned
    <2>5. ASSUME NEW s \in Reqs, pc[s] = "sent", reply'[s] = "none"
          PROVE  \/ running'[handle[s]] = s /\ ~In(s, queue'[handle[s]])
                 \/ running'[handle[s]] # s /\ Once(s, queue'[handle[s]])
        <3>1. reply[s] = "none" /\ handle[s] # e
            BY <1>0, <2>1, <2>5
        <3>2. handle[s] \in Procs
            BY <1>0, <2>5 DEF HandlesServe, TypeOK
        <3>3. \/ running[handle[s]] = s /\ ~In(s, queue[handle[s]])
              \/ running[handle[s]] # s /\ Once(s, queue[handle[s]])
            BY <2>5, <3>1 DEF JobsOwned
        <3> QED
            BY <2>1, <3>1, <3>2, <3>3
    <2>6. \A s \in Reqs : pc[s] \notin {"sent", "done"} => reply'[s] = "none"
        BY <1>0, <2>1 DEF JobsOwned
    <2>7. JobsOwned'
        BY <2>1, <2>4, <2>5, <2>6 DEF JobsOwned, In, Once
    <2>8. CellsFlagged'
        BY <1>0, <2>1 DEF CellsFlagged, FreshContext
    <2>9. HandlesServe'
        BY <2>1, HandlesKept DEF Loaded
    <2> QED
        BY <2>2, <2>7, <2>8, <2>9
<1> QED
    BY <1>1, <1>2, <1>3, <1>4 DEF EngineStep

\* The sweep adds Idle jobs only, and only to threads that run.
LEMMA SweepJobs ==
    ASSUME TypeOK, TypeOK', JobInv, IdleSweep
    PROVE  JobInv'
<1> USE DEF JobInv
<1> DEFINE live == {m \in DueForIdle : estate[engines[m]] = "ready"}
           swept == {engines[m] : m \in live}
<1>0. /\ Reqs \subseteq Procs /\ Idle \in Jobs /\ Idle \notin Reqs
      /\ queue \in [Procs -> Seq(Jobs)]
      /\ handle \in [Procs -> Procs \cup {NoEngine}]
    BY PoolAssumption DEF TypeOK, Procs, Jobs
<1>1. /\ UNCHANGED <<pc, model, kind, handle, reply, estate, running, used, kv>>
      /\ \A e \in Procs : queue'[e] = IF e \in swept THEN Append(queue[e], Idle) ELSE queue[e]
      /\ \A m \in DOMAIN engines' : m \in Loaded /\ engines'[m] = engines[m]
    BY DEF IdleSweep, hvars, Drop, Loaded
<1>2. \A e \in swept : estate[e] = "ready"
    OBVIOUS
<1> HIDE DEF swept
<1>3. ASSUME NEW e \in Procs, NEW s \in Reqs
      PROVE  /\ In(s, queue'[e]) <=> In(s, queue[e])
             /\ Once(s, queue[e]) => Once(s, queue'[e])
    <2>1. queue[e] \in Seq(Jobs) /\ s # Idle
        BY <1>0
    <2> QED
        BY <1>0, <1>1, <2>1, AppendPlaces
<1>4. QueuesLive'
    BY <1>1, <1>2 DEF QueuesLive
<1>5. ASSUME NEW s \in Reqs, NEW x \in Procs, JobAt(s, x)'
      PROVE  \/ pc'[s] = "done"
             \/ pc'[s] = "sent" /\ handle'[s] = x /\ reply'[s] = "none"
    <2>1. running'[x] = s \/ In(s, queue'[x])
        BY <1>5 DEF JobAt, In
    <2>2. JobAt(s, x)
        BY <1>1, <1>3, <2>1 DEF JobAt
    <2> QED
        BY <1>1, <2>2 DEF JobsOwned
<1>6. ASSUME NEW s \in Reqs, pc'[s] = "sent", reply'[s] = "none"
      PROVE  \/ running'[handle'[s]] = s /\ ~In(s, queue'[handle'[s]])
             \/ running'[handle'[s]] # s /\ Once(s, queue'[handle'[s]])
    <2>1. pc[s] = "sent" /\ reply[s] = "none" /\ handle'[s] = handle[s] /\ running' = running
        BY <1>1, <1>6
    <2>2. handle[s] \in Procs
        BY <1>0, <2>1 DEF HandlesServe
    <2>3. \/ running[handle[s]] = s /\ ~In(s, queue[handle[s]])
          \/ running[handle[s]] # s /\ Once(s, queue[handle[s]])
        BY <2>1 DEF JobsOwned
    <2> QED
        BY <1>3, <2>1, <2>2, <2>3
<1>7. \A s \in Reqs : pc'[s] \notin {"sent", "done"} => reply'[s] = "none"
    BY <1>1 DEF JobsOwned
<1>8. JobsOwned'
    BY <1>5, <1>6, <1>7 DEF JobsOwned, In, Once
<1>9. CellsFlagged'
    BY <1>1 DEF CellsFlagged, FreshContext
<1>10. HandlesServe'
    BY <1>1, HandlesKept
<1> QED
    BY <1>4, <1>8, <1>9, <1>10

\* JobInv is inductive relative to the invariants of the pool.
LEMMA JobStep ==
    TypeOK /\ TypeOK' /\ PoolInv /\ NoHandleYet /\ JobInv /\ [Next]_vars => JobInv'
<1> SUFFICES ASSUME TypeOK, TypeOK', PoolInv, NoHandleYet, JobInv, [Next]_vars PROVE JobInv'
    OBVIOUS
<1>0. LoaderState /\ Reqs \subseteq Procs /\ Warm \in Procs
    BY DEF PoolInv, Procs
<1>1. ASSUME NEW r \in Reqs, Arrive(r) \/ HandlerStep(r) \/ Disconnect(r) PROVE JobInv'
    BY <1>0, <1>1, OutsideStep, ChannelStep DEF HandlerStep
<1>2. ASSUME NEW p \in Procs, EnsureStep(p) PROVE JobInv'
    BY <1>0, <1>2, OutsideStep
<1>3. ASSUME NEW e \in Procs, EngineStep(e) \/ EngineDies(e) PROVE JobInv'
    BY <1>3, EngineJobs
<1>4. CASE WarmReport
    BY <1>0, <1>4, OutsideStep
<1>5. CASE IdleSweep
    BY <1>5, SweepJobs
<1>6. CASE Tick \/ UNCHANGED vars
    <2>1. UNCHANGED <<pc, model, kind, handle, reply, engines, estate, queue, running, used, kv>>
        BY <1>6 DEF Tick, vars, hvars, evars
    <2> QED
        BY <2>1 DEF JobInv, QueuesLive, JobsOwned, HandlesServe, CellsFlagged, FreshContext,
                    JobAt, In, Once, Loaded
<1> QED
    BY <1>1, <1>2, <1>3, <1>4, <1>5, <1>6 DEF Next

\* JobInv holds throughout.
LEMMA JobsAlways == Spec => []JobInv
<1>1. Init => JobInv
    <2> SUFFICES ASSUME Init PROVE JobInv
        OBVIOUS
    <2>1. /\ \A e \in Procs : queue[e] = <<>> /\ running[e] = NoEngine /\ kv[e] = {}
          /\ \A p \in Procs : pc[p] \in {"new", "ensure"} /\ handle[p] = NoEngine /\ reply[p] = "none"
          /\ Loaded = {} /\ Reqs \subseteq Procs /\ NoEngine \notin Reqs
        BY PoolAssumption DEF Init, Loaded, Procs
    <2>2. QueuesLive /\ HandlesServe
        BY <2>1 DEF QueuesLive, HandlesServe
    <2>3. JobsOwned
        BY <2>1 DEF JobsOwned, JobAt, In
    <2>4. CellsFlagged
        BY <2>1 DEF CellsFlagged, FreshContext
    <2> QED
        BY <2>2, <2>3, <2>4 DEF JobInv
<1> QED
    BY <1>1, JobStep, TypeCorrect, PoolAlways, NoHandleAlways, PTL DEF Spec

\* The channels between handlers and engine threads: whatever is evicted, swept,
\* disconnected or killed, a handler that waits has its job, once, at a running
\* engine of its model.
THEOREM NoJobLost == Spec => []JobsAccounted
<1>1. TypeOK /\ JobInv => JobsAccounted
    BY JobInvAccounts
<1> QED
    BY <1>1, JobsAlways, TypeCorrect, PTL

\* spawn_engine's `used` flag: a generation starts on an empty context.
THEOREM ContextsFresh == Spec => []FreshContext
<1>1. JobInv => FreshContext
    BY DEF JobInv, CellsFlagged
<1> QED
    BY <1>1, JobsAlways, PTL
==============================================================================
