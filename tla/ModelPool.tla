------------------------------ MODULE ModelPool ------------------------------
(***************************************************************************)
(* The engine pool of `runa serve` (crates/runa/src/pool.rs) with the      *)
(* threads that share it: HTTP handlers (crates/runa/src/serve.rs), the    *)
(* start-up warm-up, the idle ticker and one engine thread per load.       *)
(*                                                                         *)
(* A process p is a request or the warm-up.  Each process loads at most    *)
(* one engine, so the engine thread that p spawns is named p as well and   *)
(* serves model[p].  The pool mutex is held across exactly one wait, the   *)
(* load inside ensure_engine; every other critical section is one step.    *)
(***************************************************************************)
EXTENDS Naturals, Sequences, FiniteSets

CONSTANTS
    Models,         \* model ids: the keys of `specs`
    DefaultModel,   \* the id the warm-up loads
    Reqs,           \* HTTP requests
    Kinds,          \* what they ask for, out of chat, embed, asr
    Warm,           \* the warm-up task
    Idle,           \* the job EngineJob::Idle
    NoEngine,       \* no handle, no running job
    MaxLoaded,      \* --max-loaded, after .max(1)
    Parallel,       \* --parallel: permits of the semaphore
    IdleTimeout,    \* idle_timeout in clock ticks; 0 is Duration::MAX, never
    MaxInputs,      \* bound: inputs of one /v1/embeddings request
    MaxIdleQueued,  \* bound: Idle jobs pending at one engine
    MaxDeaths       \* bound: engine threads that die with their receiver

ASSUME PoolAssumption ==
    /\ DefaultModel \in Models
    /\ Kinds \subseteq {"chat", "embed", "asr"}
    /\ Warm \notin Reqs
    /\ Idle \notin Reqs \cup {Warm}
    /\ NoEngine \notin Reqs \cup {Warm, Idle}
    /\ IsFiniteSet(Reqs)
    /\ IsFiniteSet(Models)
    /\ MaxLoaded \in Nat \ {0}
    /\ Parallel \in Nat \ {0}
    /\ IdleTimeout \in Nat
    /\ MaxInputs \in Nat \ {0}
    /\ MaxIdleQueued \in Nat
    /\ MaxDeaths \in Nat

Procs == Reqs \cup {Warm}
Jobs == Reqs \cup {Idle}

VARIABLES
    \* handlers, one record of local state per process
    pc,         \* new, waiting, asr, ensure, loading, have, sent, done
    model,      \* the requested model id
    kind,       \* chat (completions and messages), embed, asr
    left,       \* jobs the handler still has to have answered
    handle,     \* the engine whose Arc<Sender> the process holds
    reply,      \* what the oneshot of the outstanding job carries
    status,     \* the answer: none yet, ok (200), or any error status
    gone,       \* requests whose client disconnected
    \* ModelPool, guarded by its mutex
    engines,    \* HashMap id -> sender, as a function on the loaded ids
    lru,        \* VecDeque of ids, least recently used first
    last_used,  \* HashMap id -> age of its stamp, saturating at IdleTimeout
    \* engine threads
    estate,     \* none, loading, ready, stopped
    queue,      \* the mpsc channel
    running,    \* the job being served
    used,       \* the thread's `used` flag
    kv,         \* requests whose cells are in the context's KV cache
    \* Warmup.state and the number of injected thread deaths
    warm, deaths

hvars == <<pc, model, kind, left, handle, reply, status, gone>>
pvars == <<engines, lru, last_used>>
evars == <<estate, queue, running, used, kv>>
vars == <<pc, model, kind, left, handle, reply, status, gone, engines, lru,
          last_used, estate, queue, running, used, kv, warm, deaths>>

Loaded == DOMAIN engines

TypeOK ==
    /\ pc \in [Procs -> {"new", "waiting", "asr", "ensure", "loading",
                         "have", "sent", "done"}]
    /\ model \in [Procs -> Models]
    /\ kind \in [Procs -> {"chat", "embed", "asr"}]
    /\ left \in [Procs -> 0..MaxInputs]
    /\ handle \in [Procs -> Procs \cup {NoEngine}]
    /\ reply \in [Procs -> {"none", "ok", "err"}]
    /\ status \in [Procs -> {"none", "ok", "error"}]
    /\ gone \in SUBSET Reqs
    /\ Loaded \in SUBSET Models
    /\ engines \in [Loaded -> Procs]
    /\ lru \in Seq(Models)
    /\ DOMAIN last_used \in SUBSET Models
    /\ last_used \in [DOMAIN last_used -> 0..IdleTimeout]
    /\ estate \in [Procs -> {"none", "loading", "ready", "stopped"}]
    /\ queue \in [Procs -> Seq(Jobs)]
    /\ running \in [Procs -> Jobs \cup {NoEngine}]
    /\ used \in [Procs -> BOOLEAN]
    /\ kv \in [Procs -> SUBSET Reqs]
    /\ warm \in {"loading", "ok", "error"}
    /\ deaths \in 0..MaxDeaths

Init ==
    /\ pc = [p \in Procs |-> IF p = Warm THEN "ensure" ELSE "new"]
    /\ model = [p \in Procs |-> DefaultModel]
    /\ kind = [p \in Procs |-> "chat"]
    /\ left = [p \in Procs |-> 0]
    /\ handle = [p \in Procs |-> NoEngine]
    /\ reply = [p \in Procs |-> "none"]
    /\ status = [p \in Procs |-> "none"]
    /\ gone = {}
    /\ engines = [m \in {} |-> Warm]
    /\ lru = <<>>
    /\ last_used = [m \in {} |-> 0]
    /\ estate = [p \in Procs |-> "none"]
    /\ queue = [p \in Procs |-> <<>>]
    /\ running = [p \in Procs |-> NoEngine]
    /\ used = [p \in Procs |-> FALSE]
    /\ kv = [p \in Procs |-> {}]
    /\ warm = "loading"
    /\ deaths = 0

-----------------------------------------------------------------------------
(* HashMap and VecDeque operations.                                        *)

Put(f, k, v) == [x \in DOMAIN f \cup {k} |-> IF x = k THEN v ELSE f[x]]

Drop(f, S) == [x \in DOMAIN f \ S |-> f[x]]

\* lru.retain(|x| x != id): ids occur at most once in lru (LruExact), so the
\* filter takes out at most one position and closes the gap.
Retain(s, m) ==
    IF \E i \in DOMAIN s : s[i] = m
    THEN LET i == CHOOSE i \in DOMAIN s : s[i] = m
         IN  [j \in 1..(Len(s) - 1) |-> IF j < i THEN s[j] ELSE s[j + 1]]
    ELSE s

\* Mutants: the old position is kept; a hit does not move the id.
MutTouchKeepsOld(s, m) == Append(s, m)
MutTouchFifo(s, m) == IF \E i \in DOMAIN s : s[i] = m THEN s ELSE Append(s, m)

TouchLru(s, m) == Append(Retain(s, m), m)

\* Mutant: the loop tests max_loaded one too high.
MutEvictionsLate(e, s) ==
    Cardinality({i \in 1..Len(s) : /\ i + MaxLoaded < Cardinality(DOMAIN e)
                                   /\ \A j \in 1..i : s[j] \in DOMAIN e})

\* How many turns the loop of evict_if_needed takes on the pool (e, s): it
\* runs while more than MaxLoaded engines are in the map and the front of
\* lru names one of them, and every turn takes that front out of both.
Evictions(e, s) ==
    Cardinality({i \in 1..Len(s) : /\ i + MaxLoaded <= Cardinality(DOMAIN e)
                                   /\ \A j \in 1..i : s[j] \in DOMAIN e})

-----------------------------------------------------------------------------
(* Handlers up to the pool.                                                *)

\* The pool mutex: only a load keeps it from one step to the next.
LockFree == \A p \in Procs : pc[p] # "loading"

\* A handler holds its semaphore permit from acquire_parallel until the
\* handler future ends or is dropped with its connection.
PermitHolders ==
    {r \in Reqs \ gone : pc[r] \in {"asr", "ensure", "loading", "have", "sent"}}

Arrive(r) ==
    /\ pc[r] = "new"
    /\ \E m \in Models, k \in Kinds, n \in 1..MaxInputs :
          /\ k # "embed" => n = 1
          /\ k = "asr" => m = DefaultModel
          /\ model' = [model EXCEPT ![r] = m]
          /\ kind' = [kind EXCEPT ![r] = k]
          /\ left' = [left EXCEPT ![r] = n]
    /\ pc' = [pc EXCEPT ![r] = "waiting"]
    /\ UNCHANGED <<handle, reply, status, gone, pvars, evars, warm, deaths>>

\* Mutant: a handler that returns leaks its Arc<Sender>.
MutAnswerLeaks(r, out) ==
    /\ pc' = [pc EXCEPT ![r] = "done"]
    /\ status' = [status EXCEPT ![r] = IF r \in gone THEN @ ELSE out]
    /\ UNCHANGED handle

\* The handler returns with outcome out, dropping its handle and permit.
Answer(r, out) ==
    /\ pc' = [pc EXCEPT ![r] = "done"]
    /\ handle' = [handle EXCEPT ![r] = NoEngine]
    /\ status' = [status EXCEPT ![r] = IF r \in gone THEN @ ELSE out]

\* acquire_parallel and the request validation behind it, up to the first
\* await: a bad body (or missing whisper weights) is an error that never
\* reaches the pool.
AcquireParallel(r) ==
    /\ pc[r] = "waiting"
    /\ Cardinality(PermitHolders) < Parallel
    /\ \/ Answer(r, "error")
       \/ /\ pc' = [pc EXCEPT ![r] = IF kind[r] = "asr" THEN "asr" ELSE "ensure"]
          /\ UNCHANGED <<handle, status>>
    /\ UNCHANGED <<model, kind, left, reply, gone, pvars, evars, warm, deaths>>

\* /v1/audio/transcriptions runs whisper inside the handler.
Transcribe(r) ==
    /\ pc[r] = "asr"
    /\ \E out \in {"ok", "error"} : Answer(r, out)
    /\ UNCHANGED <<model, kind, left, reply, gone, pvars, evars, warm, deaths>>

\* The client hangs up: axum drops the handler future.  The blocking task
\* that runs ensure_engine cannot be cancelled and goes on without it, and a
\* job already sent stays in its engine's queue.
Disconnect(r) ==
    /\ r \notin gone
    /\ pc[r] \in {"waiting", "asr", "ensure", "loading", "have", "sent"}
    /\ gone' = gone \cup {r}
    /\ pc' = [pc EXCEPT ![r] = IF @ \in {"ensure", "loading"} THEN @ ELSE "done"]
    /\ handle' = [handle EXCEPT ![r] = NoEngine]
    /\ UNCHANGED <<model, kind, left, reply, status, pvars, evars, warm, deaths>>

-----------------------------------------------------------------------------
(* ensure_engine, under the pool mutex.                                    *)

\* The blocking task ends with engine e.  A handler that is gone drops the
\* Arc at once; the warm-up drops it too and has its result left to report.
Give(p, e) ==
    /\ pc' = [pc EXCEPT ![p] = IF p \in gone THEN "done" ELSE "have"]
    /\ handle' = [handle EXCEPT ![p] =
                     IF p \in gone \cup {Warm} THEN NoEngine ELSE e]
    /\ reply' = [reply EXCEPT ![p] = IF p = Warm THEN "ok" ELSE @]
    /\ UNCHANGED status

\* The blocking task ends with an error, whatever status with_engine gives it.
Refuse(p) ==
    IF p = Warm
    THEN /\ pc' = [pc EXCEPT ![p] = "have"]
         /\ reply' = [reply EXCEPT ![p] = "err"]
         /\ UNCHANGED <<handle, status>>
    ELSE Answer(p, "error") /\ UNCHANGED reply

\* The engine is in the map: touch it and hand out its sender.
EnsureLoaded(p) ==
    /\ pc[p] = "ensure" /\ LockFree
    /\ model[p] \in Loaded
    /\ lru' = TouchLru(lru, model[p])
    /\ last_used' = Put(last_used, model[p], 0)
    /\ Give(p, engines[model[p]])
    /\ UNCHANGED <<model, kind, left, gone, engines, evars, warm, deaths>>

\* Id not configured, no fit, bad placement, missing file, LoRA on the wrong
\* backend, or a panic (a JoinError) before the engine thread is spawned.
EnsureRefused(p) ==
    /\ pc[p] = "ensure" /\ LockFree
    /\ model[p] \notin Loaded
    /\ Refuse(p)
    /\ UNCHANGED <<model, kind, left, gone, pvars, evars, warm, deaths>>

\* spawn_engine starts the thread and waits for it, holding the mutex.
StartLoad(p) ==
    /\ pc[p] = "ensure" /\ LockFree
    /\ model[p] \notin Loaded
    /\ pc' = [pc EXCEPT ![p] = "loading"]
    /\ estate' = [estate EXCEPT ![p] = "loading"]
    /\ UNCHANGED <<model, kind, left, handle, reply, status, gone, pvars,
                   queue, running, used, kv, warm, deaths>>

\* The thread reports an error, or panics and drops ready_tx.
LoadFails(p) ==
    /\ pc[p] = "loading"
    /\ estate' = [estate EXCEPT ![p] = "stopped"]
    /\ Refuse(p)
    /\ UNCHANGED <<model, kind, left, gone, pvars, queue, running, used, kv,
                   warm, deaths>>

\* Loaded: insert, touch, then evict_if_needed; the mutex is released.
LoadDone(p) ==
    /\ pc[p] = "loading"
    /\ estate' = [estate EXCEPT ![p] = "ready"]
    /\ LET e == Put(engines, model[p], p)
           s == TouchLru(lru, model[p])
           n == Evictions(e, s)
           victims == {s[i] : i \in 1..n}
       IN  /\ engines' = Drop(e, victims)
           /\ lru' = SubSeq(s, n + 1, Len(s))
           /\ last_used' = Drop(Put(last_used, model[p], 0), victims)
    /\ Give(p, p)
    /\ UNCHANGED <<model, kind, left, gone, queue, running, used, kv, warm,
                   deaths>>

\* warm_up stores the result after it has released the pool mutex.
WarmReport ==
    /\ pc[Warm] = "have"
    /\ pc' = [pc EXCEPT ![Warm] = "done"]
    /\ warm' = IF reply[Warm] = "ok" THEN "ok" ELSE "error"
    /\ UNCHANGED <<model, kind, left, handle, reply, status, gone, pvars,
                   evars, deaths>>

-----------------------------------------------------------------------------
(* Jobs: generate_events and embed_vector on the handler's side.           *)

\* jobs.send(..): fails only when the receiver is gone.
Post(r) ==
    IF estate[handle[r]] = "ready"
    THEN /\ queue' = [queue EXCEPT ![handle[r]] = Append(@, r)]
         /\ pc' = [pc EXCEPT ![r] = "sent"]
         /\ UNCHANGED <<handle, status>>
    ELSE Answer(r, "error") /\ UNCHANGED queue

Send(r) ==
    /\ pc[r] = "have"
    /\ Post(r)
    /\ UNCHANGED <<model, kind, left, reply, gone, pvars, estate, running,
                   used, kv, warm, deaths>>

\* rx.await returns: the embeddings loop goes on to its next input on the
\* same handle, anything else answers.
Receive(r) ==
    /\ pc[r] = "sent" /\ reply[r] # "none"
    /\ reply' = [reply EXCEPT ![r] = "none"]
    /\ IF reply[r] = "ok" /\ left[r] > 1
       THEN /\ left' = [left EXCEPT ![r] = @ - 1]
            /\ Post(r)
       ELSE /\ Answer(r, IF reply[r] = "ok" THEN "ok" ELSE "error")
            /\ UNCHANGED <<left, queue>>
    /\ UNCHANGED <<model, kind, gone, pvars, estate, running, used, kv, warm,
                   deaths>>

-----------------------------------------------------------------------------
(* Engine threads.                                                         *)

InPool(e) == \E m \in Loaded : engines[m] = e

\* Mutant: the KV cells of the last generation are not cleared.
MutTakeJobKeepsKv(e) ==
    /\ estate[e] = "ready" /\ running[e] = NoEngine /\ queue[e] # <<>>
    /\ running' = [running EXCEPT ![e] = Head(queue[e])]
    /\ queue' = [queue EXCEPT ![e] = Tail(@)]
    /\ kv' = [kv EXCEPT ![e] = @ \cup ({Head(queue[e])} \cap Reqs)]
    /\ UNCHANGED <<hvars, pvars, estate, used, warm, deaths>>

\* rx.recv() yields a job.  A generation first clears the KV cells of the
\* one before; embeddings use a context of their own.
TakeJob(e) ==
    /\ estate[e] = "ready" /\ running[e] = NoEngine /\ queue[e] # <<>>
    /\ running' = [running EXCEPT ![e] = Head(queue[e])]
    /\ queue' = [queue EXCEPT ![e] = Tail(@)]
    /\ IF Head(queue[e]) \in Reqs /\ kind[Head(queue[e])] = "chat"
       THEN /\ kv' = [kv EXCEPT ![e] =
                         (IF used[e] THEN {} ELSE @) \cup {Head(queue[e])}]
            /\ used' = [used EXCEPT ![e] = TRUE]
       ELSE UNCHANGED <<kv, used>>
    /\ UNCHANGED <<hvars, pvars, estate, warm, deaths>>

\* Mutant: a job that fails drops its oneshot sender without a word and the
\* handler is not woken.
MutFinishJobSilent(e) ==
    /\ running[e] # NoEngine
    /\ running' = [running EXCEPT ![e] = NoEngine]
    /\ UNCHANGED <<hvars, pvars, estate, queue, used, kv, warm, deaths>>

\* The job ends with a result, an error or a caught panic, and resp.send
\* delivers it if the handler still waits.
FinishJob(e) ==
    /\ running[e] # NoEngine
    /\ running' = [running EXCEPT ![e] = NoEngine]
    /\ IF running[e] \in Reqs /\ pc[running[e]] = "sent"
       THEN \E out \in {"ok", "err"} :
               reply' = [reply EXCEPT ![running[e]] = out]
       ELSE UNCHANGED reply
    /\ UNCHANGED <<pc, model, kind, left, handle, status, gone, pvars, estate,
                   queue, used, kv, warm, deaths>>

\* Mutant: an evicted engine stops at once, as if eviction killed its thread.
MutStopEngineNow(e) ==
    /\ estate[e] = "ready" /\ ~InPool(e)
    /\ estate' = [estate EXCEPT ![e] = "stopped"]
    /\ queue' = [queue EXCEPT ![e] = <<>>]
    /\ running' = [running EXCEPT ![e] = NoEngine]
    /\ UNCHANGED <<hvars, pvars, used, kv, warm, deaths>>

\* rx.recv() fails: every sender is dropped and the channel is drained.  The
\* thread ends and takes the model and its context with it.
StopEngine(e) ==
    /\ estate[e] = "ready" /\ running[e] = NoEngine /\ queue[e] = <<>>
    /\ ~InPool(e)
    /\ \A p \in Procs : handle[p] # e
    /\ estate' = [estate EXCEPT ![e] = "stopped"]
    /\ used' = [used EXCEPT ![e] = FALSE]
    /\ kv' = [kv EXCEPT ![e] = {}]
    /\ UNCHANGED <<hvars, pvars, queue, running, warm, deaths>>

\* Mutant: the waiters of a dead thread are not woken.
MutEngineDiesSilently(e) ==
    /\ deaths < MaxDeaths
    /\ estate[e] = "ready"
    /\ deaths' = deaths + 1
    /\ estate' = [estate EXCEPT ![e] = "stopped"]
    /\ queue' = [queue EXCEPT ![e] = <<>>]
    /\ running' = [running EXCEPT ![e] = NoEngine]
    /\ UNCHANGED <<hvars, pvars, used, kv, warm>>

\* The fault the pool's "dead engine thread" branches are written for: the
\* thread ends outside catch_job, dropping its receiver and every oneshot.
EngineDies(e) ==
    /\ deaths < MaxDeaths
    /\ estate[e] = "ready"
    /\ deaths' = deaths + 1
    /\ estate' = [estate EXCEPT ![e] = "stopped"]
    /\ queue' = [queue EXCEPT ![e] = <<>>]
    /\ running' = [running EXCEPT ![e] = NoEngine]
    /\ used' = [used EXCEPT ![e] = FALSE]
    /\ kv' = [kv EXCEPT ![e] = {}]
    /\ reply' = [p \in Procs |->
                    IF pc[p] = "sent" /\ handle[p] = e /\ reply[p] = "none"
                    THEN "err" ELSE reply[p]]
    /\ UNCHANGED <<pc, model, kind, left, handle, status, gone, pvars, warm>>

-----------------------------------------------------------------------------
(* Time and the idle ticker.                                               *)

Tick ==
    /\ \E m \in DOMAIN last_used : last_used[m] < IdleTimeout
    /\ last_used' = [m \in DOMAIN last_used |->
                        IF last_used[m] < IdleTimeout THEN last_used[m] + 1
                        ELSE last_used[m]]
    /\ UNCHANGED <<hvars, engines, lru, evars, warm, deaths>>

\* Mutant: > for >=.
MutDueForIdleStrict ==
    {m \in Loaded : m \in DOMAIN last_used /\ last_used[m] > IdleTimeout}

DueForIdle ==
    {m \in Loaded : /\ IdleTimeout # 0
                    /\ m \in DOMAIN last_used => last_used[m] >= IdleTimeout}

IdlePending(e) ==
    Cardinality({i \in DOMAIN queue[e] : queue[e][i] = Idle})

\* idle_sweep: an Idle job and a fresh stamp for every due engine; one whose
\* receiver is gone is removed from engines and last_used.
IdleSweep ==
    LET live == {m \in DueForIdle : estate[engines[m]] = "ready"}
        dead == DueForIdle \ live
        swept == {engines[m] : m \in live}
    IN  /\ LockFree
        /\ DueForIdle # {}
        /\ \A e \in swept : IdlePending(e) < MaxIdleQueued
        /\ queue' = [e \in Procs |->
                        IF e \in swept THEN Append(queue[e], Idle) ELSE queue[e]]
        /\ engines' = Drop(engines, dead)
        /\ last_used' = [m \in (DOMAIN last_used \cup live) \ dead |->
                            IF m \in live THEN 0 ELSE last_used[m]]
        /\ UNCHANGED <<hvars, lru, estate, running, used, kv, warm, deaths>>

-----------------------------------------------------------------------------
HandlerStep(r) ==
    AcquireParallel(r) \/ Transcribe(r) \/ Send(r) \/ Receive(r)

EnsureStep(p) ==
    EnsureLoaded(p) \/ EnsureRefused(p) \/ StartLoad(p) \/ LoadFails(p)
        \/ LoadDone(p)

EngineStep(e) == TakeJob(e) \/ FinishJob(e) \/ StopEngine(e)

Next ==
    \/ \E r \in Reqs : Arrive(r) \/ HandlerStep(r) \/ Disconnect(r)
    \/ \E p \in Procs : EnsureStep(p) \/ EngineStep(p) \/ EngineDies(p)
    \/ WarmReport
    \/ Tick
    \/ IdleSweep

Spec == Init /\ [][Next]_vars

\* Handlers, blocking tasks and engine threads run on their own threads and
\* never stop half way: a load ends, a generation ends (max_tokens), the
\* ticker ticks.  No fairness on arrivals, disconnects and faults.
Fairness ==
    /\ \A r \in Reqs : WF_vars(HandlerStep(r))
    /\ \A p \in Procs : WF_vars(EnsureStep(p)) /\ WF_vars(EngineStep(p))
    /\ WF_vars(WarmReport) /\ WF_vars(Tick) /\ WF_vars(IdleSweep)

FairSpec == Spec /\ Fairness

-----------------------------------------------------------------------------
(* Safety.                                                                 *)

\* pool.rs keeps three collections in step by hand (touch_lru,
\* evict_if_needed, idle_sweep): as long as no engine thread has died, lru
\* lists exactly the loaded ids, each once, and exactly those have a stamp.
LruExact ==
    deaths = 0 =>
        /\ \A i, j \in DOMAIN lru : lru[i] = lru[j] => i = j
        /\ {lru[i] : i \in DOMAIN lru} = Loaded
        /\ DOMAIN last_used = Loaded

\* evict_if_needed runs after the load, in the same critical section: nobody
\* who gets the mutex ever finds more than max_loaded engines in the map.
Capacity == deaths = 0 => Cardinality(Loaded) <= MaxLoaded

\* The inductive invariant behind the two: an engine thread exists only once
\* its loader has asked for it, and every engine in the map has a live thread
\* (nothing but the pool's own removal lets it stop), so no sweep removes one.
LoaderState ==
    \A p \in Procs :
        /\ pc[p] \in {"new", "waiting", "asr", "ensure"} => estate[p] = "none"
        /\ pc[p] = "loading" => estate[p] = "loading"

PoolLive == deaths = 0 => \A m \in Loaded : estate[engines[m]] = "ready"

PoolInv == LoaderState /\ PoolLive /\ LruExact /\ Capacity

\* A handler that waits on its oneshot is never forgotten, whatever was
\* evicted, swept or disconnected since it took its handle: its job is, once,
\* in the channel of the engine it holds or on that engine's thread.
JobsAccounted ==
    \A r \in Reqs : pc[r] = "sent" /\ reply[r] = "none" =>
        LET e == handle[r]
            at == {i \in DOMAIN queue[e] : queue[e][i] = r}
        IN  /\ e \in Procs /\ estate[e] = "ready" /\ model[e] = model[r]
            /\ \/ running[e] = r /\ at = {}
               \/ running[e] # r /\ Cardinality(at) = 1

\* spawn_engine's `used` flag: a generation never runs on KV cells of an
\* earlier request, one that failed or lost its client included.
FreshContext ==
    \A e \in Procs : running[e] \in Reqs /\ kind[running[e]] = "chat" =>
        kv[e] = {running[e]}

\* The model of the engine each process holds, as the cache's clients see it.
Given == [p \in Procs |-> IF handle[p] = NoEngine THEN NoEngine ELSE model[p]]

Cache == INSTANCE LruCache WITH Ids <- Models, Size <- MaxLoaded,
            Clients <- Procs, None <- NoEngine, recent <- lru, given <- Given

\* The pool is an LRU cache of MaxLoaded models: ensure_engine is a use, a
\* load gives up nothing but the least recently requested model and that only
\* when the pool is full, and no sweep, answer, disconnect or failed load
\* reorders or unloads anything.  (Holds where no engine thread dies.)
LruOrder == Cache!LruSpec

-----------------------------------------------------------------------------
(* Liveness, under Fairness.                                               *)

\* Every request whose client stays is answered, and /health leaves `loading`:
\* no permit, mutex or job is lost on any path through the handlers and the
\* warm-up, and no two of them wait on each other.
Answered ==
    /\ \A r \in Reqs : pc[r] = "waiting" ~> (status[r] # "none" \/ r \in gone)
    /\ <>(warm # "loading")

\* A model evicted by LRU gives its memory back: its thread drains the jobs
\* and handles that were still out and stops.
EvictedFreed ==
    \A e \in Procs : estate[e] = "ready" /\ ~InPool(e) ~> estate[e] = "stopped"

\* An engine that stays in the pool runs an Idle job: neither the restamping
\* nor the LRU keeps the sweep away from a model nobody uses.
IdleReached ==
    \A e \in Procs : InPool(e) ~> (~InPool(e) \/ running[e] = Idle)
==============================================================================
