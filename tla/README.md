# runa: a TLA+ verification project

runa runs language models on the local machine: a CLI (`run`, `chat`,
`bench`, `fit`, `pull`), an HTTP server (`serve`), a background service on a
Unix socket (`daemon`) and adapters to cloud APIs. This project models the
parts of it that keep state between steps, share it between threads and
processes, or translate it from one form into another; it checks them with TLC
on small instances and proves the main results with TLAPS for every instance.

Paths below are relative to the repository; the lines each definition models
are in `PROJECT.json` under `map`.

## The system

| Component | State | Operations | Interacts with | What is hard | What makes it correct |
| --- | --- | --- | --- | --- | --- |
| Model pool (`crates/runa/src/pool.rs`) | `engines`, `lru`, `last_used`, `specs` under one mutex; one thread with a job queue, a context and a `used` flag per loaded model | `ensure_engine`, `evict_if_needed`, `touch_lru`, `idle_sweep`, `warm_up`, `resolve_or_insert` | HTTP handlers, daemon connections, idle ticker | the mutex is held across a load; handles outlive eviction; threads die; clients leave; ids clash | an LRU cache of `max_loaded` models; no job lost; no request sees another's context; evicted models are freed; a request gets the model it names |
| HTTP server (`serve.rs`) | semaphore permits, warm-up state, per-request futures | chat, messages, embeddings, transcriptions, health, models | pool, memory manager | cancellation at every await; two wire formats, whole and streamed | every request that is not abandoned is answered; the engine gets the conversation that was sent |
| Daemon (`daemon.rs`, `daemon_proto.rs`) | socket file, connections | start, bind, accept, serve, exit | pool, memory manager, CLI clients, launchd/systemd | crash, failed accept and restart, two daemons, timeouts, ids and relative paths | a live daemon is reachable; clients always end |
| Memory manager (`runa-memory/src/memory.rs`) | resident set, load state, granted growth, last activity, each under its own mutex | `touch`, `maybe_idle`, `on_idle`, `shrink_to_floor`, `grow_for`, `on_heavy` | handlers, ticker | checks and uses under different locks | growth bounded by the fit ceiling, and by little more when calls race; silence ends in Idle |
| Task registry (`registry.rs`) | a markdown table on disk, a process-local mutex | `claim`, `release`, `status` | several agents' processes | unlocked file access, truncating writes | no task held twice; a granted claim is on record |
| Generation (`runa-engine/src/generate.rs`, `runa-core/src/think.rs`, `reason.rs`) | context, pending tokens, emission buffer, reasoning budget | prefill, decode, commit, inject, split | engine thread, prompt cache | tags and stop strings cut anywhere, in characters and in bytes; injected tokens; cells that cannot be taken out | output is the model's text, split right, once, ending in one stop |
| Model store (`pull.rs`) and header cache (`runa-fit/src/remote.rs`, `gguf.rs`) | model files and sidecars; a header and its metadata | pull, verify, find; fetch, probe, validate | file system, hub | kills and failures between two writes, two processes, files in subdirectories, a hub that publishes meanwhile | what is skipped was verified; what is kept was served; a cached header is the current one |
| Tool loop and cloud clients (`mcp.rs`, `cloud.rs`, `runa-cloud`) | history, rounds, outstanding calls | round, call, retry | engines, MCP servers, APIs | calls that fail, results in another format, round limits | every call answered once; same conversation over every transport |
| Chat session (`main.rs`, `tui.rs`) | history, engine, settings | turn, trim, slash commands, daemon turns | engines, daemon, MCP | partial failure in a turn or a reload | a history every provider accepts; the engine the session describes |
| Run command, configuration, fit (`main.rs`, `config.rs`, `fit.rs`, `runa-fit`) | none between commands | resolve, plan, place, load, recommend | files, environment, machine | layers that contradict each other; integer edges | settings by precedence; a plan that fits; nothing leaves the machine unasked |
| Media, kernels | none | numeric code | | floating point | outside TLC |

A request to `serve` takes a permit, takes a handle from the pool under its
mutex (loading and evicting if needed), posts a job to the engine's channel
and waits for the reply; the warm-up and the idle ticker work on the same
pool. A request to the daemon arrives on a socket and ends in the same pool;
when the socket cannot be used the client loads the model itself. `run` and
`chat` resolve their settings, ask the planner where a model goes, load it
and generate, with rounds of tool calls if MCP servers are configured.

## Modules

| Module | Models | Notes |
| --- | --- | --- |
| `ModelPool` | pool, handlers, warm-up, engine threads, ticker | one action per critical section or await |
| `LruCache` | abstract specification of the pool: held ids and who was given which | implemented by `ModelPool` (`LruOrder`) |
| `ModelPoolProofs`, `MemoryManagerProofs`, `TaskRegistryProofs`, `DaemonProofs`, `GenerationProofs`, `HubClientsProofs`, `CliProofs`, `ToolLoopProofs` | theorems about the module they are named for | see Proofs |
| `MemoryManager` | the manager, one step per lock | |
| `TaskRegistry` | claims on the table, one step per file access | |
| `Daemon` | socket file, daemons, clients, the table of model ids | |
| `Generation` | generation loop, reasoning parser, budget clock, stop strings, drafts, prompt cache | folds, and one recursive function over the tokens of a batch |
| `Hub` | the hub: revisions and what it says of them | shared by the next two |
| `PullStore` | `runa pull` and the files of the store | one step per request or file access |
| `HeaderCache`, `GgufReader` | `fetch_header` and its cache; what a prefix of a header parses to | one step per request or file access |
| `HubClients` | composition of the three | |
| `WireFormats` | replies: events to bodies and streams of both APIs, and back | pure |
| `Requests` | conversations: messages to both APIs' forms, and back | pure |
| `MistralFold` | responses of mistral.rs to events | pure |
| `ToolLoop` | rounds of generation and calls over four transports | composes the three above |
| `Think`, `Config` | settings and their layers | pure |
| `Fit` | descriptor, estimates, planner, verdict, speed, recommendation | pure |
| `EngineLoad` | what a load asks of llama.cpp | pure |
| `RunCommand` | `runa run`, step by step | uses the four above |
| `ChatSession` | `runa chat`, REPL and TUI | uses `EngineLoad`, `Think` |
| `Cli` | one command of a user: run, chat or recommend | composes the two above |
| `MC*` | the instances TLC runs | |

### ModelPool

A process is a request or the warm-up; it loads at most one engine, so the
engine thread it spawns carries its name. `pc` follows a handler through
`acquire_parallel` (`waiting`), the blocking task (`ensure`, `loading`), the
handle it was given (`have`) and the outstanding job (`sent`). The pool mutex
is not a variable: the only critical section with a wait inside is the load,
so the mutex is free exactly when nobody is `loading`. `Disconnect` drops the
handler future as axum does: the permit and the handle go, a running blocking
task and a queued job stay. Time is the age of each stamp, which saturates at
`IdleTimeout`. `kv` is a ghost of the cells in a context: which requests put
them there. `EngineDies` is the fault that the pool's own "dead engine
thread" branch is written for; `MaxDeaths` bounds it. The handlers differ only
in the number and kind of jobs they post (`embed` posts one per input on one
handle, `asr` none), so one set of actions stands for all of them. A bad
request is a nondeterministic choice in `AcquireParallel`.

`LruCache` is what the pool promises: a client is given an id, and giving is a
use. A use moves the id to the end of the order and, if the cache is full,
gives up the least recently used one; nothing else changes the order. What
clients were given is part of the abstract state, so a pool that only moved
an id when it loaded it (first in, first out) would not implement it.

### MemoryManager

Every lock/unlock pair is one step, as in the code; values carried from one
lock to the next are the thread's locals. `advisory`, chosen at the start from
`Backends`, is the backend: `SysinfoBackend`, whose resident set moves by
itself and which grows and shrinks nothing, or `FakeBackend`, which obeys. The
ghost `overlapped` records that two calls were under way at once. The ceiling
and the ledger are stated for calls that do not overlap; how far racing calls
can pass the ceiling (`OvershootBounded`) and the way to `Idle` for every
interleaving. That a shrink comes only after `idle_timeout` of silence is not
stated: with overlapping calls it is false (see below), and without them it is
the guard of `maybe_idle` again.

### TaskRegistry

A table is a function from the ids that have a row to their owner (`Free` or
an agent). `claim` and `release` read the rows, read the text again, truncate
and write. `ProcessOf` says in which process an agent calls, hence which mutex
it takes: `runa tasks` is a process per command, threads of one process share a
registry. A kill may come between any two steps; an agent outlives its
commands, so what it was granted stays granted. Two ghosts say what the
statements except: `overlapped`, that calls of two processes were under way at
once, and `cut`, that a kill fell between a truncation and its write.
`NoDoubleHeld` without the first is false of `runa tasks` (the run
`tasks_processes`); with it, it holds through every kill. `HolderRecorded` also
bounds what a reader without the lock may miss: a task of the table is unknown
only between a truncation and the write after it, or after a cut.

### Daemon

`path` is the daemon whose socket the file is. Removing, binding and exiting
are separate steps, so two daemons interleave; a kill and a failed accept clean
nothing up (both count as `crashes`). A
client dials, waits with a read timeout and falls back to an in-process load.
`specs` is the table of a daemon, an id a sequence such as `<<"m", 2>>` for
`m-2`, so that a number put behind a stem and a stem that ends in a number
meet as they do in strings. A request has the path as it was typed: one that
spells an id (`SpelledId`) is taken for it before it is taken for a path, and
`FileAt` says which file a path names in the working directory of the client
and in that of the daemon. A request is resolved when it is taken and loaded
when its turn comes, with other requests entering models in between. What the
pool does meanwhile is `ModelPool`; here the daemon replies or not.

### Generation

Text is a sequence of symbols and a token a short piece of it, so a tag or a
stop string arrives whole, in halves or overlapping another one. `stream` is
what `commit_tokens` keeps per generation: the kept tokens, the withheld tail
of the stop matcher, the parser, the budget clock and what the consumer got.
`Turn` is one turn of the loop of `ReasoningParser::push`, `Push` a fold of
it; `Observe` and `ForceKind` are `BudgetClock`; `Accept` is one token through
`commit_tokens`, `AcceptAll` the kept tokens of a batch. A symbol has a width
in bytes, because `split_emit` looks for the start of a stop string at byte
offsets: `SplitPanics` says when it slices through a character, which ends the
generation. `cells` is what the KV cache holds, with positions, and `base`
a ghost: the position of row 0 of the last batch's logits. A batch is a token
and its n-gram drafts; which of them the model agrees with is a choice, and so
is whether the cells of the others can be taken out: the result of
`clear_kv_cache_seq` is dropped, and some models cannot (`stuck`). The
next generation starts on the context the last one left, as it may after a
failed decode, and `Restore` may fail in any of the code's ways (`Miss`).
`closeToks` is one of several tokenizations of a close tag. The bias of the
grace window, rates and sampling parameters influence only which token is
chosen, which is free here.

The reference the output is compared with is the same parser run once on the
whole reply, cut at the first stop string (`Whole`): the property is about the
cuts, not about what a tag is.

### Hub, PullStore, HeaderCache

The hub holds a revision and replaces it at any moment (`Publish`); `server`
says whether it sends checksums, ETags and partial content. A revision is a
model value with a size; a file holds a revision, a mixture or what another
program wrote (`Rewrite`), with its modification time in seconds. A pull asks
for metadata, looks at the file and its sidecar, hashes, downloads, verifies
and stamps; every step may be its last (`KillPull`), and two pulls of one file
interleave. `late` is a ghost: the file changed between its hash and the sidecar
that records it, or in the second of the sidecar. The names of a repository
match each of the `Tags` in some class and may lie in a subdirectory, which
`find_local` does not list (`Listed`). Snapshots are pulled file by file (`Advance`).

A header is a sequence of fields, each byte tagged with its revision; `Parse`
says what a prefix of it gives. A fetch reads the cache, probes, and grows its
range; the cache is two files, read one after the other, each cut to nothing
and filled. A kill or a failed write leaves a part of the bytes, or the bytes
without their description. Two ghosts say what befell them: `crossed`, per
fetch, that a publication fell between its requests, and `happened`: fetches
overlapped, one was broken (killed, or unable to write), mixed bytes were
written, or the hub went back to the revision of a description whose bytes were
being replaced. `HeaderExact` holds through broken fetches: what they leave is
rejected or reported, and never taken for a header.

### WireFormats, Requests, MistralFold, ToolLoop

Text is a sequence of opaque pieces, so what is lost, doubled or reordered
shows. The bodies of both APIs are records with the fields that the code
reads. The reference conversation (`direct`) is what a direct call to the
engine would keep; each transport keeps its own history in its own form, the
server turns a request back, and `SameConversation` compares. A reply travels
the other way. Arguments of a call are `object` or `cut` (text that is not
JSON). Tools give an output or an error; the Anthropic client asks an
overloaded server again, up to its limit.

### Cli

A user gives one command on one machine. The machine `w` is a record: memory,
the two configuration files (each missing, broken, with an inline secret, or
with a value, `None` or `Error` per key), the environment, a daemon or not.
`RunCommand` keeps the state of `cmd_run` in the record `cmd`: every early
return is `Fails`. What happens outside the process (a load, a
transcription, an MCP server, a provider) succeeds or fails. `Fit` has small
integers for bytes; equal tensors come out of a hash map, so `PackingOrders`
are all the orders that the sort allows. Speeds are integer ratios, scaled by
the efficiency measured for the side and the quant of an entry. The sort of
`recommend` is stable, so `Ranked` is the one order in which `Leads` holds
between every two entries; a probe that fails leaves a hole in `found`. The
entries are filtered by `--use`, and those that are to see bring their
projector. The ranking itself is a translation of the sort and has no property
of its own; what is found is the subject of `ShardsCounted`.

`ChatSession` has the session (model, mode, threads, adapters, history), the
engine that is loaded or the daemon, the turn under way and, as a ghost, the
log of what the user was shown, in failed turns too. REPL and TUI commit a round
at different points, so they are different actions. `Trim` says where the loop of
`trim_history_with` stops: at the first of its cuts that leaves a history
within the budget, or one message. `/mode`, `/model`, `/reset` and
`/think` change the session and reload, and every reload may fail.

## Runs

| Run | Checks | Bounds | Shows |
| --- | --- | --- | --- |
| `pool_lru` | `LruExact`, `Capacity`, `LruOrder` | 3 requests + warm-up, 3 models, room for 2 | loads, hits and evictions in every order: the pool is an LRU cache |
| `pool_jobs` | `JobsAccounted`, `FreshContext` | chat and embeddings, 2 inputs, idle sweeps, one thread may die | no job lost through evictions, sweeps, disconnects and a death; no foreign KV cells |
| `pool_live` | `Answered`, `EvictedFreed` | chat and embeddings, fair threads | everything asked for ends, the warm-up too; evicted models are freed |
| `pool_idle` | `Answered`, `IdleReached` | chat and transcription, one thread may die | sweeps reach every idle engine |
| `mem` | `WithinCeiling`, `GrowthLedger`, `OvershootBounded`, `SilenceReachesIdle` | two threads, both backends, up to 6 MiB | correct for calls that do not overlap; a bounded overshoot and idling for all |
| `tasks_processes` | `NoDoubleHeld` (violated) | 2 agents, each in a process of its own, 2 tasks | two `runa tasks claim` are both granted the task |
| `daemon_one` | `SocketTracksDaemon`, `ServedAsAsked`, `BindSucceeds`, `RunEnds` | 3 starts, 2 kills or failed accepts, 2 clients in two directories, 7 paths with clashing stems, an id and a relative one among them | restarts work, clients end, replies come from the file that was named |
| `gen` | `Faithful`, `KvExact`, `ForcedEnds` | 2 generations of 4 tokens, budget 1, batch 2, 1 draft, 1 failed removal | the consumer gets the whole reply's parse, or a panic of the kind described; context and logits row are exact but for what a failed removal left |
| `store` | `SkipSound`, `NothingGarbled`, `PullThenFind`, `HeaderExact` | 2 pulls, 3 fetches, or one of each; 3 revisions, a publication, a kill, a rewrite, writes that fail | the store and the header cache survive kills, failed writes, each other and new revisions |
| `wire` | `SameConversation`, `EveryCallAnswered`, `StreamAgrees`, `LoopEnds` | 2 rounds of 2 calls, replies of 3 pieces, 3 retries | every transport carries the same conversation until the server refuses a thinking block; streams say what whole replies say but for the arguments of calls |
| `cli` | `HistoryWhole`, `SaidIsRemembered`, `EngineAsAsked`, `OnUnfitObeyed`, `AudioHeardOnce`, `ThinkAsAsked`, `LimitSuffices`, `PlanSound`, `SerialExclusive`, `HolderRecorded` | sessions of 3 inputs; every flag and every pair; every key in both files; 18 machines; 3 agents in 2 processes with 2 kills | sessions and runs do what was asked; task commands one after another, and threads of one process, keep the table right |
| `fit_shards` | `ShardsCounted` (violated) | one model in two parts | only the first part of a split model is placed |

Why the bounds are enough: two engines in the pool and a third model is the
least instance in which the LRU order decides the victim; three requests give
one that holds a handle, one that loads and one that hits. Two inputs are the
least that let an eviction fall between two jobs of one request. Races
between two callers need two; of the three agents in `cli` two share a process
and one has its own, so that one may hold, one write and one wait. Both memory backends start below the ceiling of 5 MiB
and can pass it. In `gen` the tags and the stop strings have two symbols and
overlap; four tokens hold an opened, forced and closed block or a cut stop
string, and a symbol of two bytes is where the matcher slices; `DraftTokens`
are drafts that start a stop string, cut a tag or end the reply, and one failed
removal (`MaxStuck`) is enough for its cells to meet the batches after it; the prompt of four fills its last chunk of two, the case
`last_prefill_idx` treats apart; two generations are what a restore needs. In
`daemon_one` two paths share a stem, the stems of two others are the
numbered ids that both numbering rules give out, one path spells an id, and one
is another file where the second client is. In `store` the revisions
differ in size from one of the garbled contents and agree with another, a
header has fields that end before, at and after the first range, and one
revision has a broken one. Pulls and fetches share no file, so `Starts` splits
the instance: two pulls (`MaxPulls`), three fetches (`MaxFetches`: one that
fills the cache, one that is broken and one that reads what it left), or one of
each under the publications of one hub. In `wire` the
second round carries the calls and results of the first, and the third is
over the limit. In `cli` a context of 44 tokens holds two turns and not three,
so trimming happens; the machines put the memory one unit below, at and above
each threshold of the planner for the dense and the expert model.
`MaxIdleQueued` caps a counter that the code does not: the idle jobs that a
sweep may leave in a queue behind a long generation. A second one finds the
context that the first has reset, so it adds work and no new outcome. The proofs
remove the bounds from the results they state (see Proofs).

Deadlock is not checked where the modelled system really stops: when every
request is answered, every client, generation, pull, loop and command done,
or a kill has emptied the task table.

Type invariants (`TypeOK`) are kept for the proofs; those of the pool, the
memory manager, the registry and the generation are proved.

## Fairness

`FairSpec` of `ModelPool` assumes weak fairness of handlers, blocking tasks,
engine threads and the ticker: each is scheduled by the OS or by tokio, a load
returns, a generation ends at `max_tokens`. Weak fairness suffices for the
mutex because no thread takes it more than a bounded number of times between
two steps of another: requests are finite and a sweep does not keep it.
Nothing is assumed of arrivals, disconnects and faults. In `MemoryManager`
a call that began returns (`GrowStep`, `IdleStep`), the clock runs (`Tick`)
and somebody polls (`MaybeIdle`, the ticker of `serve` and `daemon`); in
`Daemon` a waiting client has its read timeout and a started daemon does not
stall, but no daemon has to reply. `ToolLoop` assumes that a step under way is
taken: the loop is one thread of straight code, calls have the timeout of
`McpHub`, and a request returns (the clients set no timeout of their own, so
this rests on the transport). `LoopEnds` needs no choice to be fair: retries
and rounds are bounded.

## Proofs

A theorem holds for every value of the constants that satisfies the named
`ASSUME`s of the module (TLC evaluates those on every run). The few theorems
with a hypothesis of their own say so below.

| Theorem | States | For | Inductive invariant |
| --- | --- | --- | --- |
| `ModelPoolProofs` `TypeCorrect` | `TypeOK` | all | `TypeOK` |
| `PoolInStep`, `PoolBounded` | `LruExact`, `Capacity` | all | `PoolInv` |
| `LruRefinement` | `LruOrder` | `MaxDeaths = 0` | `PoolInv`, `NoHandleYet` |
| `NoJobLost`, `ContextsFresh` | `JobsAccounted`, `FreshContext` | all | `JobInv` |
| `MemoryManagerProofs` `TypeCorrect` | `TypeOK` | all | `TypeOK` |
| `OvershootHolds` | `OvershootBounded` | all | `RaceInv`, `Modest` |
| `CeilingHolds`, `LedgerHolds` | `WithinCeiling`, `GrowthLedger` | all | `SeqInv` |
| `TaskRegistryProofs` `ClaimsExclusive`, `ClaimsOnRecord` | `SerialExclusive`, `HolderRecorded` | all | `RegistryInv` |
| `OneRegistry` | `NoDoubleHeld` | agents of one process | `RegistryInv` |
| `TaskRegistryProofs` `TypeCorrect` | `TasksTypeOK` | all | `TasksTypeOK` |
| `DaemonProofs` `SocketTracked`, `BindAlwaysSucceeds` | `SocketTracksDaemon`, `BindSucceeds` | `OneDaemon` | `SocketInv` |
| `ServesWhatWasAsked` | `ServedAsAsked` | all | `RequestInv` |
| `GenerationProofs` `KvAlwaysExact` | `KvExact` | all | `GenInv` |
| `GenerationProofs` `TypeCorrect` | `TypeOK` | all | `TypeOK` under `GenInv` |
| `HubClientsProofs` `SkipsAreSound`, `PulledIsFound` | `SkipSound`, `PullThenFind` | all | `StoreInv` |
| `NoneGarbled` | `NothingGarbled` | `OneLength` (revisions of one length) | `StoreInv` |
| `HeadersExact` | `HeaderExact` | all | `FetchInv` |
| `CliProofs` `OnUnfitAlways`, `AudioOnce` | `OnUnfitObeyed`, `AudioHeardOnce` | all | `RunInv` |
| `EngineFollowsSession` | `EngineAsAsked` | all | `EngineInv` |
| `HistoryAlwaysWhole` | `HistoryWhole` | all | `HistoryInv` |
| `SaidAlwaysRemembered` | `SaidIsRemembered` | all | `RecallInv` |
| `ThinkAlwaysAsAsked`, `LimitAlwaysSuffices` | `ThinkAsAsked`, `LimitSuffices` | all | `SettledInv` |
| `PlanAlwaysSound` | `PlanSound` | all | `PlanInv` under `SettledInv` |
| `LimitNamed` | what `LimitSuffices` says of one call of `LoadWarnings` | all numbers | none |
| `ToolLoopProofs` `LoopInvariant` | `LoopInv` | all | `LoopInv` |
| `ConversationKept`, `CallsAreAnswered` | `SameConversation`, `EveryCallAnswered` | all | `LoopInv` |

The hypotheses are those under which the code is right: with a thread death
the pool forgets the order, with two daemons the socket of a live one goes,
between processes the mutex of the registry means nothing, and a download of
another length than the metadata gave is left in the store (see the next
section).

The assumptions on the constants say what the types and the checks of the code
give. Bytes, rounds, retries and batches are unsigned; `RunAssumption` and
`CliAssumption` add that a header has heads and a width (the estimates divide
by both) and finitely many tensors. `NoneAssumption` and
the first line of `RunAssumption` keep the value for "absent" apart from the
values that may be there, as an `Option` does.

The arguments:

* Pool. `PoolInv` adds to `LruExact` and `Capacity` that a thread exists only
  once its loader asked for it (`LoaderState`) and that engines in the map
  have live threads (`PoolLive`): a sweep that found a dead one would drop it
  from the map and leave `lru` behind. The counting argument (the number of
  evictions is what brings the map back to `MaxLoaded`) is the lemma
  `EvictionBound`; the refinement rests on the lemmas about orders
  (`RetainOrder`, `TouchOrder`, `SuffixOrder`) and on three about handles:
  what `ensure_engine` hands over is a use (`GiveServes`), a dropped handle
  gives the id back (`DropGivesBack`), every other step leaves both alone
  (`KeepStutters`).
* Jobs. `JobsAccounted` speaks of handlers that wait and is not inductive: a
  thread that ends takes its queue along, so `JobInv` says whose every job is
  (`JobsOwned`), that only running threads have any (`QueuesLive`), that a
  handle is an engine of its model, in the map or not (`HandlesServe`), and
  that the `used` flag is up whenever a context has cells (`CellsFlagged`).
* Memory. `SeqInv` says that in calls that do not overlap at most one thread
  is inside a call (`Alone`) and that what it saw under its last lock still
  holds (`FreshView`); between calls the ledger holds (`RestView`). For calls
  that overlap the bound on `rss` alone is not inductive: `RaceInv` says that
  of the threads that have passed the check and not grown yet one still has
  room for its own demand and the largest one of each of the others
  (`Covers`); the last to measure is one, and when it has grown, or a shrink
  came in between, another takes its place.
* Registry. While the calls of two processes do not overlap one call at most is
  under way (`OneInside`). It carries every line of the file, the row of every
  held claim and a row for every task, so its write loses nothing (`OnRecord`,
  `WriterView`); a cut leaves an empty table, in which nothing can be claimed
  any more (`CutEmpty`). In one process the mutex gives the condition.
* Daemon. `SocketInv` says where the file is for each state of the daemon; only
  a kill or a failed accept leaves it to one that is down. For `ServedAsAsked` an id that was
  resolved must still stand for the same path when it is used: `RequestInv`
  says that the id of a request in work is in the table, under the path that was
  asked for unless that spells an id (`Resolved`), and
  `FreeIdIsFree` and `InsertKeeps` that a model that is entered never takes the
  id of another, whatever the stems are: the table is finite and the numbered
  ids of a stem differ.
* Generation. `GenInv` has an invariant per phase: before a chunk the cells
  are the prefix of the prompt up to it (`PrefillInv`); while decoding they are
  the prompt and the kept tokens, and no others before a removal has failed
  (`DecodeInv`, `Holds`: stuck cells lie beyond the prompt, whence the prompt
  cache stays clean); the entry of the prompt cache
  has the base under which the row a restored generation samples from is the
  last of the prompt (`StoredInv`, by `LastRow`, which is where the remainder
  of `last_prefill_idx` is needed). `CellsOfConcat` and `CellsOfCut` are what a
  batch adds and what the removal of rejected drafts leaves. That the kept
  tokens of a batch are appended in order unless the stream ends is an
  induction over the batch (`AcceptAllKeeps`), made by a least counterexample.
* Store. A sidecar speaks for the file unless the file changed between its hash
  and the sidecar, or in the second of it (`SideSound`); a file that passes for a revision by its length has
  a pull on its way to check it (`ChecksPending`). `PullThenFind` is a lemma
  about the order of names: the first of all files that fit a tag is the
  first of those that are there; a nested one is not listed.
* Header cache. Two facts about the reader: a longer prefix decides as a
  shorter one did unless that was cut (`ParseLonger`), so every prefix of the
  growth that decides gives what the local reader gives, which stops at the
  first (`LocalAgrees`). `FetchInv` says that the buffer of a fetch that no
  publication crossed is a prefix of the served revision as long as the
  doublings say (`Growing`, in `OwnSound`), that fetches that do not overlap are
  alone (`Alone`), and that the two cache files belong together, or the
  description is one that the next probe rejects (`Misfit` in `CacheSound`):
  a fetch writes only after such a rejection and writes the description last, so
  whatever a kill or a failed write leaves half done still carries the rejected
  description, or none. `HeldSound` keeps what a fetch has read in step with the
  files. The ends of the fields and the doublings are
  recursive functions; that they exist and grow is shown by a least
  counterexample (`EndsExist`, `DoublingsExist`).
* Commands. `RouteInv` and `AudioInv` say at each step of a run where the
  prompt and the audio may have gone; `Serves` says that a load gives what the
  session describes, and a reload that fails leaves no session. `TurnInv` says
  that what is sent in a turn is whole once the results that go with the next
  request are added: a round between a call and its results is not, which is
  why `WholeTurns` of the history alone is not inductive. `WholeSuffix` and
  `TrimWhole` say that every cut leaves whole turns, `WholeCalls` that calls
  with their results make a whole one.
* Memory of a session. `SaidIsRemembered` speaks of a session at its prompt.
  In a turn `RecallInv` splits what will be the history into the turns on
  record, the message under way and what stands behind it (`Unfolds`): in the
  REPL the texts behind it are those shown so far, in the TUI they come with
  the answer at the end. `RememberTurn` adds a turn, `RememberSuffix` says that
  a cut forgets the oldest ones only; `Voice` is a flattening, so both rest on
  lemmas about flattened concatenations (`FlattenConcat`, `VoiceConcat`).
* Settings of a run. `Settled` carries from the start of a run to its end what
  was resolved then: the thinking mode is that of the layers, the limit is a
  percent, and every warning was given for a demand that the command still has.
  `ResolvedDecided` says of any stack of layers that the last one that speaks
  decides (`Decided`), by induction over the stack; `NeedExact` and `OverShare`
  are the rounding of the percent.
* Planner. `SumExists`, `SumUnique`, `SumAdd` and `SumSplit` are what a sum over
  a set of tensors is, in whatever order a fold takes them. `PackSound` follows
  the packing along its order: what was left out did not fit then and does not
  fit at the end. `PackRicher` compares two budgets that differ by one byte:
  they agree up to the first tensor that only the larger one takes, and that
  tensor fills it. `PlanInv` says that the plan of a run is `PlanPlacement` of
  its own header and machine for some order of equal tensors.
* Tool loop. While the loop runs the history of the transport, turned back as
  the server does it, is the direct one (`WireInv`), and every call of the
  direct one is followed by its answer or by an output or a call still in hand
  (`Answered` with `Outstanding`): between two requests `EveryCallAnswered`
  is not inductive. A round is refused for a part that the server does not know,
  and the only such part that the client sends is a thinking block (`RefusedIs`).
  The conversions are maps and flattenings of messages, so
  the lemmas say what a translation of a concatenation is.

Inductions over data are made by least counterexamples (`NatMin`, `UpTo`), and
a recursive function or a fold is first shown to exist (`RecExists`,
`FoldExists`): the induction theorems of the library cannot be used here.

What stays with TLC:

* liveness (`Answered`, `EvictedFreed`, `IdleReached`, `SilenceReachesIdle`,
  `RunEnds`, `LoopEnds`): fairness is out of the prover's reach;
* `Faithful`, `ForcedEnds`: the parser of a reply in pieces against the parser
  of the whole. What a turn holds back depends on how tags, stop strings and the
  marker overlap, so this is a statement about a vocabulary of tags, and not
  one for all constants;
* `StreamAgrees`: the events of a stream, written and read again, against the
  whole reply, with fragments of calls and the retries of two clients.

## Where the code and its documentation disagree

Findings in `PROJECT.json`. Two have a run whose property is violated:

* `fit_shards`: `combine_shard_weights` adds up the totals of all the parts of a
  split model, but the planner packs the per-tensor table, which is that of part
  one. `recommend.rs:53` says that the probe sums tensor bytes across all part
  headers.
* `tasks_processes`: the mutex of the task registry (`registry.rs:83`) does not
  span the processes of `runa tasks claim` (`main.rs:2838`), so two claims are
  granted, against M12 of `docs/memory.md`.

In the others a property states exactly what the code does keep:

* `split_emit` (`generate.rs:877`) slices text at byte offsets and panics over a
  character of several bytes near the end when there is a stop string of two
  bytes or more (`Faithful`);
* a failed turn leaves its user message in the history (`main.rs:1860`), though
  `docs/guide.md:189` and `docs/memory.md:614` say that failed turns record
  nothing (`SaidIsRemembered`);
* the server refuses the thinking block that `anthropic.rs` sends back as
  required (`serve.rs:1203`), so a tool loop over the Anthropic API ends after
  the first reply with thinking and calls (`SameConversation`);
* a streamed tool call of the Anthropic client loses its arguments
  (`anthropic.rs:427`), against the comment at `anthropic.rs:385`
  (`StreamAgrees`);
* a quant in a subdirectory of its repository is pulled and never found by its
  tag (`pull.rs:425`; `PullThenFind`).

Found with TLC on instances of these modules that are not among the runs any
more; each is one violated statement of the repository:

* `idle_sweep` (`pool.rs:315`) forgets a dead engine thread in `engines` and
  `last_used` and leaves its id in `lru`; at the front of `lru` it stops the
  eviction loop, and the pool grows past `max_loaded` (`ModelPool` with
  `MaxDeaths = 1`; `Capacity` and `LruExact` are stated for the time before a
  death);
* a second daemon removes the socket of a live one (`daemon.rs:156`), though
  the comment above says that it fails the bind (`Daemon` with two daemons,
  `SocketTracksDaemon`);
* a close tag of several tokens is interrupted after its first, because
  forcing waits while the parser holds text (`think.rs:327`), and the
  reasoning budget is then no cap.

Seen while modelling, and kept out of the properties by their conditions:

* Memory and tasks: the manager checks under one lock and acts under another,
  so overlapping calls may pass the ceiling (by how much is `OvershootBounded`)
  or shrink a process that has just become active; a reader of the task table may see it truncated.
* Daemon: a failed accept ends the daemon before it removes its socket file
  (`daemon.rs:179`); a path that spells an id of the table means that id,
  whatever file it names; a client takes a timeout for an absent daemon; `--lora`, `--mmproj`,
  `--no-prompt-cache` and `--on-unfit` are dropped silently when a daemon
  answers; a relative path is resolved in the daemon's directory; a snapshot
  directory is never found, even if the daemon was started with it; paths `m`,
  `m` and `m-1` on one command line share the id `m-1`.
* Generation: the parser drops `<|message|>` only when it comes in the same
  chunk as its tag; `injected` is never reset, so a second reasoning block of
  one reply is not forced. The prompt cache's key has the path of a model, not
  its content.
* Store: a file that changes between its hash and its sidecar, or in the
  sidecar's second, keeps its stamp (`late` in `SkipSound`), which two pulls of
  one file around a publication can do to each other; a file of the wrong length stays in the store after the
  pull has failed; the size guard refuses cached files too; a kill or a failed write between the
  two files of the header cache may leave bytes without a description, which
  makes every later fetch of that header fail (`unreadable` in `HeaderExact`);
  overlapping fetches, a publication in the middle of one and a hub that goes
  back to an earlier revision can leave bytes of one revision under the
  description of another (`happened`).
* Fit: with some tensors packed on the GPU and the first block not whole the
  verdict is `cpu`, whose need leaves those tensors out; `gpu_layers` looks at
  block 0 only; equal tensors come in the order of a hash map, so a verdict
  near a threshold may change from run to run; a header with no heads divides
  by zero.
* Configuration: `resolve_audio_route` and `resolve_memory_policy` take the
  first file that has the key, the others the last; a bad `RUNA_MEMORY_*`
  variable is ignored; a `grace` is lost when the budget comes from a stronger
  layer; the percent a warning names is capped at 100, where it may still warn
  (`LimitSuffices` excepts it).
* Sessions: after an error event of the daemon the TUI commits what it sent and
  the REPL does not; `count_history_tokens` does not count calls; a reload that fails in the
  TUI ends the session in raw mode.
* Wire: the OpenAI client's stream has no calls; mistral.rs may repeat its
  reasoning at the end of a reply (`mistral.rs:248`; `StreamAgrees` is about its
  text there); a user turn with
  media only is dropped; the tools of the last allowed round are run though
  their outputs are never sent; temporary files of audio and images are left
  behind on early returns.

## Plan

Done: pool, memory manager, task registry, daemon, generation, store and
header cache, wire formats and tool loop, settings, fit, run, chat and
recommendations; proofs of every safety property of the runs but the three
named above. Next, in this order:

1. Proofs: `Faithful` for tags of which none is a piece of another, by the
   lemma that a push of two pieces is a push of both, markers aside.
2. Composition: `Daemon` over `ModelPool` with tokio's workers; the prompt
   cache over `PullStore` (a key that outlives a revision).
3. Thinking options and data URIs of HTTP requests; media prompts in
   `Generation`; the calibration file.

## Not modelled

Numeric code (kernels, sampling, signal processing, the floating point of the
speed model), calls into llama.cpp, whisper and ffmpeg, the wording of
messages, help texts and logs, drawing and line editing of the TUI, vendored
code, and the supervision unit files. `PROJECT.json` lists every component
with its status.
