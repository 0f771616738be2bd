# Verification of the agent orchestration runtime

This directory holds TLA+ modules for the parts of the repository that decide
who runs, who waits and who is told: the subagent orchestration of
`packages/coding-agent/src`, and the job queue of the robomp service, which
does the same for whole issues (`python/robomp/src`). TLC checks the modules on
small instances, TLAPS proves theorems about them for every value of their
constants. Paths below are relative to `packages/coding-agent/src` unless they
start with `packages/` or `python/`.

## 1. The system

| part | state | operations | how it meets the others |
|---|---|---|---|
| spawn semaphore (`task/parallel.ts`, `task/index.ts`) | ceiling, permits out, waiters | acquire, release, resize, abort | every subagent of a session runs under it; the `task.maxConcurrency` setting moves its ceiling |
| provider semaphore (`task/provider-concurrency.ts`) | one semaphore and limit per provider | wrap a stream: acquire, stream, release | shared by all sessions of the process, each with a limit of its own |
| agent registry (`registry/agent-registry.ts`) | refs by id: status, session, file | register, claim, attach, detach, set status, unregister | change events drive the lifecycle manager |
| lifecycle manager (`registry/agent-lifecycle.ts`) | adoptions with TTL timers, parks, revivals | adopt, park, ensureLive, release | called by the executor, the message bus, the hub and the Agent Hub; disposes and reopens sessions |
| persisted agents (`registry/persisted-agents.ts`, `task/persisted-revive.ts`) | session files and tombstone sidecars on disk | scan a directory, offer a reviver | restores refs after a restart |
| task executor (`task/executor.ts`) | one run per spawn | spawn, finalize, revive | creates sessions (`sdk.ts`), adopts or releases them at the end |
| job manager (`async/job-manager.ts`) | job rows, deliveries, suppression marks, timers | register, deliver, retry, acknowledge, consume, cancel, evict | the session's sink takes a delivery, `session/yield-queue.ts` parks it, the agent loop injects it |
| job readers (`tools/hub`, `tools/bash.ts`, `tools/eval.ts`) | watched ids, foreground waits | wait, snapshot, cancel, let go | take results out of the manager before or instead of a delivery |
| workpools (`task/workpool.ts`) | items, a chain of dispatches, workers with queues and batches | push, dispatch, spawn, settle a turn, close | batches are jobs of the job manager, workers are kept-alive agents, the limit is the spawn limit |
| message bus (`irc/bus.ts`, `session/irc-bridge.ts`, `tools/hub/messaging.ts`) | mailboxes, waiters, the records pending in each session, replies a session owes | send, wait, take, inbox, hand over, relay | revives recipients through the lifecycle manager, interrupts and wakes sessions, the executor relays the output of a wake turn |
| robomp queue (`python/robomp/src/queue.py`, `db.py`, `slot_pool.py`) | the events table on disk; in memory the issues in flight, tasks, slots, cancel hooks | record, claim, run, mark, retry, cancel, stop, start | webhooks and operators write rows, worker threads run the sessions, a restart picks up what was running |
| not modelled | | | `mapWithConcurrencyLimit`, pause gate, vibe runtime, MCP manager, session files, authentication, what a robomp event does once it runs, native crates, interfaces |

What is hard here is not computation but order. All of it is one JavaScript
process: no two pieces of code run at once, but every `await` lets anything else
run, and what was read before it may be false after it. The code answers with
object identities (a ref, a session, a run, a conversation number that must
still be the same), with cancellation flags and with suppression marks. The
models put an action between any two awaits and let everything happen there.
robomp is a Python process with one event loop as well, but its database calls
and its sessions run in threads, which a cancelled coroutine leaves behind, and
its table outlives it: there a crash may come between any two steps.

What makes each part correct:

- semaphores: no permit is lost, doubled or idle; nobody is admitted above the
  ceiling in force; first come, first served; everybody gets through;
- lifecycle: one writer per session file, no live session out of reach, no
  stale work against a newer ref, what was killed stays dead, every call ends,
  idle agents are parked and running ones are not;
- jobs: each result reaches the model, once, in its own conversation, and a
  session that reported quiet is quiet;
- workpools: every accepted item is run once or given up, a pool grows only within
  its limit, and drains;
- messages: each is read at most once and never vanishes, receipts are true,
  nobody waits for an answer that cannot come, nor is told to stop waiting for one
  that comes;
- robomp: one run per issue, no slot lost, no row left running with nobody
  behind it, cancellations that hit and stick, every event ends.

## 2. The modules

### Semaphore, PermitPool, SpawnSlots, ProviderSlots

`Semaphore` is the class of `task/parallel.ts` as a record and one operator per
method. `admitted` holds the callers between the resolution of their promise and
their continuation: the only moment at which a permit has an owner that does not
know it yet. `0` stands for the infinite ceiling.

`SpawnSlots` adds the task tool: three paths (detached job, single inline spawn,
worker of a fan-out) with their `semaphoreHeld` flag, the setting, which reaches
the semaphore only when `#getSpawnSemaphore()` is called, and aborts at any
point. The fan-out keeps the semaphore it fetched for its batch, so its acquire
may come without a resize.

`ProviderSlots` puts a tree of agents over one provider: an agent alternates
requests and tools, tools spawn children, a slot is held for a request only.

`PermitPool` is what both promise, stated without a counter and without resolved
promises: a ceiling, a line of callers and a set of owners. Every step ends by
admitting the oldest waiters until the line is empty or the ceiling reached. The
refinement mappings are in the two modules. A spawn owns a permit from the
moment the semaphore admits it, while `held` is set; the ceiling is that of the
semaphore, so a changed setting that no call has fetched yet is a stutter. An
agent owns a slot from its admission to the end of its stream, and the ceiling
is the limit of the provider's entry, which for this mapping to hold must never
differ from the ceiling of its semaphore.

### AgentRegistry, AgentLifecycle

`AgentRegistry` is the registry seen from one id. Each registration of the id is
a *generation*; refs that lost the id are kept, because code still holds them.
`AgentLifecycle` composes it with the manager, the executor, the dispose wrapper
of `sdk.ts`, the scan and the disk. Each async function is a record with a
program counter: `park`, one `call` per ensureLive() caller, one `rel` per
release() caller, one `exec` per spawned generation, `scan`.

The event loop is modelled where it matters: a continuation of a settled promise
is a microtask and runs before the next timer or finished I/O, so `TimerFires`
and the steps that wait for I/O need `~MicrotasksPending`.

### JobManager, AsyncJobs

`JobManager` is the manager as a record with one operator per method.
`AsyncJobs` composes it with the session: the sink (format, park on the yield
queue, wait for the receipt), the idle flush and the step boundary of the agent
loop, the hub's wait, jobs and cancel, foreground bash and eval calls, turns that
are aborted, conversations that begin. `injected` and `recovered` are history
variables: what the model was told by a follow-up, and by a reader.

Two facts of scheduling are in the guards, with a comment where they stand: an
eviction window (minutes) outlasts the promise callbacks of a hand-over, and a
job outlasts the formatting of what an earlier job of its id left. A *photo
finish*, a job that settles within the callbacks between the end of a race and
the code after it, is explicit (`PhotoFinishes`).

### WorkPool

One pool, with the dispatch chain as a sequence: `ChainFree` lets a dispatch
begin when the one before it is over, and the only await in a dispatch is the
reservation of an agent id (`spawning`). `limit()` reads the live
`task.maxConcurrency` setting, so `SetLimit` moves it at any moment, also during
that await, and also below the number of workers there are; `seen` is what the last
dispatch had read. A worker's turn is a black box; between
its end and the return of its job the yield contract is cleared (`"settling"`),
and there pushes, dispatches and a close come in. `late` is a history variable:
the items pushed after the aggregate job had seen the drain. A worker's queue is a
sequence in the order of arrival, and a worker that dies hands its batch and its
queue back to the front of the chain in that order. Which idle worker is least
loaded, and which busy one the round robin is at, is left open. The job manager
refuses a batch when `JobRoom` jobs run: the worker then has no turn (`"jobless"`).
`EnoughRoom` says that a pool cannot meet this by itself, as with the default
settings; `BusyHasTurn` needs it.

### IrcBus

A message is an identity with fixed sender, recipient and, when it can wake an
agent, the relay that answers it. `stage` says where it is in `IrcBus.#deliver`:
at the lifecycle gate, past it, bounced but not buffered yet. A turn sees its
input, sends, waits and ends; while what it left to do is awaited the session is
`"settling"`, not streaming and so open to the next wake.

A wake turn owes its output to the senders of the records that woke it, one relay
for each, from its start on (`owed`), since that is when the observer registers the
reply with the session. When it is over the debt moves to `due`, one entry per
turn, until its run is finalized and its relays are sent: only then does the code
ask `sentSince()` whether the waker was answered meanwhile, so what later turns
have sent counts too (`Relay`, `SkipRelay`). `before` is what the agent had sent
when the turn began. A terminal end settles the asks of the agent at once when
nothing is owed, and otherwise leaves them to `Verdict` (`ended`); that
`waitForReplies()` with nothing owed and the settling after it are two microtasks
is one step here. `told` is a history variable: asks that were told of the stop once
their question was out of the bus and out of the queues of the peer. For a question
that is still on its way the code promises nothing: a stop of the peer that was
running then may overtake it.

`lost` collects the messages the code drops: the oldest of a full mailbox,
the records of a conversation that is left, and what a wait consumed for a send
that then failed. The lifecycle is that of `AgentLifecycle`, reduced to live,
parked and gone.

### EventStore, EventQueue

`EventStore` is the events table as a value with one operator per statement.
`EventQueue` is the rest: the dispatcher coroutine, one task per claimed row, the
worker thread of each task as a variable of its own (`stage`), since a cancelled
task leaves its thread behind, the slot pool, the cancel hooks, `stop()` step by
step, and crashes. The dispatch loop itself may end, on any exception of a claim or
of a put-back (`DispatcherCrashes`): it is logged, the process goes on serving
(`Headless`), running tasks finish, and nobody starts another loop; a row that could
not be put back stays running until a restart. Statements of a task or of a request
are taken to succeed. `LoseMemory` keeps the table and resets everything else. A row
without an issue key is a row with a key of its own. The claim query skips rows
whose issue has a running row; that alone does not keep two runs of an issue
apart, because a row is inactive while its task still sweeps the workspace. The
in-memory set does, which is what `OneRunPerIssue` is about.

### Variants

An operator whose comment begins with "Variant:" is a plausible wrong version of
the operator after it. No specification uses it; with it in place of the right
one, the property named for it in `PROJECT.json` fails, which shows that the
property depends on that piece of the code.

## 3. What is checked

Passing runs:

| run | instance | shows |
|---|---|---|
| `spawn_slots` | 3 spawns, limits -1, 1, 2 | permits are accounted; waiters are exactly the suspended spawns; every step is a step of `PermitPool` or none, hence no idle permit, no admission above the ceiling, nobody overtaken; every spawn settles |
| `provider_slots` | a root with three children, 2 requests each, limits -1, 1, 2 | slots match requests, the limiter is a `PermitPool` under the limit in force, no tree deadlocks on itself |
| `lifecycle` | 2 generations, 2 sessions, 2 callers, tombstone kills, cold revival, crashes, scans | detached when terminal, no orphan, one writer, killed stays dead, no disposing session handed out |
| `lifecycle_plain` | 2 generations, 3 sessions, 2 callers, plain releases, cold revival, scans, no restart | stale work is harmless but for the return of a reviver factory; a live session escapes only on a ref that a plain release forgot |
| `lifecycle_live` | 1 generation, 2 callers, fair scheduling | calls and releases end, idle agents are parked |
| `async_jobs` | 2 jobs, an id used twice, 2 conversations, messages | no duplicate, no leak into another conversation, quiet stays quiet |
| `async_jobs_live` | 2 jobs, 2 conversations, no messages | every completed result reaches the model |
| `event_queue` | 3 deliveries of 2 issues, 1 slot, 2 processes, 1 re-trigger, no retries, a dispatch loop that may die | one run per issue, slots conserved, no stuck row, cancellations hit their run and stick, outcomes are recorded |
| `event_queue_live` | 2 deliveries of one issue, a retry each | every event ends, unless the dispatch loop has died |
| `work_pool` | 3 items, a limit that moves between 1 and 2, room for 3 jobs, keep-alive and fresh | items in one place, busy workers have turns, growth within the limit, one turn per worker, accepted items are reported, the pool drains unless a failed reservation strands a fresh queue |
| `irc_bus` | an asker and a subagent; a question, its answer, its relay; an ask and a hub wait; mailbox of one | messages in one place, receipts true, waiters are the waits, asks settle, and who is told of a stop is not answered afterwards |

One run is expected to fail, `waker_unanswered`: a wake turn ends, and while its
relay is being prepared the session is woken again by the same peer. The relay,
sent after the second turn has begun, makes `sentSince()` report the peer as answered, and
the output of the second turn is sent to nobody. `PROJECT.json` quotes what the
code says of it under `findings`.

The type invariants are theorems; `irc_bus` checks its own as well, because it
bounds the mailboxes. Where a refinement or a
theorem already says what a simpler property says (`NoIdlePermit`,
`AdmissionUnderCeiling`, `FirstComeFirstServed`, `RequestsUnderLimit`), the
property is stated in the module and not run again.

### Known divergences

Instances in which a property fails, found on the way. The passing runs leave
out, through their constants or an exception the property names, only the kind of
release, revival or message by which the code breaks it. Each entry says how to see
it: make a copy of the configuration, or of the property, with the change.

| property | change | what happens |
|---|---|---|
| `NeverHandsOutDisposing` | without `rel[k].kind \in Tombstones` in `BeingDisposedOf`, `lifecycle_plain` | a plain `release()` awaits `dispose()` while the ref still carries the session, and `ensureLive()` returns it (`registry/agent-lifecycle.ts:13`: "A disposing session is never handed out.") |
| `StaleWorkIsHarmless` | without `~FactoryReturns(c)`, `lifecycle_plain` | a cold revival whose factory returns late replaces the adoption of a newer ref (`registry/agent-lifecycle.ts:18-20`, `:404`) |
| `NoOrphanSession` | `lifecycle_plain` with this invariant | a plain release that has waited forgets a ref whose session was revived meanwhile; `OnlyForgottenEscape` says that nothing else leads there |
| none | the hub tool's cancel | it checks one ref, awaits its abort and releases whatever the id names by then (`tools/hub/jobs.ts:414-415`, `:437`); `KillAborted` does the same, so the model shows what follows from it, but the code makes no check that a property could be about |
| `ResultReachesModel` | `async_jobs_live` with `Messages = TRUE` | a message that beats a settling job unwatches it after its delivery was dropped as watched (`tools/hub/index.ts:507-509`: "job results re-deliver themselves") |
| `NoInjectionAcrossConversations` | `async_jobs` with `SlowDelivery = TRUE` | a delivery that waits for a retry when its row is evicted survives a new conversation (`async/job-manager.ts:592-594`) |
| `NoSpawnAfterStop` | `event_queue` with this property | a cancelled task leaves its thread, which starts the session after `stop()` has returned (`python/robomp/src/queue.py:136-141`) |
| `EveryItemIsReported` | `work_pool` with this invariant | an item pushed between the drain and `closed = true` is accepted and missing from the aggregate result (`prompts/system/workflow-notice.md:32`) |
| `PoolDrains` | without `Stranded(i)` | the queue of a fresh pool is shifted only when a worker ends; when the reservation for the last worker fails, whatever is queued waits for another push or the close (`task/workpool.ts:226-234`, `:480`) |
| `EventSettles` | without `disp.at = "crashed"`, `event_queue_live` | any exception ends the dispatch loop for good while the process serves (`python/robomp/src/queue.py:213-214`) |

A revived session that is running already is reported idle and may be parked
mid-run; no property is stated against it. A job manager that is full refuses a
batch job, and the worker keeps its items without a turn, so that the pool never
drains: `JobRoom` exceeds the limit in `work_pool`, and the theorem about busy
workers says so (`EnoughRoom`).

### Bounds

`Gens` and `Sessions` number the refs and sessions that may exist: two of each
are enough for an old and a new owner of an id, and every stale-work argument
is about such a pair. `lifecycle_plain` has three sessions, because a plain release
escapes only where a second revival can meet a session that was spawned and one
that was revived. Two callers suffice for coalescing (one owns a revival, one
joins). `MaxRuns` is how often a job id is registered (two: old and new),
`MaxSessions` how many conversations there are, `MaxTries` how often a delivery
is retried, `MaxTurns` how many requests one agent makes. Three spawns give a
holder, a waiter and a waiter behind it, which is what order and abandonment are
about. In `provider_slots` the tree is deeper than the limit one and wider than
the limit two, the two ways in which a tree could wait for its own slots, and
three children leave two in line, which is what its order is about.

Two events of one issue and one of another, with one slot, give a run that holds
issue and slot, one that waits for the issue and one that waits for the slot; two
processes (`MaxStarts`) give a crash or stop and what follows it; `MaxReopens`
counts the requests of operators. The attempt counter is kept up to one more than
the budget, beyond which every count is refused alike. `event_queue` has no
retries, so that what `CancelSticks` says of a retried row cannot happen there; the
theorem `CancelledRowsFail` is for every budget, and `event_queue_live` retries once.

`MaxItems` bounds pushes and with them workers, since each worker begins with an
item. Three items under a limit that moves between one and two give a worker with a
running and a waiting item, a limit below the number of workers, and, at limit one,
a fresh queue of two behind a reservation that fails, which is the stranded queue of
"Known divergences". `JobRoom` is three, above both limits.

In `irc_bus` one question with its answer and relay already makes the four kinds of
delivery compete; a mailbox of one overflows with the second bounced message.
`MaxSends` bounds what turns send, relays come on top. An agent that dies never
comes back there, so nobody reads a mailbox; each of the two agents has
one wait, so filters never choose between two. The theorems about messages are for
any waits and filters.

### Fairness

Liveness is checked under fairness of what the event loop does by itself:
continuations, timers, I/O that settles one way or the other, job bodies and
runs that end. Nobody has to call, spawn, prompt, kill or configure. Strong
fairness is assumed for tasks (`TimerFires`, steps after I/O, the step boundary
of the agent loop) because the queue of the event loop is first in, first out: a
task that becomes ready again and again between microtasks of others gets its
turn.

`CHECK_DEADLOCK FALSE` stands in the lifecycle and job configurations, whose
bounded supplies of refs and sessions run out, as they may in a session that
simply ends, and in `irc_bus`, where an agent that is gone stays so.

For robomp: coroutines and threads proceed, backoffs end, the hard timeout ends
every session, and a service manager starts the next process. The lock and the
slot pool are first in, first out, hence strong fairness of acquiring a slot and
of letting go of an issue. `Crash` and `Stop` need another process to follow, so
the last one the bound allows lives on; a bound on crashes is what every eventual
claim about a retried job needs. The dispatch loop proceeds as long as it lives;
`DispatcherCrashes` has no fairness and may happen at any statement of the loop, and
`EventSettles` promises nothing to the events of a process whose loop has died. For
the pool: turns end, reservations settle,
the chain goes on; nobody has to push or close. For messages: what the bus awaits
settles, the poll for peer interrupts runs, hub waits have a window, and a turn
that waits for nothing ends; the window of an ask may be disabled, so `AskSettles`
is checked without it. One step is ruled out by time, with a comment where it
stands: no park comes between the end of a turn and the verdict on the asks it
leaves, since the idle timer takes minutes and the verdict awaits no I/O.

## 4. What is proved

`SemaphoreProofs` proves, for every semaphore, what each operation does:
types, `Tight` (no waiter beside a free permit), `Under` (nobody admitted above
the ceiling) and `Counted`, the accounting of permits against the callers that
are suspended (`W`), that went on (`R`) and that left a permit for release()
(`k`). Counting rests on the library's finite-set theorems: admitting the `n`
oldest waiters of a queue without repetitions adds exactly `n` owners.

Its second half is about what a step does to the line: whatever a caller runs in
one go (resize, then acquire or release), the outcome is that some number of the
oldest waiters has been admitted (`Grants`), and none above the ceiling.

`SpawnSlotsProofs` uses the lemmas for every finite set of spawns and any set of
integer limits. The properties are not inductive by themselves: that release()
returns a permit that is out needs the flag `held` to agree with the program
counter, and that nobody is counted twice needs the queue to be free of
repetitions and disjoint from the admitted. `IInv` is their conjunction:

    TypeOK, Tight(sem), held[j] iff j runs,
    Counted(sem, Spawns, Waiting, Running, 0), no queued spawn is aborted

Proved from `SpawnSlotsAssumption` alone:

- `SpawnSlotsType`: `Spec => []TypeOK`
- `PermitsAlwaysAccounted`: `Spec => []PermitsAccounted`
- `NeverIdlePermit`: `Spec => []NoIdlePermit`
- `NeverAbandonedWaiter`: `Spec => []NoAbandonedWaiter`
- `AlwaysAdmittedUnderCeiling`: `Spec => AdmissionUnderCeiling`
- `SpawnSlotsImplementsPool`: `Spec => ImplementsPermitPool`

`ProviderSlotsProofs` does the same for every finite tree, from
`ProviderSlotsAssumption` alone. Its invariant has one conjunct more, `limit =
sem.max`: getProviderSemaphore() resizes only when the entry's limit differs, so
the two must never drift apart.

- `ProviderSlotsType`: `Spec => []TypeOK`
- `SlotsAlwaysMatchRequests`: `Spec => []SlotsMatchRequests`
- `RequestsAlwaysUnderLimit`: `Spec => RequestsUnderLimit`
- `ProviderSlotsImplementsPool`: `Spec => ImplementsPermitPool`

In both refinements the initial states map to initial states of the pool, and
`StepOfPool` maps each action to an action of the pool or to none: a start or
request is `Acquire`, or `Resize` when its signal has fired; the end of a run or
of a stream is `Release`; an abort in line is `Abandon`; the continuation of an
admitted caller is a stutter.

`AgentLifecycleProofs` is about every set of generations, sessions and callers,
any kinds of release, with and without cold revival and restarts.

- `LifecycleType`: `Spec => []TypeOK`
- `ParkedOrAbortedDetached`: `Spec => []DetachedWhenParkedOrAborted`

The types are not inductive: actions reach the session file through a ref, and
only a ref that was registered has one. So the invariant says that everything
that holds a ref (the id itself, an adoption, a park, a call, a release, an
executor, the scan) holds one that exists. The argument has two layers. First,
for any registry value, each registry operation keeps it well formed (`Sound`:
types, and detached when parked or aborted) and keeps every ref that exists
(`Follows`). Then each action of the manager has to show only which operations
it applies and which refs it passes on.

What kills promise comes on top of that invariant.

- `KilledAgentsStayDead`: `Spec => []KilledStaysDead`

It rests on five facts more (`DeadInv`): every killed file has its sidecar; a
release that reports success for a kill has written it (`Marked`); an executor
between its probe and its registration has made no ref; a scan reads a file that the
id does not name, and one that looked for the sidecar too early does not read a
killed file (`ScanApart`); and the property itself. A plain release, which does
forget a terminal ref, makes no difference: what could bring the agent back then is
a scan of its file, and that finds the sidecar. `Keeps` says what every registry
operation but register() does to the refs, so that only the three registrations (a
spawn, a spawn after a corpse, a scan) need an argument of their own.

The rest of the module is about the sessions themselves.

- `OneWriterPerFile`: `Spec => []OneWriterPerRef`, for all kinds of release
- `OnlyForgottenEscapes`: `Spec => []OnlyForgottenEscape`, for all kinds of release

That a session file has one writer is nobody's lock but the outcome of how the
manager's maps are used, and `WInv` says how: a ref has one revival, which
`#revivals` names while the ref is current (`OneRevival`); whoever waited for a
park goes on before the next park begins (`ParksInTurn`); the ref of an executor
that is constructing has had no session (`NewRefs`); the ref of a revival that has
not attached is detached and no park touches it (`RevivedDetached`); a revival in
progress, a ref with a session and a parked ref each account for every active
session of the ref (`RevivalWrites`, `AttachedWrites`, `ParkedWrites`), which
leaves at most one (`OneActive`). Most steps are `Quiet`: they register, attach
and park nothing and start no revival, and one lemma covers them. The others have
an argument each: a park begins, commits and ends, a revival begins, claims,
attaches and returns, a spawn or a scan registers, a spawn attaches.

For the second theorem (`Held`), a live session is attached to the ref the id
names, or captured by a release that has its sidecar to write, or left behind on a
ref that lost the id with the session attached. The third case is the escape of a
plain release that has waited for its hook and forgets a ref revived meanwhile (see
"Known divergences"); under tombstone kills alone `NoOrphanSession` excludes it in
the run `lifecycle`. The step where another session could be lost is the end of a
dispose, which forgets the ref: the session disposed of was the only one of its ref,
by the first theorem. That a session left behind stays that way is `LostStay`:
nothing changes a ref that lost the id.

- `StaleWorkStaysHarmless`: `Spec => StaleWorkIsHarmless`, for all kinds of release,
  with cold revival and restarts

Every step of a park, a release, a revival, a dispose or an executor publishes
through the ref it is bound to (`Through`), so it can reach a newer ref only
through the adoption, which belongs to the id, and what it drops or re-arms there
is the adoption of its own ref or none (`BoundTo`). One step adopts without looking
at the registry again, the return of a cold reviver's factory; the property names
it, and "Known divergences" tells what it does. A restart ends all stale work
together with the refs it worked on, and the property, which compares the two
registries, says nothing useful of that step.

- `DisposingNeverHandedOut`: `Spec => NeverHandsOutDisposing`, for all kinds of
  release

Whatever `ensureLive()` returns was attached (`HandsOutAttached`), and what is
attached is not being disposed of by a park or a kill for good, because both detach
first (`LetGo`); the property is about these two, since a plain release does not
detach. The hard part is a revival: it attaches its session and returns
it later. In between the ref stays running with that session, or was killed
(`WiringRuns`): the session reports no status before it is synced, the timer
stands still while its ref runs (`TimerIdle`), so no park begins, and an executor
that still runs is alone with its ref (`ExecutorsAlone`). TLC checked `HandInv` as
an invariant before it was proved. The inductive invariant is `WInv`, `TimerIdle` and
`LetGoInv`; plain releases leave all three alone.

None of these theorems assumes anything of `KillKinds`, `ColdRevival` or
`MayRestart`. What only holds without plain releases is left to TLC
(`NoOrphanSession`).

`EventQueueProofs` is about any events, issues, slots, retry budget and bounds.

- `TypeCorrect`: `Spec => []TypeOK`
- `IssuesAreExclusive`: `Spec => []OneRunPerIssue`
- `SlotsAreConserved`: `Spec => []SlotsConserved`
- `RowsNeverStick`: `Spec => []NoStuckRow`
- `CancelIsForThisRun`: `Spec => []CancelTargetsThisRun`
- `CancelledRowsFail`: `Spec => CancelSticks`
- `OutcomesAreRecorded`: `Spec => OutcomeIsRecorded`

That no issue runs twice follows from what holds it: while the process serves,
whatever is busy has its issue in `_inflight`. It needs that a thread without a
task exists only after `stop()` began (`ThreadHasTask`), which needs that nobody
is interrupted before (`InterruptedByStop`); that flags, hooks and slots belong to
tasks (`FlagsInMemory`, `SlotHasTask`); and that the dispatcher is there while the
process serves, unless its loop died (`DispatcherServes`). `RowsNeverStick` counts a
row that a dead loop could not put back: it is running with nobody behind it until
the next start, and the property says that it is the only one. `IInv` is the conjunction of these and of the
five invariants.

`WorkPoolProofs` is about any number of items, any set of limits and any job room.

- `BusyWorkersHaveTurns`: `Spec => [](EnoughRoom => BusyHasTurn)`
- `GrowthIsKept`: `Spec => GrowsWithinLimit`
- `ItemsAreInOnePlace`: `Spec => []ItemInOnePlace`
- `OneTurnAtATime`: `Spec => OneTurnPerWorker`
- `AcceptedItemsAreReported`: `Spec => []AcceptedIsReported`
- `WorkPoolType`: `Spec => []TypeOK`

The invariants are layers, each inductive over the ones below it. `TurnInv`: a
pool of fresh workers has no worker queues. `LimitInv`: at most one reservation is
under way, and the room it was made for stays free under the limit that was read,
wherever the setting is moved meanwhile (`RoomIsKept`). `RefusalInv`: where the job
manager has more room than the pool may ever have workers, no batch is refused,
because every batch job is that of a worker. `IndexInv`: the index of the
next worker has not been used, so a reserved worker is a new one. `WaitInv`: the
chain and the queues are free of repetitions and apart from each other and from
the reservation; what waits in them is queued, or cancelled; as long as the pool
is open whatever is queued is in one of them; what runs is in exactly one batch.
`ReportInv`: once the aggregate job saw the drain, only late items are queued or
running. `TypeInv`: an item has left its line for every index given away, so the
index never passes the number of items.

`IrcBusProofs` is about any agents, messages and waits and any cap of the mailboxes.

- `IrcBusType`: `Spec => []TypeOK`
- `WaitersAlwaysWait`: `Spec => []WaitersWait`
- `VerdictsAreFinal`: `Spec => VerdictIsFinal`
- `EveryMessageInOnePlace`: `Spec => []OnePlace`
- `ReceiptsStayTrue`: `Spec => []ReceiptIsTrue`

They rest on `IrcBusAssumption`, which says what the code makes true by
construction: a relay answers one message and is no ask, and each `await: true`
send has a wait of its own. The argument has two layers. `WaitInv` keeps the
waiters of an agent equal to its waits that wait, gives a message only to a wait
that returned one, and lets an ask wait only after its send began. A delivery runs
in a context that the synchronous part of its send prepared, so what a hand-over
does is proved once, for any context that is `Ready`, and a send, an ask, a relay
and the continuation behind the gate only have to show theirs is. `PlaceInv` says
that there is one function from messages to places (on its way, mailbox, queue of
the session, wait, conversation, inbox answer, lost) of which every variable is a
view: each queue holds, without repetition, just the messages of its place and
addressee. A step changes the function at the messages it moves, and every
conjunct is recomputed from that; `OnePlace` and `ReceiptIsTrue` are read off it.
`VerdictsAreFinal` is about questions that are *open*: pending in a session, in the
turn they woke, or due to be relayed (`Open`). `ReplyInv` says that a question whose
asker was told of a stop is neither open nor in the bus, and since only the bus puts
messages into a session it never is open again; a relay answers an open question.
What is left of a list once settled waits are taken out (`Rest`) is computed by a
recursive function; `RestIs` proves by the least counterexample that it holds the
others, each once, which is how induction is done here without the induction
theorems of the library.

`AsyncJobsProofs` is about any jobs, runs, conversations and retries.

- `AsyncJobsType`: `Spec => []TypeOK`
- `QuietIsFinal`: `Spec => QuietStaysQuiet`
- `InjectedOnlyOnce`: `Spec => OnceWhileRowLasts`
- `InjectedAtHome`: `Spec => HomeWhileRowLasts`

A step of the session settles several deliveries or jobs at once: the model folds
the manager's operation over them. What such a fold returns is stated as a value
(`ThrowIs`, `ReturnIs`, `SettleIs`: what is left of the deliveries, which rows are
hastened, which jobs have ended), and holds because two functions that satisfy the
equation of a fold agree on every finite set (`FoldIsUnique`, by a least set on
which they would differ). `ManagerOK` says what every operation of the manager
keeps: types, a running row has its body, nothing waits in the manager for an id
that is suppressed. `BInv` adds what manager and session agree on: who is watched,
whose foreground wait is acknowledged, when something is pulled. The first two
theorems need no more.

The last two rest on `OInv`. A delivery is *fresh*, if it stands for the row its id
has now, or an *orphan*, if it is still being formatted for a conversation that is
over (`OnceOK`); each id has at most one; a row that is evicted soon has none. What
has been shown is a run that ended and is not under way again, and the id of a
result a reader was given stays suppressed while its row lasts (`HistoryOK`). Most
steps only move deliveries on or drop them while rows follow (`Moves`,
`RowsFollow`), and one lemma covers them; a step that starts, ends or evicts jobs
touches only ids with orphans (`NewRows`); and a new conversation leaves nothing
behind but orphans. The retention timer evicts rows under deliveries that wait for a
retry, and with the row goes what the manager knows of its readers; so the theorems
are about the results whose row lasts (`RowLasts`), and of the others they say
nothing ("Known divergences" has what happens to them). The run `async_jobs` checks
the claims without this condition, for deliveries that do not outlast retention.

Only model-checked: everything about liveness (the prover has no rule for
fairness and ENABLED); `FirstComeFirstServed`, which the refinement of the pool
implies; `NoOrphanSession`, which needs kills for good only; of the jobs
`NoDuplicateInjection` and `NoInjectionAcrossConversations` for deliveries within
retention.

## 5. Not modelled

`dispose()` of the two managers at process exit; the poll ladder, retained
artifacts and drainDeliveries of the job manager; two hub waits in one turn (the idle flush is one step,
because it is one in the code: `YieldQueue.#flush` passes the drained entries to
`agent.prompt()`, which runs without an await up to the loop that appends them to the
context, `packages/agent/src/agent.ts:1289-1331`, `:1442`,
`packages/agent/src/agent-loop.ts:602-608`); `mapWithConcurrencyLimit`; of the bus, broadcasts, display relays, auto-replies,
plan mode and the steering of a child by its parent; of robomp, the other tables,
deferred closures, the garbage collection of the natives cache, and everything a
run does to GitHub; names, texts and rendering; what a run does inside a session.
Most of the repository by size is of that kind: catalogs, provider protocols,
settings, interfaces and tools whose core is data. `PROJECT.json` names the parts
left out.

Hazards of the modelled parts that no property speaks of, because the code makes
no promise about them or the model leaves the piece out:

- lifecycle: a revived session reported idle while it runs
  (`registry/agent-lifecycle.ts:568`); an adoption after the manager's dispose
  (`:508`); a session handed out while it is still being wired (`sdk.ts:4115`);
- jobs: two hub waits of one turn that share the watched ids
  (`tools/hub/index.ts:470`); the manager's dispose against its retries
  (`async/job-manager.ts:749`); the launched work of a fan-out that failed
  (`task/parallel.ts:51`);
- workpools: the job limit refuses a batch and the pool hangs
  (`task/workpool.ts:358`);
- messages: mail buffered after the wait has looked (`irc/bus.ts:238`); a message
  consumed by the wait of a send that failed (`tools/hub/messaging.ts:365`); a wait
  that matches the sender only (`irc/bus.ts:455`); a mailbox that survives its agent
  (`:436`); an older message that overwrites the time of a newer one (`:138`);
  wakes that were deferred and dropped by a dispose
  (`session/agent-session.ts:4700`);
- robomp: a put-back that uses up a try (`python/robomp/src/queue.py:227`); a
  cancellation between the check and the installation of the hook (`:245`); a
  cancelled run that a stop interrupts and a restart runs again (`:292`); work that
  had just returned and is done again (`:291`); a slot whose thread still starts
  (`:337`).

## 6. Plan

Done, in this order: the semaphore and its two users, the abstract pool they
implement, the lifecycle of an id, the jobs of a session, the robomp queue, the
workpools, the message bus; proofs about spawn permits, provider slots, the
registry under the lifecycle manager, kills, sessions, the robomp queue, the
workpools, the messages and the jobs.

What would come next, in order of weight:

1. `ParallelMap` (`mapWithConcurrencyLimit`, both variants): first error wins,
   launched work drains, results keep their places.
2. `IrcBus` composed with `AgentLifecycle` instead of its reduction; broadcasts
   and auto-replies.
3. Deferred closures of robomp (`autoclose.py`) and their claim protocol.
4. dispose() of both managers; two hub waits; the pause gate.
5. An abstract at-most-once mailbox implemented by `AsyncJobs`, on top of `OInv`.
