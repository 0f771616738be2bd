------------------------------ MODULE WorkPool ------------------------------
(***************************************************************************)
(* One pool of packages/coding-agent/src/task/workpool.ts: items pushed    *)
(* by the owner, a serialized chain of dispatches, keep-alive workers that *)
(* run their queued items in batches, and the aggregate job that settles   *)
(* when the pool has drained.                                              *)
(*                                                                         *)
(* An item is its sequence number, a worker its index.  The turn of a      *)
(* worker is a black box that ends with some outcome; whether the worker   *)
(* may be used again (its ref idle or parked, its yield contract cleared)  *)
(* is decided outside of the pool.  Which idle worker is least loaded and  *)
(* which busy one is next in the round robin is left open.                 *)
(***************************************************************************)
EXTENDS Naturals, Sequences, FiniteSets, Functions

CONSTANTS MaxItems,  \* bound: items pushed
          Limits,    \* the values of task.maxConcurrency, 0 for no limit
          JobRoom    \* running jobs the job manager admits beside those of others

ASSUME WorkPoolAssumption ==
    /\ MaxItems \in Nat /\ Limits \subseteq Nat /\ Limits # {} /\ JobRoom \in Nat \ {0}

Items == 1..MaxItems
Workers == 1..MaxItems

VARIABLES
    item,       \* status of each item, "none" before it is pushed
    chain,      \* items on the dispatch chain
    spawning,   \* <<item, index>> of each #spawn that awaits an agent id
    agent,      \* state of each worker, "none" unless in the agents list
    nextIndex,  \* #nextAgentIndex
    queue,      \* items waiting at each worker
    freshQueue, \* #freshQueue, of a pool that starts an agent per item
    batch,      \* items of each worker's current batch
    turn,       \* of each worker: its turn
    poolJob,    \* the aggregate job
    awaited,    \* workers whose batch job the aggregate job waits for
    closed,
    late,       \* items pushed after the aggregate job had seen the drain
    fresh,      \* eval.workpool.freshAgents when the pool was created
    limit,      \* limit(): task.maxConcurrency, read anew at every call
    seen        \* history: what the last dispatch that reserved had read

vars == <<item, chain, spawning, agent, nextIndex, queue, freshQueue, batch, turn,
          poolJob, awaited, closed, late, fresh, limit, seen>>

(* What the user may change at any moment, and what only properties read. *)
setting == <<limit, seen>>

Statuses == {"none", "queued", "running", "completed", "failed", "cancelled"}
Terminal == {"completed", "failed", "cancelled"}

(* A turn: "on"; "settling" while the outcome is known and the yield       *)
(* contract of the worker is being cleared; "jobless" when the manager     *)
(* refused the batch job and no turn will ever run.                        *)
Turns == {"off", "on", "settling", "jobless"}

TypeOK ==
    /\ item \in [Items -> Statuses]
    /\ chain \in Seq(Items)
    /\ spawning \subseteq Items \X Workers
    /\ agent \in [Workers -> {"none", "running", "idle"}]
    /\ nextIndex \in 1..(MaxItems + 1)
    /\ queue \in [Workers -> Seq(Items)]
    /\ freshQueue \in Seq(Items)
    /\ batch \in [Workers -> SUBSET Items]
    /\ turn \in [Workers -> Turns]
    /\ poolJob \in {"none", "waiting", "collecting", "done"}
    /\ awaited \subseteq Workers
    /\ closed \in BOOLEAN
    /\ late \subseteq Items
    /\ fresh \in BOOLEAN
    /\ limit \in Limits
    /\ seen \in Limits

Init ==
    /\ item = [i \in Items |-> "none"]
    /\ chain = <<>>
    /\ spawning = {}
    /\ agent = [w \in Workers |-> "none"]
    /\ nextIndex = 1
    /\ queue = [w \in Workers |-> <<>>]
    /\ freshQueue = <<>>
    /\ batch = [w \in Workers |-> {}]
    /\ turn = [w \in Workers |-> "off"]
    /\ poolJob = "none"
    /\ awaited = {}
    /\ closed = FALSE
    /\ late = {}
    /\ fresh \in BOOLEAN
    /\ limit \in Limits
    /\ seen = limit

Agents == {w \in Workers : agent[w] # "none"}
HasRoom == limit = 0 \/ Cardinality(Agents) < limit

(* Jobs of the pool that count against the manager's limit; the aggregate  *)
(* job is registered as queued and does not.                               *)
ActiveJobs == {w \in Workers : turn[w] \in {"on", "settling"}}

(* Variant: only items that run are looked at. *)
NothingRuns(its) == \A i \in Items : its[i] # "running"

IsDrained(its) == \A i \in Items : its[i] \notin {"queued", "running"}

(* The first drained moment wakes the aggregate job, which then waits for  *)
(* the batch jobs there are.                                               *)
NotifyDrained(its, active) ==
    IF IsDrained(its) /\ poolJob = "waiting"
    THEN poolJob' = "collecting" /\ awaited' = active
    ELSE UNCHANGED poolJob /\ awaited' = awaited \cap active

-----------------------------------------------------------------------------
(* push() and close(). *)

(* The first push starts the aggregate job.  Until the last batch job has  *)
(* settled the aggregate job is unfinished, and the pool open, even after  *)
(* the job has seen the drain.                                             *)
Push(i) ==
    /\ ~closed
    /\ item[i] = "none"
    /\ \A j \in Items : j < i => item[j] # "none"
    /\ poolJob = "collecting" => awaited # {}
    /\ item' = [item EXCEPT ![i] = "queued"]
    /\ chain' = Append(chain, i)
    /\ poolJob' = IF poolJob = "none" THEN "waiting" ELSE poolJob
    /\ late' = IF poolJob = "collecting" THEN late \cup {i} ELSE late
    /\ UNCHANGED <<spawning, agent, nextIndex, queue, freshQueue, batch, turn, awaited,
                   closed, fresh, setting>>

(* By the owner, by the end of its session, by a cancelled aggregate job   *)
(* (which also aborts the turns).                                          *)
Close ==
    LET its == [i \in Items |-> IF item[i] = "queued" THEN "cancelled" ELSE item[i]] IN
    /\ ~closed
    /\ closed' = TRUE
    /\ item' = its
    /\ queue' = [w \in Workers |-> <<>>]
    /\ freshQueue' = <<>>
    /\ NotifyDrained(its, ActiveJobs)
    /\ UNCHANGED <<chain, spawning, agent, nextIndex, batch, turn, late, fresh, setting>>

-----------------------------------------------------------------------------
(* Batches. *)

(* #drain of a worker with work: its items become a batch and a job.  The  *)
(* job is refused when the others fill the manager.                        *)
StartBatch(w, its, others) ==
    /\ item' = [i \in Items |-> IF i \in its THEN "running" ELSE item[i]]
    /\ batch' = [batch EXCEPT ![w] = its]
    /\ turn' = [turn EXCEPT ![w] = IF others < JobRoom THEN "on" ELSE "jobless"]

(* The turn of a worker ends; the items are terminal at once. *)
TurnEnds(w, outcome) ==
    /\ turn[w] = "on"
    /\ turn' = [turn EXCEPT ![w] = "settling"]
    /\ item' = [i \in Items |-> IF i \in batch[w] THEN outcome ELSE item[i]]
    /\ UNCHANGED <<chain, spawning, agent, nextIndex, queue, freshQueue, batch, poolJob,
                   awaited, closed, late, fresh, setting>>

TurnOver(w) ==
    /\ turn' = [turn EXCEPT ![w] = "off"]
    /\ batch' = [batch EXCEPT ![w] = {}]

(* A worker that ran one item and is dropped gives its place to the next. *)
FreshWorkerDone(w) ==
    /\ turn[w] = "settling"
    /\ fresh
    /\ agent' = [agent EXCEPT ![w] = "none"]
    /\ chain' = IF freshQueue = <<>> THEN chain ELSE Append(chain, Head(freshQueue))
    /\ freshQueue' = IF freshQueue = <<>> THEN <<>> ELSE Tail(freshQueue)
    /\ TurnOver(w)
    /\ NotifyDrained(item, ActiveJobs \ {w})
    /\ UNCHANGED <<item, spawning, nextIndex, queue, closed, late, fresh, setting>>

(* Variant: the worker is left as busy. *)
WorkerStaysBusy(w) ==
    /\ turn[w] = "settling"
    /\ ~fresh
    /\ queue[w] = <<>>
    /\ TurnOver(w)
    /\ NotifyDrained(item, ActiveJobs \ {w})
    /\ UNCHANGED <<item, chain, spawning, agent, nextIndex, queue, freshQueue, closed, late,
                   fresh, setting>>

(* A worker that can be used again has nothing to do. *)
WorkerIdles(w) ==
    /\ turn[w] = "settling"
    /\ ~fresh
    /\ queue[w] = <<>>
    /\ agent' = [agent EXCEPT ![w] = "idle"]
    /\ TurnOver(w)
    /\ NotifyDrained(item, ActiveJobs \ {w})
    /\ UNCHANGED <<item, chain, spawning, nextIndex, queue, freshQueue, closed, late,
                   fresh, setting>>

(* ...or runs what has queued up.  Its old job has not ended yet and still *)
(* counts against the manager's limit.                                     *)
WorkerContinues(w) ==
    /\ turn[w] = "settling"
    /\ ~fresh
    /\ queue[w] # <<>>
    /\ StartBatch(w, Range(queue[w]), Cardinality(ActiveJobs))
    /\ queue' = [queue EXCEPT ![w] = <<>>]
    /\ awaited' = awaited \ {w}
    /\ UNCHANGED <<chain, spawning, agent, nextIndex, freshQueue, poolJob, closed, late, fresh, setting>>

(* Variant: what was queued at a dropped worker is forgotten. *)
RequeueNothing(w) == chain

Requeue(w) == chain \o queue[w]

(* A worker that cannot be used again is dropped. *)
WorkerDies(w) ==
    /\ turn[w] = "settling"
    /\ ~fresh
    /\ agent' = [agent EXCEPT ![w] = "none"]
    /\ chain' = Requeue(w)
    /\ queue' = [queue EXCEPT ![w] = <<>>]
    /\ TurnOver(w)
    /\ NotifyDrained(item, ActiveJobs \ {w})
    /\ UNCHANGED <<item, spawning, nextIndex, freshQueue, closed, late, fresh, setting>>

-----------------------------------------------------------------------------
(* The dispatch chain. *)

(* Variant: a dispatch does not wait for the one before it. *)
AlwaysNext == chain # <<>>

ChainFree == chain # <<>> /\ spawning = {}

Dispatchable == ~closed /\ item[Head(chain)] = "queued"

Skip ==
    /\ ChainFree
    /\ ~Dispatchable
    /\ chain' = Tail(chain)
    /\ UNCHANGED <<item, spawning, agent, nextIndex, queue, freshQueue, batch, turn, poolJob,
                   awaited, closed, late, fresh, setting>>

(* A fresh pool that is full. *)
QueueFresh ==
    /\ ChainFree
    /\ Dispatchable
    /\ fresh
    /\ ~HasRoom
    /\ freshQueue' = Append(freshQueue, Head(chain))
    /\ chain' = Tail(chain)
    /\ UNCHANGED <<item, spawning, agent, nextIndex, queue, batch, turn, poolJob, awaited,
                   closed, late, fresh, setting>>

(* Variant: #leastLoadedIdle does not look at the state. *)
AnyWorkers == Agents

IdleWorkers == {w \in Agents : agent[w] = "idle"}

(* An idle worker starts at once. *)
DispatchToIdle(w) ==
    /\ ChainFree
    /\ Dispatchable
    /\ ~fresh
    /\ w \in IdleWorkers
    /\ agent' = [agent EXCEPT ![w] = "running"]
    /\ StartBatch(w, {Head(chain)}, Cardinality(ActiveJobs))
    /\ chain' = Tail(chain)
    /\ UNCHANGED <<spawning, nextIndex, queue, freshQueue, poolJob, awaited, closed,
                   late, fresh, setting>>

NoneIdle == fresh \/ IdleWorkers = {}
NoneBusy == \A w \in Workers : agent[w] # "running"

(* #spawn: an index is taken and an agent id reserved. *)
Reserve ==
    /\ ChainFree
    /\ Dispatchable
    /\ NoneIdle
    /\ HasRoom \/ (~fresh /\ NoneBusy)
    /\ spawning' = spawning \cup {<<Head(chain), nextIndex>>}
    /\ nextIndex' = nextIndex + 1
    /\ chain' = Tail(chain)
    /\ seen' = limit
    /\ UNCHANGED <<item, agent, queue, freshQueue, batch, turn, poolJob, awaited, closed,
                   late, fresh, limit>>

DispatchToBusy(w) ==
    /\ ChainFree
    /\ Dispatchable
    /\ NoneIdle
    /\ ~fresh
    /\ ~HasRoom
    /\ agent[w] = "running"
    /\ queue' = [queue EXCEPT ![w] = Append(@, Head(chain))]
    /\ chain' = Tail(chain)
    /\ UNCHANGED <<item, spawning, agent, nextIndex, freshQueue, batch, turn, poolJob, awaited,
                   closed, late, fresh, setting>>

(* The id is there: a worker with its first batch. *)
Spawn(i, w) ==
    /\ <<i, w>> \in spawning
    /\ ~closed
    /\ item[i] = "queued"
    /\ spawning' = spawning \ {<<i, w>>}
    /\ agent' = [agent EXCEPT ![w] = "running"]
    /\ StartBatch(w, {i}, Cardinality(ActiveJobs))
    /\ UNCHANGED <<chain, nextIndex, queue, freshQueue, poolJob, awaited, closed,
                   late, fresh, setting>>

SpawnTooLate(i, w) ==
    /\ <<i, w>> \in spawning
    /\ closed \/ item[i] # "queued"
    /\ spawning' = spawning \ {<<i, w>>}
    /\ UNCHANGED <<item, chain, agent, nextIndex, queue, freshQueue, batch, turn, poolJob,
                   awaited, closed, late, fresh, setting>>

(* No id could be reserved: the catch of the chain fails the item. *)
SpawnFails(i, w) ==
    LET its == [item EXCEPT ![i] = IF @ = "queued" THEN "failed" ELSE @] IN
    /\ <<i, w>> \in spawning
    /\ spawning' = spawning \ {<<i, w>>}
    /\ item' = its
    /\ NotifyDrained(its, ActiveJobs)
    /\ UNCHANGED <<chain, agent, nextIndex, queue, freshQueue, batch, turn, closed, late,
                   fresh, setting>>

-----------------------------------------------------------------------------
(* The aggregate job has seen the batch jobs it knew of settle: it takes   *)
(* their results, closes the pool and reports.                             *)
Aggregate ==
    /\ poolJob = "collecting"
    /\ awaited = {}
    /\ poolJob' = "done"
    /\ closed' = TRUE
    /\ UNCHANGED <<item, chain, spawning, agent, nextIndex, queue, freshQueue, batch, turn,
                   awaited, late, fresh, setting>>

WorkerSettles(w) ==
    \/ FreshWorkerDone(w)
    \/ WorkerIdles(w)
    \/ WorkerContinues(w)
    \/ WorkerDies(w)

Chain ==
    \/ Skip
    \/ QueueFresh
    \/ Reserve
    \/ \E w \in Workers : DispatchToIdle(w) \/ DispatchToBusy(w)

SpawnSettles ==
    \E i \in Items, w \in Workers : Spawn(i, w) \/ SpawnTooLate(i, w) \/ SpawnFails(i, w)

(* The setting is live: a change reaches the next look at the limit, and   *)
(* no worker that is there.                                                *)
SetLimit(l) ==
    /\ limit' = l
    /\ UNCHANGED <<item, chain, spawning, agent, nextIndex, queue, freshQueue, batch, turn,
                   poolJob, awaited, closed, late, fresh, seen>>

(* A closed pool whose job has reported, or never started, rests. *)
Over == closed /\ poolJob \in {"none", "done"} /\ UNCHANGED vars

Next ==
    \/ \E i \in Items : Push(i)
    \/ Close
    \/ \E w \in Workers :
        \/ \E outcome \in Terminal : TurnEnds(w, outcome)
        \/ WorkerSettles(w)
    \/ Chain
    \/ SpawnSettles
    \/ Aggregate
    \/ \E l \in Limits : SetLimit(l)
    \/ Over

Spec == Init /\ [][Next]_vars

(* What the pool awaits comes: a turn of an agent ends, a reservation      *)
(* settles, a promise of the chain is followed by the next.                *)
FairSpec ==
    /\ Spec
    /\ \A w \in Workers :
        /\ WF_vars(\E outcome \in Terminal : TurnEnds(w, outcome))
        /\ WF_vars(WorkerSettles(w))
    /\ WF_vars(Chain)
    /\ WF_vars(SpawnSettles)
    /\ WF_vars(Aggregate)

-----------------------------------------------------------------------------
(* Properties. *)

Occurrences(s, i) == {n \in DOMAIN s : s[n] = i}

(* The places an item that waits can be in. *)
PlacesOf(i) ==
    {<<"chain", n>> : n \in Occurrences(chain, i)}
        \cup {<<"fresh", n>> : n \in Occurrences(freshQueue, i)}
        \cup (UNION {{<<"worker", w, n>> : n \in Occurrences(queue[w], i)} : w \in Workers})
        \cup {<<"spawn", p[2]>> : p \in {q \in spawning : q[1] = i}}

(* While the pool is open, an item that waits is in exactly one place, an  *)
(* item that runs is in exactly one batch: none is lost on its way between *)
(* chain, workers and queues, and none is given to two workers.            *)
ItemInOnePlace ==
    \A i \in Items :
        /\ item[i] = "queued" /\ ~closed => \E p \in PlacesOf(i) : PlacesOf(i) = {p}
        /\ item[i] = "running" => \E w \in Agents : batch[w] \cap {i} # {}
        /\ \A v, w \in Workers : i \in batch[v] \cap batch[w] => v = w

(* A worker gets a batch only when every item of its last one is settled:  *)
(* no turn is started over a running one.                                  *)
OneTurnPerWorker ==
    [][\A w \in Workers :
        batch'[w] # {} /\ batch'[w] # batch[w] => \A i \in batch[w] : item[i] \in Terminal]_vars

(* A worker that counts as busy has a turn under way, whose end looks at   *)
(* its queue: the items #nextBusy hands it are never left with a worker    *)
(* that rests, or with one whose batch the job manager refused.            *)
BusyHasTurn ==
    \A w \in Workers :
        /\ agent[w] = "running" <=> turn[w] \in {"on", "settling"}
        /\ queue[w] # <<>> => agent[w] = "running"

(* What BusyHasTurn needs: the pool may never have as many workers as the  *)
(* manager admits jobs (task.maxConcurrency is 32 by default, and 0 for no *)
(* limit; async.maxJobs is 100 at most, less what other jobs take).        *)
EnoughRoom == \A l \in Limits : l # 0 /\ l < JobRoom

(* A worker is added only within the limit its dispatch has read, although *)
(* the dispatch awaits a reservation between that look and the new worker, *)
(* and the setting may be moved and other workers may come and go then.    *)
GrowsWithinLimit ==
    [][Cardinality(Agents') > Cardinality(Agents)
          => seen = 0 \/ Cardinality(Agents') <= seen]_vars

(* When the aggregate job reports, every item the pool accepted before the *)
(* job saw the drain is settled.                                           *)
AcceptedIsReported ==
    poolJob = "done" => \A i \in Items \ late : item[i] \notin {"queued", "running"}

(* "Later discoveries MAY be pushed while the pool job is still running"   *)
(* (prompts/system/workflow-notice.md:32) and "results auto-deliver"       *)
(* (prompts/tools/eval.md:28): so are those pushed while the last batch    *)
(* jobs settle.  The code does not hold this, see the README.              *)
EveryItemIsReported ==
    poolJob = "done" => \A i \in Items : item[i] \notin {"queued", "running"}

(* The queue of a fresh pool is shifted when a worker ends, and by nothing *)
(* else.  When the reservation for the last worker fails, whatever is      *)
(* queued stays until something more is pushed, or the pool closed.        *)
Stranded(i) ==
    /\ fresh /\ Agents = {} /\ chain = <<>> /\ spawning = {}
    /\ i \in Range(freshQueue)

(* A worker that dies, a spawn that fails, a limit that moves, a close:    *)
(* every item accepted before the drain still ends and the aggregate job   *)
(* reports, unless a failed reservation strands the queue of a fresh pool. *)
PoolDrains ==
    /\ \A i \in Items :
          item[i] = "queued" /\ i \notin late ~> item[i] \in Terminal \/ Stranded(i)
    /\ poolJob = "waiting" ~> poolJob = "done" \/ \E i \in Items : Stranded(i)
=============================================================================
