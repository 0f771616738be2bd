----------------------------- MODULE AsyncJobs -----------------------------
(***************************************************************************)
(* Background jobs of one session: the job manager (JobManager) composed   *)
(* with the readers of a result in the session that owns the jobs          *)
(* (packages/coding-agent/src/session/agent-session.ts and yield-queue.ts, *)
(* tools/hub, tools/bash.ts and tools/eval.ts).  The result of a job may   *)
(* reach the model                                                         *)
(*                                                                         *)
(*   as a follow-up message: the delivery loop hands it to the session's   *)
(*       sink, which formats it (an await), parks it on the yield queue    *)
(*       and waits until it is injected or thrown out;                     *)
(*   in a snapshot of the hub tool, asked for at any time or at the end of *)
(*       a hub wait, which watches the jobs while it blocks;               *)
(*   as the answer of the bash or eval call that started the job, which    *)
(*       waits in the foreground for a while before it lets go.            *)
(*                                                                         *)
(* Meanwhile the user may interrupt the turn or start a new conversation   *)
(* under the same owner id, and rows are evicted by their timers.          *)
(***************************************************************************)
EXTENDS JobManager, FiniteSetsExt

CONSTANTS SlowDelivery,  \* the retention window (5 min) may run out while a
                         \* delivery is parked in a long turn or tried again
          Messages       \* a peer's message may end a hub wait

ASSUME AsyncJobsAssumption == SlowDelivery \in BOOLEAN /\ Messages \in BOOLEAN

VARIABLES mgr,       \* the job manager
          session,   \* "idle", "tools" (a model turn and its tool calls) or
                     \* "boundary" (asides pulled, not yet in the transcript)
          epoch,     \* the conversation: #asyncDeliveryEpoch
          hub,       \* the jobs an open hub wait watches
          fg,        \* the jobs a bash or eval call waits for
          injected,  \* history: follow-ups injected for each run of each job
          recovered  \* history: runs whose result a reader was given

vars == <<mgr, session, epoch, hub, fg, injected, recovered>>

Init ==
    /\ mgr = NewManager
    /\ session = "idle"
    /\ epoch = 1
    /\ hub = {}
    /\ fg = {}
    /\ injected = [r \in Jobs \X Runs |-> 0]
    /\ recovered = {}

CurrentRun(j) == <<j, mgr.row[j].run>>

(* Variant: what the sink has in hand does not count.                      *)
PendingInManager ==
    \/ \E j \in Jobs : mgr.row[j].status = "running" /\ ~Suppressed(mgr, j)
    \/ \E d \in Waiting(mgr) : ~Suppressed(mgr, d.job)
    \/ \E d \in mgr.deliveries : d.st = "parked"

(* #hasPendingAsyncWake(). *)
PendingAsyncWake ==
    \/ \E j \in Jobs : mgr.row[j].status = "running" /\ ~Suppressed(mgr, j)
    \/ \E d \in mgr.deliveries : d.st = "parked" \/ ~Suppressed(mgr, d.job)

(* The "async-result" dispatcher's isStale. *)
Stale(d) == d.epoch # epoch \/ Suppressed(mgr, d.job)

Parked == {d \in mgr.deliveries : d.st = "parked"}
Pulled == {d \in mgr.deliveries : d.st = "pulled"}

Throw(m, ds) == FoldSet(LAMBDA d, acc : SinkThrew(acc, d), m, ds)
Return(m, ds) == FoldSet(LAMBDA d, acc : SinkReturned(acc, d), m, ds)

(* Bound: a delivery is tried again at most MaxTries times. *)
MayThrow(ds) ==
    \A d \in ds : d.tries < MaxTries \/ Suppressed(mgr, d.job) \/ ~HasRow(mgr, d.job)

(* The receipt of each of ds resolves as its message enters the transcript. *)
Inject(ds) ==
    injected' = [r \in Jobs \X Runs |->
        injected[r] + Cardinality({d \in ds : <<d.job, d.run>> = r})]

(* A reader is shown the results of js that nobody was shown before. *)
Recover(js) ==
    recovered' = recovered \cup
        {CurrentRun(j) : j \in {k \in js \ mgr.consumed : HasResult(mgr, k)}}

-----------------------------------------------------------------------------
(* The user prompts. *)
StartTurn ==
    /\ session = "idle"
    /\ session' = "tools"
    /\ UNCHANGED <<mgr, epoch, hub, fg, injected, recovered>>

(* A tool call starts a job in the background. *)
StartJob(j) ==
    /\ session = "tools"
    /\ ~HasRow(mgr, j) /\ mgr.row[j].run < MaxRuns
    /\ mgr' = RegisterJob(mgr, j, epoch)
    /\ UNCHANGED <<session, epoch, hub, fg, injected, recovered>>

(* bash or eval starts a job and waits for it: its delivery is acknowledged *)
(* beforehand.                                                              *)
StartForeground(j) ==
    /\ session = "tools"
    /\ ~HasRow(mgr, j) /\ mgr.row[j].run < MaxRuns
    /\ mgr' = Acknowledge(RegisterJob(mgr, j, epoch), {j})
    /\ fg' = fg \cup {j}
    /\ UNCHANGED <<session, epoch, hub, injected, recovered>>

(* The job body ends.  A job outlasts the formatting of what an earlier job *)
(* of its id left behind.                                                   *)
JobSettles(j) ==
    /\ mgr.row[j].busy
    /\ \A d \in OfJob(mgr, j) : d.st # "formatting"
    /\ mgr' = BodySettles(mgr, j)
    /\ UNCHANGED <<session, epoch, hub, fg, injected, recovered>>

(* The foreground wait ends because the job has settled. *)
ForegroundReturns(j) ==
    /\ j \in fg
    /\ ~mgr.row[j].busy
    /\ fg' = fg \ {j}
    /\ recovered' = recovered \cup {CurrentRun(j)}
    /\ UNCHANGED <<mgr, session, epoch, hub, injected>>

(* The jobs of js that are still executing may settle in the few promise   *)
(* callbacks between the end of a race and the code that follows it.       *)
PhotoFinishes(m, js) ==
    {FoldSet(LAMBDA j, acc : BodySettles(acc, j), m, late) :
        late \in SUBSET {j \in js : m.row[j].busy}}

(* The foreground wait gives up (threshold or steering) before the job has  *)
(* settled: it goes on in the background.                                   *)
ForegroundLetsGo(j) ==
    /\ j \in fg
    /\ mgr.row[j].busy
    /\ fg' = fg \ {j}
    /\ \E m \in PhotoFinishes(mgr, {j}) : mgr' = ResumeDelivery(m, j)
    /\ UNCHANGED <<session, epoch, hub, injected, recovered>>

(* Variant: the queue is looked at by the next delivery only.              *)
LoopStaysOff == mgr' = [mgr EXCEPT !.loop = "off"]

(* The finally handler of #ensureDeliveryLoop() runs. *)
LoopEnds ==
    mgr' = EnsureLoop([mgr EXCEPT !.loop = "off"])

(* #runDeliveryLoop(): drop the head, or hand it to the sink, or stop.  The *)
(* sink remembers the conversation it was called in.                        *)
DeliveryLoop ==
    /\ \/ \E d \in Waiting(mgr) :
             /\ mgr.loop = "on"
             /\ IF Suppressed(mgr, d.job)
                THEN mgr' = [mgr EXCEPT !.deliveries = @ \ {d}]
                ELSE /\ d.st = "queued"
                     /\ mgr' = [mgr EXCEPT !.deliveries =
                           (@ \ {d}) \cup {[d EXCEPT !.st = "formatting", !.epoch = epoch]}]
       \/ /\ mgr.loop = "on"
          /\ Waiting(mgr) = {}
          /\ mgr' = [mgr EXCEPT !.loop = "ending"]
       \/ /\ mgr.loop = "ending"
          /\ LoopEnds
    /\ UNCHANGED <<session, epoch, hub, fg, injected, recovered>>

BackoffElapses(d) ==
    /\ d \in mgr.deliveries /\ d.st = "backoff"
    /\ mgr' = [mgr EXCEPT !.deliveries = (@ \ {d}) \cup {[d EXCEPT !.st = "queued"]}]
    /\ UNCHANGED <<session, epoch, hub, fg, injected, recovered>>

(* Variant: the sink does not look at the conversation after its await.    *)
SuppressedOnly(d) == Suppressed(mgr, d.job)

(* What #deliverAsyncJobResult() asks again once the result is formatted. *)
NoLongerWanted(d) == d.epoch # epoch \/ Suppressed(mgr, d.job)

(* The rest of #deliverAsyncJobResult(): park the follow-up, under the      *)
(* conversation the sink was called in.                                     *)
FormatReturns(d) ==
    /\ d \in mgr.deliveries /\ d.st = "formatting"
    /\ mgr' = IF NoLongerWanted(d)
              THEN SinkReturned(mgr, d)
              ELSE [mgr EXCEPT !.deliveries =
                       (@ \ {d}) \cup {[d EXCEPT !.st = "parked"]}]
    /\ UNCHANGED <<session, epoch, hub, fg, injected, recovered>>

(* The idle flush: the follow-ups that are not stale start a turn.  From    *)
(* the drain to the receipts there is no await: agent.prompt() runs         *)
(* synchronously up to agentLoop(), which commits its prompts first.        *)
IdleFlush ==
    /\ session = "idle"
    /\ Parked # {}
    /\ LET stale == {d \in Parked : Stale(d)} IN
       /\ MayThrow(stale)
       /\ mgr' = Return(Throw(mgr, stale), Parked \ stale)
       /\ Inject(Parked \ stale)
       /\ session' = IF stale = Parked THEN "idle" ELSE "tools"
    /\ UNCHANGED <<epoch, hub, fg, recovered>>

(* The step boundary of a run: the follow-ups are pulled into the loop. *)
PullAsides ==
    /\ session = "tools"
    /\ hub = {} /\ fg = {}
    /\ LET stale == {d \in Parked : Stale(d)}
           taken == Parked \ stale
       IN  /\ MayThrow(stale)
           /\ mgr' = Throw([mgr EXCEPT !.deliveries =
                              (@ \ taken) \cup {[d EXCEPT !.st = "pulled"] : d \in taken}],
                           stale)
    /\ session' = "boundary"
    /\ UNCHANGED <<epoch, hub, fg, injected, recovered>>

(* The loop goes on: what was pulled enters the transcript.  It may stop   *)
(* only when nothing was.                                                  *)
CommitAsides ==
    /\ session = "boundary"
    /\ mgr' = Return(mgr, Pulled)
    /\ Inject(Pulled)
    /\ session' \in (IF Pulled = {} THEN {"tools", "idle"} ELSE {"tools"})
    /\ UNCHANGED <<epoch, hub, fg, recovered>>

(***************************************************************************)
(* The turn is interrupted or meets its deadline.  What was pulled is      *)
(* thrown back; a hub wait returns with its snapshot; a foreground call    *)
(* cancels its job and fails with the output so far.                       *)
(***************************************************************************)
TurnAborted ==
    /\ session \in {"tools", "boundary"}
    /\ MayThrow(Pulled)
    /\ LET unwatched == [CancelJobs(mgr, fg) EXCEPT !.watched = @ \ hub]
           settled   == {j \in hub : HasResult(mgr, j)}
       IN  mgr' = Throw(IF hub = {} THEN unwatched
                        ELSE ConsumeJobResults(unwatched, settled), Pulled)
    /\ recovered' = recovered
          \cup {CurrentRun(j) : j \in {k \in hub \ mgr.consumed : HasResult(mgr, k)}}
          \cup {CurrentRun(j) : j \in {k \in fg : HasResult(mgr, k)}}
    /\ hub' = {}
    /\ fg' = {}
    /\ session' = "idle"
    /\ UNCHANGED <<epoch, injected>>

(* hub wait: watch some running jobs and block. *)
HubWait(js) ==
    /\ session = "tools"
    /\ hub = {} /\ js # {}
    /\ \A j \in js : mgr.row[j].status = "running"
    /\ hub' = js
    /\ mgr' = [mgr EXCEPT !.watched = @ \cup js]
    /\ UNCHANGED <<session, epoch, fg, injected, recovered>>

(* buildJobResult(): a snapshot consumes every settled job it shows. *)
SnapshotOf(m, js) ==
    ConsumeJobResults(m, {j \in js : m.row[j].status \in {"completed", "cancelled"}})

(* The wait ends because a job settled or the window is over. *)
HubWaitReturns ==
    /\ hub # {}
    /\ mgr' = SnapshotOf([mgr EXCEPT !.watched = @ \ hub], hub)
    /\ Recover(hub)
    /\ hub' = {}
    /\ UNCHANGED <<session, epoch, fg, injected>>

(* A message wins the race, even a photo finish: it is all the wait        *)
(* returns.                                                                *)
HubWaitGetsMessage ==
    /\ Messages
    /\ hub # {}
    /\ \A j \in hub : mgr.row[j].busy
    /\ \E m \in PhotoFinishes(mgr, hub) : mgr' = [m EXCEPT !.watched = @ \ hub]
    /\ hub' = {}
    /\ UNCHANGED <<session, epoch, fg, injected, recovered>>

(* hub jobs: a snapshot of every row. *)
HubJobs ==
    /\ session = "tools"
    /\ \E j \in Jobs : HasRow(mgr, j)
    /\ mgr' = SnapshotOf(mgr, Jobs)
    /\ Recover(Jobs)
    /\ UNCHANGED <<session, epoch, hub, fg, injected>>

(* hub cancel of one job. *)
HubCancel(j) ==
    /\ session = "tools"
    /\ HasRow(mgr, j)
    /\ mgr' = SnapshotOf(CancelJobs(mgr, {j}), {j})
    /\ Recover({j})
    /\ UNCHANGED <<session, epoch, hub, fg, injected>>

(***************************************************************************)
(* The eviction timer of a row fires.  Its window is far longer than the   *)
(* promise callbacks that end a wait for a settled job, and longer than    *)
(* the hand-over of a result to the sink and its formatting.               *)
(***************************************************************************)
EvictionTimerFires(j) ==
    /\ mgr.row[j].timer # "off"
    /\ j \notin hub \cup fg
    /\ \A d \in OfJob(mgr, j) : d.st \notin {"queued", "formatting"}
    /\ mgr.row[j].timer = "retention" => SlowDelivery \/ OfJob(mgr, j) = {}
    /\ mgr' = Evict(mgr, {j})
    /\ UNCHANGED <<session, epoch, hub, fg, injected, recovered>>

(***************************************************************************)
(* A new conversation (#cancelOwnAsyncJobs()), after the turn was aborted: *)
(* cancel what runs, evict what has settled, and clear the yield queue,    *)
(* whose receipts reject.                                                  *)
(***************************************************************************)
NewConversation ==
    /\ session = "idle"
    /\ epoch < MaxSessions
    /\ MayThrow(Parked)
    /\ mgr' = Throw(EvictCompletedJobs(CancelJobs(mgr, Jobs)), Parked)
    /\ epoch' = epoch + 1
    /\ UNCHANGED <<session, hub, fg, injected, recovered>>

Next ==
    \/ StartTurn
    \/ DeliveryLoop
    \/ IdleFlush
    \/ PullAsides
    \/ CommitAsides
    \/ TurnAborted
    \/ HubWaitReturns
    \/ HubWaitGetsMessage
    \/ HubJobs
    \/ NewConversation
    \/ \E js \in SUBSET Jobs : HubWait(js)
    \/ \E j \in Jobs :
          \/ StartJob(j)
          \/ StartForeground(j)
          \/ JobSettles(j)
          \/ ForegroundReturns(j)
          \/ ForegroundLetsGo(j)
          \/ HubCancel(j)
          \/ EvictionTimerFires(j)
    \/ \E d \in mgr.deliveries : BackoffElapses(d) \/ FormatReturns(d)

Spec == Init /\ [][Next]_vars

(***************************************************************************)
(* Jobs end, promise callbacks and timers run, and waits have a window.    *)
(* The model may call tools for ever, but every call ends, and with it the *)
(* step.  Nobody has to prompt, interrupt or start a conversation.         *)
(***************************************************************************)
Fairness ==
    /\ WF_vars(DeliveryLoop)
    /\ WF_vars(IdleFlush)
    /\ SF_vars(PullAsides)
    /\ WF_vars(CommitAsides)
    /\ WF_vars(HubWaitReturns)
    /\ \A j \in Jobs :
          /\ WF_vars(JobSettles(j))
          /\ WF_vars(ForegroundReturns(j) \/ ForegroundLetsGo(j))
    /\ WF_vars(\E d \in mgr.deliveries : BackoffElapses(d))
    /\ WF_vars(\E d \in mgr.deliveries : FormatReturns(d))

FairSpec == Spec /\ Fairness
-----------------------------------------------------------------------------
(* The types of the variables. *)
TypeOK ==
    /\ mgr \in Managers
    /\ session \in {"idle", "tools", "boundary"}
    /\ epoch \in Epochs
    /\ hub \subseteq Jobs /\ fg \subseteq Jobs
    /\ injected \in [Jobs \X Runs -> Nat]
    /\ recovered \subseteq Jobs \X Runs

(* A result the model has already been given, by a follow-up, a snapshot   *)
(* or the call that started the job, is never injected again.              *)
NoDuplicateInjection ==
    [][\A r \in Jobs \X Runs :
          injected'[r] > injected[r]
             => injected'[r] = 1 /\ r \notin recovered]_vars

(* A result is injected only into the conversation whose turn started the  *)
(* job, however the id was used again and however long formatting took.    *)
NoInjectionAcrossConversations ==
    [][\A d \in mgr.deliveries :
          injected'[<<d.job, d.run>>] > injected[<<d.job, d.run>>]
             => d.born = epoch]_vars

(* The row of run r[2] of job r[1] has not been evicted. *)
RowLasts(r) == HasRow(mgr, r[1]) /\ mgr.row[r[1]].run = r[2]

(* The same two, however slow deliveries are, for a result whose row is    *)
(* still there: rows are evicted under a delivery that outlasts their      *)
(* retention, and with them what the manager knows of their readers.       *)
OnceWhileRowLasts ==
    [][\A r \in Jobs \X Runs :
          RowLasts(r) /\ injected'[r] > injected[r]
             => injected'[r] = 1 /\ r \notin recovered]_vars

HomeWhileRowLasts ==
    [][\A d \in mgr.deliveries :
          RowLasts(<<d.job, d.run>>)
             => (injected'[<<d.job, d.run>>] > injected[<<d.job, d.run>>]
                    => d.born = epoch)]_vars

(* hasPendingAsyncWork() decides whether a subagent's run is over: when an *)
(* idle session has reported that nothing is pending, no result of this    *)
(* conversation wakes it afterwards.                                       *)
QuietStaysQuiet ==
    [][session = "idle" /\ ~PendingAsyncWake /\ epoch' = epoch
          => /\ injected' = injected
             /\ session' = "idle" => ~PendingAsyncWake']_vars

Shown(r) == injected[r] > 0 \/ r \in recovered

(* The result of a job that completed reaches the model, on whatever way,  *)
(* unless a new conversation has begun.                                    *)
ResultReachesModel ==
    \A j \in Jobs, r \in Runs, e \in Epochs :
        (mgr.row[j].status = "completed" /\ mgr.row[j].run = r /\ epoch = e)
            ~> (Shown(<<j, r>>) \/ epoch # e)
=============================================================================
