----------------------------- MODULE JobManager -----------------------------
(***************************************************************************)
(* AsyncJobManager of packages/coding-agent/src/async/job-manager.ts, as a *)
(* value and the operations on it, for the jobs of one owner whose         *)
(* session keeps a delivery sink registered.  A manager is a record:       *)
(*                                                                         *)
(*   row         the job rows.  An id may be registered, evicted and used  *)
(*               again; run counts its registrations and outlives the row. *)
(*               busy: the body is still executing.                        *)
(*               timer: the eviction timer, "short" after consumption.     *)
(*   suppressed  ids whose delivery a foreground reader has taken over     *)
(*   watched     ids a blocking wait is looking at                         *)
(*   consumed    ids whose result has reached a reader                     *)
(*   deliveries  the completions on their way to the session: waiting in   *)
(*               the manager ("queued", "backoff") or in the hands of the  *)
(*               sink ("formatting", "parked" on the session's yield       *)
(*               queue, "pulled" into the agent loop)                      *)
(*   loop        the delivery loop; "ending" once it has seen an empty     *)
(*               queue and its finally handler has not run yet             *)
(*                                                                         *)
(* A failed job is delivered exactly as a completed one is, so "completed" *)
(* stands for both.                                                        *)
(***************************************************************************)
EXTENDS Naturals, FiniteSets

CONSTANTS Jobs,        \* job ids
          MaxRuns,     \* bound: how often one id is registered
          MaxSessions, \* bound: conversations of the owner
          MaxTries     \* bound: failed attempts of one delivery

ASSUME JobManagerAssumption ==
    /\ IsFiniteSet(Jobs)
    /\ MaxRuns \in Nat \ {0} /\ MaxSessions \in Nat \ {0} /\ MaxTries \in Nat

Runs == 1..MaxRuns
Epochs == 1..MaxSessions

Rows == [status : {"none", "running", "completed", "cancelled"},
         run : 0..MaxRuns, born : 0..MaxSessions, busy : BOOLEAN,
         timer : {"off", "short", "retention"}]

InManager == {"queued", "backoff"}
InSession == {"formatting", "parked", "pulled"}

(* The sink stamps a delivery with the conversation it was called in. *)
Deliveries ==
    [job : Jobs, run : Runs, born : Epochs, tries : 0..MaxTries, epoch : {0}, st : InManager]
    \cup
    [job : Jobs, run : Runs, born : Epochs, tries : 0..MaxTries, epoch : Epochs, st : InSession]

Managers == [row : [Jobs -> Rows], suppressed : SUBSET Jobs,
             watched : SUBSET Jobs, consumed : SUBSET Jobs,
             deliveries : SUBSET Deliveries, loop : {"off", "on", "ending"}]

NewManager ==
    [row |-> [j \in Jobs |-> [status |-> "none", run |-> 0, born |-> 0,
                              busy |-> FALSE, timer |-> "off"]],
     suppressed |-> {}, watched |-> {}, consumed |-> {},
     deliveries |-> {}, loop |-> "off"]

(* isDeliverySuppressed(). *)
Suppressed(m, j) == j \in m.suppressed \cup m.watched

HasRow(m, j) == m.row[j].status # "none"

(* Settled with a result text that a snapshot can show. *)
HasResult(m, j) == m.row[j].status \in {"completed", "cancelled"} /\ ~m.row[j].busy

Waiting(m) == {d \in m.deliveries : d.st \in InManager}
OfJob(m, j) == {d \in m.deliveries : d.job = j}

(* #ensureDeliveryLoop(), as its callers use it. *)
EnsureLoop(m) ==
    IF Waiting(m) # {} /\ m.loop = "off" THEN [m EXCEPT !.loop = "on"] ELSE m

(* #enqueueDelivery(). *)
EnqueueDelivery(m, j) ==
    IF Suppressed(m, j) THEN m
    ELSE EnsureLoop([m EXCEPT !.deliveries = @ \cup
             {[job |-> j, run |-> m.row[j].run, born |-> m.row[j].born,
               epoch |-> 0, st |-> "queued", tries |-> 0]}])

(* register(): a fresh row; markers an earlier run of the id left are dropped. *)
RegisterJob(m, j, epoch) ==
    [m EXCEPT !.row[j] = [status |-> "running", run |-> @.run + 1, born |-> epoch,
                          busy |-> TRUE, timer |-> "off"],
              !.suppressed = @ \ {j},
              !.consumed = @ \ {j}]

(* The job body returns or throws. *)
BodySettles(m, j) ==
    LET ended == [m EXCEPT !.row[j].busy = FALSE]
        row   == m.row[j]
    IN  IF row.status = "cancelled"
        THEN [ended EXCEPT !.row[j].timer = "retention"]
        ELSE LET done == [ended EXCEPT !.row[j].status = "completed"]
             IN  [EnqueueDelivery(done, j) EXCEPT !.row[j].timer = "retention"]

(* cancel(), cancelAll(): the running ones among js. *)
CancelJobs(m, js) ==
    [m EXCEPT !.row = [j \in Jobs |->
        IF j \in js /\ m.row[j].status = "running"
        THEN [m.row[j] EXCEPT !.status = "cancelled"] ELSE m.row[j]]]

(* acknowledgeDeliveries(). *)
Acknowledge(m, js) ==
    LET marked == [m EXCEPT !.suppressed = @ \cup js]
    IN  [marked EXCEPT !.deliveries =
            {d \in @ : d.st \in InManager => ~Suppressed(marked, d.job)}]

(* Variant: every consumed row is evicted soon.                            *)
ConsumeAndEvictSoon(m, js) ==
    LET newly == {j \in js \ m.consumed : HasResult(m, j)}
    IN  [m EXCEPT
           !.consumed = @ \cup newly,
           !.row = [j \in Jobs |-> IF j \in newly
                                   THEN [m.row[j] EXCEPT !.timer = "short"]
                                   ELSE m.row[j]]]

(* #consumeJobResult() of each of js: the row is evicted soon, unless a    *)
(* delivery of the id is still under way.                                  *)
Consume(m, js) ==
    LET newly == {j \in js \ m.consumed : HasResult(m, j)}
    IN  [m EXCEPT
           !.consumed = @ \cup newly,
           !.row = [j \in Jobs |-> IF j \in newly /\ OfJob(m, j) = {}
                                   THEN [m.row[j] EXCEPT !.timer = "short"]
                                   ELSE m.row[j]]]

(* consumeJobResults(). *)
ConsumeJobResults(m, js) == Consume(Acknowledge(m, js), js)

(* resumeDeliveries() of one id. *)
ResumeDelivery(m, j) ==
    LET lifted == [m EXCEPT !.suppressed = @ \ {j}]
    IN  IF j \in m.suppressed /\ m.row[j].status = "completed" /\ OfJob(m, j) = {}
        THEN EnqueueDelivery(lifted, j)
        ELSE lifted

(* #evictJob() of each of js. *)
Evict(m, js) ==
    [m EXCEPT !.suppressed = @ \ js, !.watched = @ \ js, !.consumed = @ \ js,
              !.row = [j \in Jobs |->
                  IF j \in js THEN [m.row[j] EXCEPT !.status = "none", !.timer = "off"]
                              ELSE m.row[j]]]

(* evictCompletedJobs(). *)
EvictCompletedJobs(m) ==
    LET js == {j \in Jobs : m.row[j].status = "completed"}
    IN  Evict(Acknowledge(m, js), js)

(* The sink has returned: the delivery is over and its result consumed. *)
SinkReturned(m, d) ==
    LET gone == [m EXCEPT !.deliveries = @ \ {d}]
        next == IF d.job \in m.consumed
                THEN IF HasRow(m, d.job)
                     THEN [gone EXCEPT !.row[d.job].timer = "short"] ELSE gone
                ELSE Consume(gone, {d.job})
    IN  EnsureLoop(next)

(* The sink has thrown: try again later, unless a reader took the result   *)
(* over or the row is gone.                                                *)
SinkThrew(m, d) ==
    LET gone == [m EXCEPT !.deliveries = @ \ {d}]
    IN  EnsureLoop(
          IF ~Suppressed(m, d.job) /\ HasRow(m, d.job)
          THEN [gone EXCEPT !.deliveries = @ \cup
                  {[d EXCEPT !.st = "backoff", !.epoch = 0, !.tries = @ + 1]}]
          ELSE gone)
=============================================================================
