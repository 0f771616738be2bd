----------------------------- MODULE EventQueue -----------------------------
(***************************************************************************)
(* WorkerPool of python/robomp/src/queue.py: one dispatcher coroutine that *)
(* claims rows of the events table and one asyncio task per claimed row,   *)
(* with the slot pool, the cancel hooks, the graceful stop, crashes and    *)
(* restarts, and the requests of operators and webhooks that change rows.  *)
(*                                                                         *)
(* The table outlives the process; everything else is its memory.  The     *)
(* work of a row runs in a thread, which the task only waits for: task and *)
(* stage are separate, and a cancelled task leaves its thread behind.      *)
(***************************************************************************)
EXTENDS EventStore, FiniteSets

CONSTANTS Slots,        \* slot uids
          NoSlot,
          NoEvent,
          MaxStarts,    \* bound: processes started
          MaxReopens    \* bound: retries and re-triggers by operators

ASSUME EventQueueAssumption ==
    /\ IsFiniteSet(Slots) /\ Slots # {} /\ NoSlot \notin Slots
    /\ NoEvent \notin Events
    /\ MaxStarts \in Nat \ {0} /\ MaxReopens \in Nat

VARIABLES
    table,        \* the events table
    older,        \* its order by received_at
    phase,        \* of the process
    starts,       \* processes started so far
    reopens,      \* operator requests so far
    wakeup,       \* the event the dispatcher sleeps on
    disp,         \* the dispatcher: where it stands, the row it has claimed
    inflight,     \* _inflight: the issues being worked on
    task,         \* of each delivery: its _run_event task
    stage,        \* of each delivery: how far its worker thread is
    slot,         \* of each delivery: the slot its task has acquired
    avail,        \* the slots in the pool
    hooks,        \* _cancel_hooks
    cancelled,    \* _cancelled
    firing,       \* hooks taken out by cancel_event, not executed yet
    interrupted,  \* _shutdown_cancelled
    still,        \* stop(): tasks its loop has yet to interrupt
    killing,      \* stop(): the hook its loop is waiting for
    doomed        \* tasks with a pending CancelledError

store == <<table, older, reopens>>
run == <<inflight, task, stage, slot, avail>>
stopping == <<interrupted, still, killing, doomed>>
cancelling == <<hooks, cancelled, firing>>
vars == <<table, older, phase, starts, reopens, wakeup, disp, inflight, task, stage,
          slot, avail, hooks, cancelled, firing, interrupted, still, killing, doomed>>

Phases == {"down", "up", "draining", "interrupting", "stopped"}
Stages == {"none", "setup", "boot", "arming", "live", "killed", "good", "bad"}

(* "stray": the dispatcher is gone, the database thread it awaited is not. *)
(* "crashed": its loop has ended on an exception, perhaps with a row that  *)
(* it could not put back.                                                  *)
DispatcherStates ==
    [at : {"off", "claiming", "empty", "napping", "waiting", "strayClaim"}, row : {NoEvent}]
        \cup [at : {"checking", "strayPutBack"}, row : Events]
        \cup [at : {"crashed"}, row : Events \cup {NoEvent}]

At(pc) == [at |-> pc, row |-> NoEvent]

TypeOK ==
    /\ table \in Tables
    /\ older \subseteq Events \X Events
    /\ phase \in Phases
    /\ starts \in 0..MaxStarts
    /\ reopens \in 0..MaxReopens
    /\ wakeup \in BOOLEAN
    /\ disp \in DispatcherStates
    /\ inflight \subseteq Keys
    /\ task \in [Events -> {"none", "slot", "work", "settle"}]
    /\ stage \in [Events -> Stages]
    /\ slot \in [Events -> Slots \cup {NoSlot}]
    /\ avail \subseteq Slots
    /\ hooks \subseteq Events
    /\ cancelled \subseteq Events
    /\ firing \subseteq Events
    /\ interrupted \subseteq Events
    /\ still \subseteq Events
    /\ killing \in Events \cup {NoEvent}
    /\ doomed \subseteq Events

Init ==
    /\ table = EmptyTable
    /\ older = {}
    /\ phase = "down"
    /\ starts = 0
    /\ reopens = 0
    /\ wakeup = FALSE
    /\ disp = At("off")
    /\ inflight = {}
    /\ task = [e \in Events |-> "none"]
    /\ stage = [e \in Events |-> "none"]
    /\ slot = [e \in Events |-> NoSlot]
    /\ avail = Slots
    /\ hooks = {}
    /\ cancelled = {}
    /\ firing = {}
    /\ interrupted = {}
    /\ still = {}
    /\ killing = NoEvent
    /\ doomed = {}

-----------------------------------------------------------------------------
(* Requests that write to the table. *)

(* The webhook inserts a row unless the delivery id is known; a delivery   *)
(* the router does not want is kept as "skipped".                          *)
Record(e, s) ==
    /\ phase = "up"
    /\ table[e].state = "none"
    /\ table' = [table EXCEPT ![e] = NewRow(s)]
    /\ older' = ReceivedLast(table, older, e)
    /\ wakeup' = (wakeup \/ s = "queued")
    /\ UNCHANGED <<phase, starts, reopens, disp, run, cancelling, stopping>>

(* /replay, the retry of /api/trigger (both wake the dispatcher) and the   *)
(* command line (which cannot: it is another process).                     *)
Reopen(e) ==
    /\ reopens < MaxReopens
    /\ table[e].state \in Inactive
    /\ table' = RequeueEvent(table, e)
    /\ reopens' = reopens + 1
    /\ wakeup' \in {wakeup, TRUE}
    /\ UNCHANGED <<older, phase, starts, disp, run, cancelling, stopping>>

(* A manual triage replaces the row of an earlier one, unless active. *)
Retrigger(e) ==
    /\ reopens < MaxReopens
    /\ table[e].state \in Inactive \cup {"none"}
    /\ table' = [table EXCEPT ![e] = NewRow("queued")]
    /\ older' = ReceivedLast(table, older, e)
    /\ reopens' = reopens + 1
    /\ wakeup' \in {wakeup, TRUE}
    /\ UNCHANGED <<phase, starts, disp, run, cancelling, stopping>>

(* available_at passes. *)
BackoffEnds(e) ==
    /\ table[e].state = "queued"
    /\ ~table[e].due
    /\ table' = [table EXCEPT ![e].due = TRUE]
    /\ UNCHANGED <<older, phase, starts, reopens, wakeup, disp, run, cancelling, stopping>>

(* /api/cancel: only a running row.  The flag is set whether or not a hook *)
(* is armed; the hook itself runs in a thread.                             *)
CancelEvent(e) ==
    /\ phase = "up"
    /\ table[e].state = "running"
    /\ cancelled' = cancelled \cup {e}
    /\ hooks' = hooks \ {e}
    /\ firing' = IF e \in hooks THEN firing \cup {e} ELSE firing
    /\ UNCHANGED <<store, phase, starts, wakeup, disp, run, stopping>>

-----------------------------------------------------------------------------
(* The dispatcher.  It holds _inflight_lock from the claim to the end of   *)
(* the nap; nobody else awaits while holding it.                           *)

LockHeld == disp.at \in {"claiming", "empty", "checking", "napping"}

(* The claim runs in a database thread. *)
Claim(e) ==
    /\ disp.at = "claiming"
    /\ NextToClaim(table, older, e)
    /\ table' = ClaimRow(table, e)
    /\ disp' = [at |-> "checking", row |-> e]
    /\ UNCHANGED <<older, phase, starts, reopens, wakeup, run, cancelling, stopping>>

ClaimNothing ==
    /\ disp.at = "claiming"
    /\ \A e \in Events : ~Claimable(table, e)
    /\ disp' = At("empty")
    /\ UNCHANGED <<store, phase, starts, wakeup, run, cancelling, stopping>>

(* No row, or a row put back: the loop clears the wakeup it may have got. *)
Sleep ==
    /\ disp.at \in {"empty", "napping"}
    /\ wakeup' = FALSE
    /\ disp' = At("waiting")
    /\ UNCHANGED <<store, phase, starts, run, cancelling, stopping>>

(* wait_for(..., timeout=10.0) also ends without a wakeup. *)
WaitOver == disp.at = "waiting"

Rouse ==
    /\ WaitOver
    /\ disp' = At("claiming")
    /\ UNCHANGED <<store, phase, starts, wakeup, run, cancelling, stopping>>

(* Variant: the check of _inflight is left out. *)
NeverInFlight(e) == FALSE

IssueInFlight(e) == KeyOf[e] \in inflight

(* Another task still holds the issue, although its row is not running any *)
(* more: the row goes back to the queue.                                   *)
PutBack ==
    /\ disp.at = "checking"
    /\ IssueInFlight(disp.row)
    /\ table' = RequeueEvent(table, disp.row)
    /\ disp' = At("napping")
    /\ UNCHANGED <<older, phase, starts, reopens, wakeup, run, cancelling, stopping>>

(* The issue is taken, the task created, and the loop claims again. *)
Dispatch ==
    LET e == disp.row IN
    /\ disp.at = "checking"
    /\ ~IssueInFlight(e)
    /\ inflight' = inflight \cup {KeyOf[e]}
    /\ task' = [task EXCEPT ![e] = "slot"]
    /\ disp' = At("claiming")
    /\ UNCHANGED <<store, phase, starts, wakeup, stage, slot, avail, cancelling, stopping>>

(* The statement of a claim or of a put-back raises, and is rolled back:   *)
(* the loop logs that and ends.  The process serves on, without anybody to *)
(* start another dispatcher.                                               *)
DispatcherCrashes ==
    /\ \/ disp.at = "claiming"
       \/ disp.at = "checking" /\ IssueInFlight(disp.row)
    /\ disp' = [at |-> "crashed", row |-> disp.row]
    /\ UNCHANGED <<store, phase, starts, wakeup, run, cancelling, stopping>>

(* What is left then may have nothing to do but to answer requests.        *)
Headless == phase = "up" /\ disp.at = "crashed" /\ UNCHANGED vars

-----------------------------------------------------------------------------
(* One event: _run_event, _dispatch_and_mark and the worker thread. *)

(* acquire() of the slot pool. *)
AcquireSlot(e, s) ==
    /\ task[e] = "slot"
    /\ e \notin doomed
    /\ s \in avail
    /\ avail' = avail \ {s}
    /\ slot' = [slot EXCEPT ![e] = s]
    /\ task' = [task EXCEPT ![e] = "work"]
    /\ stage' = [stage EXCEPT ![e] = "setup"]
    /\ UNCHANGED <<store, phase, starts, wakeup, disp, inflight, cancelling, stopping>>

(* The workspace is ready: run_task hands over to a thread, which prepares *)
(* the session.                                                            *)
Boot(e) ==
    /\ stage[e] = "setup"
    /\ e \notin doomed
    /\ stage' = [stage EXCEPT ![e] = "boot"]
    /\ UNCHANGED <<store, phase, starts, wakeup, disp, inflight, task, slot, avail, cancelling, stopping>>

(* The thread starts the omp process and looks for a cancellation that was *)
(* requested before: _arm_cancel then fires the hook instead.              *)
Spawn(e) ==
    /\ stage[e] = "boot"
    /\ stage' = [stage EXCEPT ![e] = IF e \in cancelled THEN "killed" ELSE "arming"]
    /\ UNCHANGED <<store, phase, starts, wakeup, disp, inflight, task, slot, avail, cancelling, stopping>>

(* The second half of _arm_cancel, in a thread of its own: a cancellation  *)
(* may have come in between.                                               *)
Arm(e) ==
    /\ stage[e] = "arming"
    /\ stage' = [stage EXCEPT ![e] = "live"]
    /\ hooks' = hooks \cup {e}
    /\ UNCHANGED <<store, phase, starts, wakeup, disp, inflight, task, slot, avail,
                   cancelled, firing, stopping>>

(* A hook kills the session it was made for, if that still runs. *)
Fire(e) ==
    /\ e \in firing
    /\ firing' = firing \ {e}
    /\ stage' = [stage EXCEPT ![e] = IF @ = "live" THEN "killed" ELSE @]
    /\ UNCHANGED <<store, phase, starts, wakeup, disp, inflight, task, slot, avail,
                   hooks, cancelled, stopping>>

(* How the work of a stage can end.  Set-up may end the event: it fails,   *)
(* or the event needs no session.                                          *)
EndsAs(st) ==
    CASE st \in {"setup", "live"} -> {"good", "bad"}
      [] st \in {"boot", "killed"} -> {"bad"}
      [] OTHER -> {}

(* The work returns or raises; the hook is disarmed on the way out.  What  *)
(* a thread without a task returns, nobody receives.                       *)
WorkEnds(e, outcome) ==
    /\ outcome \in EndsAs(stage[e])
    /\ stage' = [stage EXCEPT ![e] = IF task[e] = "work" THEN outcome ELSE "none"]
    /\ hooks' = hooks \ {e}
    /\ firing' = firing \ {e}
    /\ UNCHANGED <<store, phase, starts, wakeup, disp, inflight, task, slot, avail,
                   cancelled, stopping>>

Retried(e) == IF HasRetriesLeft(table, e) THEN ScheduleRetry(table, e) ELSE MarkEvent(table, e, "failed")

(* Variant: a cancellation is not looked at when the work returns. *)
TableAfterUnchecked(e) ==
    IF stage[e] = "good" THEN MarkEvent(table, e, "done")
    ELSE IF e \in interrupted THEN table
    ELSE IF e \in cancelled THEN MarkEvent(table, e, "failed")
    ELSE Retried(e)

(* Variant: every failure of a stopping process is put down to the stop. *)
TableAfterLenient(e) ==
    IF stage[e] = "good" THEN MarkEvent(table, e, IF e \in cancelled THEN "failed" ELSE "done")
    ELSE IF phase # "up" THEN table
    ELSE IF e \in cancelled THEN MarkEvent(table, e, "failed")
    ELSE Retried(e)

(* The row an event ends with: done; cancelled by operator; left running   *)
(* for the next process; retried while the budget lasts.                   *)
TableAfter(e) ==
    IF stage[e] = "good" THEN MarkEvent(table, e, IF e \in cancelled THEN "failed" ELSE "done")
    ELSE IF e \in interrupted THEN table
    ELSE IF e \in cancelled THEN MarkEvent(table, e, "failed")
    ELSE Retried(e)

(* Variant: the flag of a cancellation outlives the run it was meant for. *)
KeepFlags(e) ==
    /\ interrupted' = interrupted \ {e}
    /\ hooks' = hooks \ {e}
    /\ UNCHANGED cancelled

(* finally: what is kept about a delivery goes. *)
ForgetFlags(e) ==
    /\ cancelled' = cancelled \ {e}
    /\ interrupted' = interrupted \ {e}
    /\ hooks' = hooks \ {e}

(* Variant: the pool gets the slot back only when the work returned. *)
KeepSlotOfFailure(e) ==
    /\ avail' = IF stage[e] = "good" THEN avail \cup ({slot[e]} \ {NoSlot}) ELSE avail
    /\ slot' = [slot EXCEPT ![e] = NoSlot]

(* finally: the slot, when one was acquired, goes back to the pool. *)
ReleaseSlot(e) ==
    /\ avail' = avail \cup ({slot[e]} \ {NoSlot})
    /\ slot' = [slot EXCEPT ![e] = NoSlot]

(* The task takes the outcome, marks the row and cleans up, without giving *)
(* way to anyone until it awaits the sweep of the workspace caches.        *)
Settle(e) ==
    /\ task[e] = "work"
    /\ stage[e] \in {"good", "bad"}
    /\ e \notin doomed
    /\ table' = TableAfter(e)
    /\ ForgetFlags(e)
    /\ ReleaseSlot(e)
    /\ task' = [task EXCEPT ![e] = "settle"]
    /\ stage' = [stage EXCEPT ![e] = "none"]
    /\ UNCHANGED <<older, phase, starts, reopens, wakeup, disp, inflight, firing,
                   still, killing, doomed>>

(* _release, under the lock; the task is over. *)
Release(e) ==
    /\ task[e] = "settle"
    /\ e \notin doomed
    /\ ~LockHeld
    /\ inflight' = inflight \ {KeyOf[e]}
    /\ task' = [task EXCEPT ![e] = "none"]
    /\ UNCHANGED <<store, phase, starts, wakeup, disp, stage, slot, avail, cancelling, stopping>>

-----------------------------------------------------------------------------
(* stop(): the dispatcher first, then the tasks. *)

DispatcherCancelled ==
    CASE disp.at = "claiming" -> {At("strayClaim"), At("off")}
      [] disp.at = "checking" /\ IssueInFlight(disp.row) ->
            {[at |-> "strayPutBack", row |-> disp.row], At("off")}
      [] OTHER -> {At("off")}

Stop ==
    /\ phase = "up"
    /\ starts < MaxStarts
    /\ phase' = "draining"
    /\ disp' \in DispatcherCancelled
    /\ wakeup' = TRUE
    /\ UNCHANGED <<store, starts, run, cancelling, stopping>>

(* The database threads the dispatcher was waiting for carry on. *)
StrayClaim(e) ==
    /\ disp.at = "strayClaim"
    /\ NextToClaim(table, older, e)
    /\ table' = ClaimRow(table, e)
    /\ disp' = At("off")
    /\ UNCHANGED <<older, phase, starts, reopens, wakeup, run, cancelling, stopping>>

StrayPutBack ==
    /\ disp.at = "strayPutBack"
    /\ table' = RequeueEvent(table, disp.row)
    /\ disp' = At("off")
    /\ UNCHANGED <<older, phase, starts, reopens, wakeup, run, cancelling, stopping>>

Drained ==
    /\ phase = "draining"
    /\ \A e \in Events : task[e] = "none"
    /\ phase' = "stopped"
    /\ UNCHANGED <<store, starts, wakeup, disp, run, cancelling, stopping>>

DrainTimeout ==
    /\ phase = "draining"
    /\ \E e \in Events : task[e] # "none"
    /\ phase' = "interrupting"
    /\ still' = {e \in Events : task[e] # "none"}
    /\ UNCHANGED <<store, starts, wakeup, disp, run, cancelling, interrupted, killing, doomed>>

(* One turn of the loop: an armed hook is fired and awaited, a task        *)
(* without one is cancelled, a task that is over is passed over.           *)
Interrupt(e) ==
    /\ phase = "interrupting"
    /\ killing = NoEvent
    /\ e \in still
    /\ still' = still \ {e}
    /\ interrupted' = IF task[e] = "none" THEN interrupted ELSE interrupted \cup {e}
    /\ killing' = IF task[e] # "none" /\ e \in hooks THEN e ELSE NoEvent
    /\ doomed' = IF task[e] # "none" /\ e \notin hooks THEN doomed \cup {e} ELSE doomed
    /\ hooks' = IF task[e] # "none" THEN hooks \ {e} ELSE hooks
    /\ UNCHANGED <<store, phase, starts, wakeup, disp, run, cancelled, firing>>

HookDone ==
    /\ killing # NoEvent
    /\ killing' = NoEvent
    /\ stage' = [stage EXCEPT ![killing] = IF @ = "live" THEN "killed" ELSE @]
    /\ UNCHANGED <<store, phase, starts, wakeup, disp, inflight, task, slot, avail, cancelling,
                   interrupted, still, doomed>>

(* What remains of the work when its task is cancelled: set-up is shielded *)
(* and waited for; a thread is left behind, and what it has started under  *)
(* the slot's uid is killed by the reaper.                                 *)
LeftBehind(e) ==
    CASE stage[e] = "boot" -> "boot"
      [] stage[e] \in {"arming", "live", "killed"} -> "killed"
      [] OTHER -> "none"

(* CancelledError in a task: no except clause takes it, the row stays as   *)
(* it is and finally cleans up.  In the last await of finally the issue is *)
(* not released any more.                                                  *)
Unwind(e) ==
    /\ e \in doomed
    /\ doomed' = doomed \ {e}
    /\ stage' = [stage EXCEPT ![e] = LeftBehind(e)]
    /\ ForgetFlags(e)
    /\ ReleaseSlot(e)
    /\ inflight' = IF task[e] \in {"slot", "work"} THEN inflight \ {KeyOf[e]} ELSE inflight
    /\ task' = [task EXCEPT ![e] = "none"]
    /\ UNCHANGED <<store, phase, starts, wakeup, disp, firing, still, killing>>

(* stop() returns: the tasks are over or kill_timeout has passed.  Of the  *)
(* cancelled ones only those still in the shielded set-up take that long.  *)
Stopped ==
    /\ phase = "interrupting"
    /\ still = {}
    /\ killing = NoEvent
    /\ \A e \in doomed : stage[e] = "setup"
    /\ phase' = "stopped"
    /\ UNCHANGED <<store, starts, wakeup, disp, run, cancelling, stopping>>

-----------------------------------------------------------------------------
(* The process. *)

LoseMemory ==
    /\ phase' = "down"
    /\ wakeup' = FALSE
    /\ disp' = At("off")
    /\ inflight' = {}
    /\ task' = [e \in Events |-> "none"]
    /\ stage' = [e \in Events |-> "none"]
    /\ slot' = [e \in Events |-> NoSlot]
    /\ avail' = Slots
    /\ hooks' = {}
    /\ cancelled' = {}
    /\ firing' = {}
    /\ interrupted' = {}
    /\ still' = {}
    /\ killing' = NoEvent
    /\ doomed' = {}
    /\ UNCHANGED <<store, starts>>

Exit == phase = "stopped" /\ LoseMemory

(* Killed at any point; the last process the bound allows lives on. *)
Crash ==
    /\ phase # "down"
    /\ starts < MaxStarts
    /\ LoseMemory

Start ==
    /\ phase = "down"
    /\ starts < MaxStarts
    /\ phase' = "up"
    /\ starts' = starts + 1
    /\ table' = ResetStuckRunning(table)
    /\ disp' = At("claiming")
    /\ UNCHANGED <<older, reopens, wakeup, run, cancelling, stopping>>

-----------------------------------------------------------------------------
Dispatcher ==
    \/ \E e \in Events : Claim(e)
    \/ ClaimNothing
    \/ Sleep
    \/ Rouse
    \/ PutBack
    \/ Dispatch

Requests ==
    \E e \in Events :
        \/ \E s \in {"queued", "skipped"} : Record(e, s)
        \/ Reopen(e)
        \/ Retrigger(e)
        \/ CancelEvent(e)

Working(e) ==
    \/ Boot(e)
    \/ Spawn(e)
    \/ Arm(e)
    \/ \E outcome \in {"good", "bad"} : WorkEnds(e, outcome)
    \/ Settle(e)

Stopping ==
    \/ Drained
    \/ DrainTimeout
    \/ \E e \in Events : Interrupt(e)
    \/ HookDone
    \/ Stopped

Next ==
    \/ Requests
    \/ Dispatcher
    \/ DispatcherCrashes
    \/ Headless
    \/ \E e \in Events :
        \/ BackoffEnds(e)
        \/ \E s \in Slots : AcquireSlot(e, s)
        \/ Working(e)
        \/ Fire(e)
        \/ Release(e)
        \/ Unwind(e)
        \/ StrayClaim(e)
    \/ StrayPutBack
    \/ Stop
    \/ Stopping
    \/ Exit
    \/ Crash
    \/ Start

Spec == Init /\ [][Next]_vars

(* Coroutines and threads proceed; time passes; the hard timeout ends every *)
(* session; a stopped process exits and a service manager starts the next. *)
(* The lock and the slot pool serve those who wait in order of arrival.    *)
Fairness ==
    /\ WF_vars(Dispatcher)
    /\ \A e \in Events :
        /\ WF_vars(BackoffEnds(e))
        /\ SF_vars(\E s \in Slots : AcquireSlot(e, s))
        /\ WF_vars(Working(e))
        /\ WF_vars(Fire(e))
        /\ SF_vars(Release(e))
        /\ WF_vars(Unwind(e))
    /\ WF_vars(Stopping)
    /\ WF_vars(Exit)
    /\ WF_vars(Start)

FairSpec == Spec /\ Fairness

-----------------------------------------------------------------------------
(* Properties. *)

(* The task or the thread of a delivery is at work. *)
Busy(e) == task[e] # "none" \/ stage[e] # "none"

(* At most one delivery of an issue is worked on at a time, from the claim *)
(* of its row to the sweep of its workspace after the row is marked, and   *)
(* threads that outlive their task count too: _claim_next_unique checks    *)
(* the memory of the process against the rows of the database.             *)
OneRunPerIssue ==
    \A e, f \in Events : Busy(e) /\ Busy(f) /\ KeyOf[e] = KeyOf[f] => e = f

(* A slot is in the pool or with exactly one task: the finally of          *)
(* _run_event gives back what was acquired, on every path out.             *)
SlotsConserved ==
    /\ \A s \in Slots : s \in avail <=> \A e \in Events : slot[e] # s
    /\ \A e, f \in Events : slot[e] = slot[f] /\ slot[e] # NoSlot => e = f

(* While the process serves, a running row has a task or the dispatcher    *)
(* behind it.  Nothing else would ever end it: it cannot be claimed,       *)
(* retried or re-triggered, and it blocks its issue until a restart.  The  *)
(* one exception is the row whose put-back ended the dispatcher.           *)
NoStuckRow ==
    phase = "up" =>
        \A e \in Events : table[e].state = "running" =>
            \/ task[e] \in {"slot", "work"}
            \/ disp.at \in {"checking", "crashed"} /\ disp.row = e

(* A cancellation is for the run the operator saw: its flag is gone when   *)
(* the row is inactive, so it cannot kill a later retry of the delivery.   *)
CancelTargetsThisRun ==
    \A e \in cancelled : table[e].state \in {"queued", "running"}

(* Once cancel_event has been accepted, the running row ends as failed:    *)
(* not done, not retried.  The one way back to the queue is the dispatcher *)
(* putting a row back that it has not dispatched.                          *)
CancelSticks ==
    [][\A e \in cancelled :
          table[e].state = "running" /\ table'[e].state \in {"done", "queued"}
              => disp.row = e]_vars

(* A run leaves its row running only if stop() interrupted that very run   *)
(* or the process died: a failure of its own during the drain is recorded. *)
OutcomeIsRecorded ==
    [][\A e \in Events :
          task[e] = "work" /\ task'[e] # "work" /\ table'[e].state = "running"
              => e \in interrupted \/ phase' = "down"]_vars

(* Every event that is queued or running reaches an end, across retries,   *)
(* put-backs, lost wakeups, crashes and graceful stops, unless the         *)
(* dispatcher dies of an exception while the process lives: then whatever  *)
(* is queued waits for a restart that nothing brings about.                *)
EventSettles ==
    \A e \in Events :
        table[e].state \in {"queued", "running"}
            ~> table[e].state \in Inactive \/ disp.at = "crashed"

(* "so a worker stuck pre-hook (e.g. waiting on the slot pool or inside    *)
(* RpcClient.__enter__) cannot proceed to spawn a fresh subprocess after   *)
(* stop() returns" (queue.py:136-139).  The code does not hold this, see   *)
(* the README.                                                             *)
NoSpawnAfterStop ==
    [][phase = "stopped" /\ phase' = "stopped" =>
          \A e \in Events : stage[e] = "boot" => stage'[e] \in {"boot", "none"}]_vars
=============================================================================
