-------------------------- MODULE EventQueueProofs --------------------------
(***************************************************************************)
(* Theorems about the job queue of robomp, for every set of deliveries,    *)
(* issues and slots, every retry budget and any number of restarts.        *)
(***************************************************************************)
EXTENDS EventQueue, TLAPS

(* What the statements on the table do: each gives a table, and changes    *)
(* the state of the row it is for only.                                    *)
OnlyRow(t, u, e, s) ==
    /\ u \in Tables
    /\ \A f \in Events : u[f].state = IF f = e THEN s ELSE t[f].state

LEMMA RowsFacts ==
    ASSUME NEW t \in Tables, NEW e \in Events
    PROVE  /\ t[e] \in Rows
           /\ t[e].state \in States
           /\ t[e].attempts \in 0..(MaxRetries + 1)
           /\ t[e].due \in BOOLEAN
  BY DEF Tables, Rows

LEMMA RowReplaced ==
    ASSUME NEW t \in Tables, NEW e \in Events, NEW r \in Rows
    PROVE  OnlyRow(t, [t EXCEPT ![e] = r], e, r.state)
<1>1. [t EXCEPT ![e] = r] \in Tables
  BY DEF Tables
<1>2. ASSUME NEW f \in Events
      PROVE  [t EXCEPT ![e] = r][f].state = IF f = e THEN r.state ELSE t[f].state
  BY DEF Tables
<1> QED
  BY <1>1, <1>2 DEF OnlyRow

LEMMA ClaimRowFacts ==
    ASSUME NEW t \in Tables, NEW e \in Events
    PROVE  OnlyRow(t, ClaimRow(t, e), e, "running")
<1> DEFINE n == IF t[e].attempts <= MaxRetries THEN t[e].attempts + 1 ELSE t[e].attempts
           r == [t[e] EXCEPT !.state = "running", !.attempts = n]
<1>1. n \in 0..(MaxRetries + 1)
  BY RowsFacts, EventStoreAssumption
<1>2. r \in Rows /\ r.state = "running"
  BY <1>1, RowsFacts DEF Rows, States
<1>3. ClaimRow(t, e) = [t EXCEPT ![e] = r]
  BY RowsFacts DEF ClaimRow, Tables, Rows
<1> HIDE DEF r
<1> QED
  BY <1>2, <1>3, RowReplaced

LEMMA MarkEventFacts ==
    ASSUME NEW t \in Tables, NEW e \in Events, NEW s \in States
    PROVE  OnlyRow(t, MarkEvent(t, e, s), e, s)
<1> DEFINE r == [t[e] EXCEPT !.state = s]
<1>1. r \in Rows /\ r.state = s
  BY RowsFacts DEF Rows
<1>2. MarkEvent(t, e, s) = [t EXCEPT ![e] = r]
  BY RowsFacts DEF MarkEvent, Tables, Rows
<1> HIDE DEF r
<1> QED
  BY <1>1, <1>2, RowReplaced

LEMMA RequeueEventFacts ==
    ASSUME NEW t \in Tables, NEW e \in Events
    PROVE  OnlyRow(t, RequeueEvent(t, e), e, "queued")
<1> DEFINE r == [t[e] EXCEPT !.state = "queued", !.due = TRUE]
<1>1. r \in Rows /\ r.state = "queued"
  BY RowsFacts DEF Rows, States
<1>2. RequeueEvent(t, e) = [t EXCEPT ![e] = r]
  BY RowsFacts DEF RequeueEvent, Tables, Rows
<1> HIDE DEF r
<1> QED
  BY <1>1, <1>2, RowReplaced

LEMMA ScheduleRetryFacts ==
    ASSUME NEW t \in Tables, NEW e \in Events
    PROVE  OnlyRow(t, ScheduleRetry(t, e), e, "queued")
<1> DEFINE r == [t[e] EXCEPT !.state = "queued", !.due = FALSE]
<1>1. r \in Rows /\ r.state = "queued"
  BY RowsFacts DEF Rows, States
<1>2. ScheduleRetry(t, e) = [t EXCEPT ![e] = r]
  BY RowsFacts DEF ScheduleRetry, Tables, Rows
<1> HIDE DEF r
<1> QED
  BY <1>1, <1>2, RowReplaced

LEMMA DueFacts ==
    ASSUME NEW t \in Tables, NEW e \in Events
    PROVE  OnlyRow(t, [t EXCEPT ![e].due = TRUE], e, t[e].state)
<1> DEFINE r == [t[e] EXCEPT !.due = TRUE]
<1>1. r \in Rows /\ r.state = t[e].state
  BY RowsFacts DEF Rows
<1>2. [t EXCEPT ![e].due = TRUE] = [t EXCEPT ![e] = r]
  BY RowsFacts DEF Tables, Rows
<1> HIDE DEF r
<1> QED
  BY <1>1, <1>2, RowReplaced

LEMMA NewRowFacts ==
    ASSUME NEW s \in States
    PROVE  NewRow(s) \in Rows /\ NewRow(s).state = s
  BY EventStoreAssumption DEF NewRow, Rows

LEMMA ResetFacts ==
    ASSUME NEW t \in Tables
    PROVE  /\ ResetStuckRunning(t) \in Tables
           /\ \A e \in Events : ResetStuckRunning(t)[e].state =
                 IF t[e].state = "running" THEN "queued" ELSE t[e].state
<1>1. ASSUME NEW e \in Events
      PROVE  /\ RequeueEvent(t, e)[e] \in Rows
             /\ RequeueEvent(t, e)[e].state = "queued"
  BY RequeueEventFacts DEF OnlyRow, Tables
<1>2. ASSUME NEW e \in Events
      PROVE  /\ ResetStuckRunning(t)[e] \in Rows
             /\ ResetStuckRunning(t)[e].state =
                   IF t[e].state = "running" THEN "queued" ELSE t[e].state
  BY <1>1, RowsFacts DEF ResetStuckRunning
<1> QED
  BY <1>2 DEF Tables, ResetStuckRunning

(* The outcome of a task gives a table. *)
LEMMA RetriedFacts ==
    ASSUME TypeOK, NEW e \in Events
    PROVE  \E s \in {"queued", "failed"} : OnlyRow(table, Retried(e), e, s)
  BY ScheduleRetryFacts, MarkEventFacts DEF TypeOK, Retried, States

(* A run leaves its row running only if stop() interrupted it, marks it    *)
(* done or retries it only if nobody cancelled it.                         *)
LEMMA TableAfterFacts ==
    ASSUME TypeOK, NEW e \in Events
    PROVE  /\ TableAfter(e) \in Tables
           /\ \A f \in Events \ {e} : TableAfter(e)[f].state = table[f].state
           /\ \/ TableAfter(e)[e].state = "failed"
              \/ e \in interrupted /\ TableAfter(e)[e].state = table[e].state
              \/ e \notin cancelled /\ TableAfter(e)[e].state \in {"done", "queued"}
<1>1. CASE stage[e] = "good"
  <2>1. CASE e \in cancelled
    <3>1. OnlyRow(table, MarkEvent(table, e, "failed"), e, "failed")
      BY MarkEventFacts DEF TypeOK, States
    <3> QED
      BY <1>1, <2>1, <3>1 DEF OnlyRow, TableAfter
  <2>2. CASE e \notin cancelled
    <3>1. OnlyRow(table, MarkEvent(table, e, "done"), e, "done")
      BY MarkEventFacts DEF TypeOK, States
    <3> QED
      BY <1>1, <2>2, <3>1 DEF OnlyRow, TableAfter
  <2> QED
    BY <2>1, <2>2
<1>2. CASE stage[e] # "good" /\ e \in interrupted
  BY <1>2 DEF TableAfter, TypeOK
<1>3. CASE stage[e] # "good" /\ e \notin interrupted /\ e \in cancelled
  <2>1. OnlyRow(table, MarkEvent(table, e, "failed"), e, "failed")
    BY MarkEventFacts DEF TypeOK, States
  <2> QED
    BY <1>3, <2>1 DEF OnlyRow, TableAfter
<1>4. CASE stage[e] # "good" /\ e \notin interrupted /\ e \notin cancelled
  <2>1. TableAfter(e) = Retried(e)
    BY <1>4 DEF TableAfter
  <2> QED
    BY <1>4, <2>1, RetriedFacts DEF OnlyRow
<1> QED
  BY <1>1, <1>2, <1>3, <1>4

-----------------------------------------------------------------------------
(* Type correctness. *)

LEMMA TablesStayTables ==
    ASSUME TypeOK, [Next]_vars
    PROVE  table' \in Tables
<1> USE DEF TypeOK
<1>1. ASSUME NEW e \in Events, NEW s \in {"queued", "skipped"}, Record(e, s)
      PROVE  table' \in Tables
  BY <1>1, NewRowFacts, RowReplaced DEF Record, OnlyRow, States
<1>2. ASSUME NEW e \in Events, Reopen(e)
      PROVE  table' \in Tables
  BY <1>2, RequeueEventFacts DEF Reopen, OnlyRow
<1>3. ASSUME NEW e \in Events, Retrigger(e)
      PROVE  table' \in Tables
  BY <1>3, NewRowFacts, RowReplaced DEF Retrigger, OnlyRow, States
<1>4. ASSUME NEW e \in Events, BackoffEnds(e)
      PROVE  table' \in Tables
  BY <1>4, DueFacts DEF BackoffEnds, OnlyRow
<1>5. ASSUME NEW e \in Events, Claim(e) \/ StrayClaim(e)
      PROVE  table' \in Tables
  BY <1>5, ClaimRowFacts DEF Claim, StrayClaim, OnlyRow
<1>6. ASSUME PutBack \/ StrayPutBack
      PROVE  table' \in Tables
  <2>1. disp.row \in Events
    BY <1>6 DEF PutBack, StrayPutBack, DispatcherStates
  <2> QED
    BY <1>6, <2>1, RequeueEventFacts DEF PutBack, StrayPutBack, OnlyRow
<1>7. ASSUME NEW e \in Events, Settle(e)
      PROVE  table' \in Tables
  BY <1>7, TableAfterFacts DEF Settle
<1>8. ASSUME Start
      PROVE  table' \in Tables
  BY <1>8, ResetFacts DEF Start
<1>9. CASE UNCHANGED table
  BY <1>9
<1> QED
  BY <1>1, <1>2, <1>3, <1>4, <1>5, <1>6, <1>7, <1>8, <1>9
  DEF Next, Requests, Dispatcher,
      DispatcherCrashes, Headless,
      Working, Stopping, vars, store, run, CancelEvent,
      ClaimNothing, Sleep, Rouse, Dispatch, AcquireSlot, Boot, Spawn, Arm, Fire, WorkEnds,
      Release, Unwind, Stop, Drained, DrainTimeout, Interrupt, HookDone, Stopped, Exit, Crash,
      LoseMemory

LEMMA NextTypeOK == TypeOK /\ [Next]_vars => TypeOK'
<1> SUFFICES ASSUME TypeOK, [Next]_vars
             PROVE  TypeOK'
  OBVIOUS
<1>0. table' \in Tables
  BY TablesStayTables
<1> USE <1>0 DEF TypeOK, store, run, cancelling, stopping
<1>1. CASE Requests
  <2>1. ASSUME NEW e \in Events, NEW s \in {"queued", "skipped"}, Record(e, s)
        PROVE  TypeOK'
    BY <2>1 DEF Record, ReceivedLast
  <2>2. ASSUME NEW e \in Events, Reopen(e)
        PROVE  TypeOK'
    <3>1. wakeup' \in BOOLEAN
      BY <2>2, Zenon DEF Reopen
    <3>2. reopens' \in 0..MaxReopens
      BY <2>2, EventQueueAssumption DEF Reopen
    <3> QED
      BY <2>2, <3>1, <3>2 DEF Reopen
  <2>3. ASSUME NEW e \in Events, Retrigger(e)
        PROVE  TypeOK'
    <3>1. wakeup' \in BOOLEAN
      BY <2>3, Zenon DEF Retrigger
    <3>2. reopens' \in 0..MaxReopens
      BY <2>3, EventQueueAssumption DEF Retrigger
    <3> QED
      BY <2>3, <3>1, <3>2 DEF Retrigger, ReceivedLast
  <2>4. ASSUME NEW e \in Events, CancelEvent(e)
        PROVE  TypeOK'
    BY <2>4 DEF CancelEvent
  <2> QED
    BY <1>1, <2>1, <2>2, <2>3, <2>4 DEF Requests
<1>2. CASE Dispatcher
  <2>1. ASSUME NEW e \in Events, Claim(e)
        PROVE  TypeOK'
    <3>1. disp' \in DispatcherStates
      BY <2>1 DEF Claim, DispatcherStates
    <3> QED
      BY <2>1, <3>1 DEF Claim
  <2>2. ASSUME ClaimNothing \/ Sleep \/ Rouse \/ PutBack
        PROVE  TypeOK'
    <3>1. disp' \in DispatcherStates
      BY <2>2 DEF ClaimNothing, Sleep, Rouse, PutBack, DispatcherStates, At
    <3> QED
      BY <2>2, <3>1 DEF ClaimNothing, Sleep, Rouse, PutBack
  <2>3. ASSUME Dispatch
        PROVE  TypeOK'
    <3>1. disp' \in DispatcherStates
      BY <2>3 DEF Dispatch, DispatcherStates, At
    <3>2. disp.row \in Events
      BY <2>3 DEF Dispatch, DispatcherStates
    <3>3. KeyOf[disp.row] \in Keys
      BY <3>2, EventStoreAssumption
    <3> QED
      BY <2>3, <3>1, <3>2, <3>3 DEF Dispatch
  <2> QED
    BY <1>2, <2>1, <2>2, <2>3 DEF Dispatcher
<1>3. ASSUME NEW e \in Events, BackoffEnds(e)
      PROVE  TypeOK'
  BY <1>3 DEF BackoffEnds
<1>4. ASSUME NEW e \in Events, NEW s \in Slots, AcquireSlot(e, s)
      PROVE  TypeOK'
  BY <1>4 DEF AcquireSlot, Stages
<1>5. ASSUME NEW e \in Events, Working(e)
      PROVE  TypeOK'
  <2>1. CASE Boot(e) \/ Spawn(e) \/ Arm(e)
    BY <2>1 DEF Boot, Spawn, Arm, Stages
  <2>2. ASSUME NEW o \in {"good", "bad"}, WorkEnds(e, o)
        PROVE  TypeOK'
    BY <2>2 DEF WorkEnds, Stages
  <2>3. CASE Settle(e)
    BY <2>3 DEF Settle, ForgetFlags, ReleaseSlot, Stages
  <2> QED
    BY <1>5, <2>1, <2>2, <2>3 DEF Working
<1>6. ASSUME NEW e \in Events, Fire(e) \/ Release(e)
      PROVE  TypeOK'
  BY <1>6 DEF Fire, Release, Stages
<1>7. ASSUME NEW e \in Events, Unwind(e)
      PROVE  TypeOK'
  <2>1. LeftBehind(e) \in Stages
    BY DEF LeftBehind, Stages
  <2> QED
    BY <1>7, <2>1 DEF Unwind, ForgetFlags, ReleaseSlot
<1>8. ASSUME NEW e \in Events, StrayClaim(e)
      PROVE  TypeOK'
  BY <1>8 DEF StrayClaim, DispatcherStates, At
<1>9. CASE StrayPutBack
  BY <1>9 DEF StrayPutBack, DispatcherStates, At
<1>10. CASE Stop
  <2>1. disp' \in DispatcherStates
    <3>1. At("strayClaim") \in DispatcherStates /\ At("off") \in DispatcherStates
      BY DEF DispatcherStates, At
    <3>2. disp.at = "checking" => disp.row \in Events
      BY DEF DispatcherStates
    <3>3. disp.at = "checking" => [at |-> "strayPutBack", row |-> disp.row] \in DispatcherStates
      BY <3>2 DEF DispatcherStates
    <3> QED
      BY <1>10, <3>1, <3>3 DEF Stop, DispatcherCancelled
  <2> QED
    BY <1>10, <2>1 DEF Stop, Phases
<1>11. CASE Stopping
  <2>1. CASE Drained \/ DrainTimeout \/ Stopped
    BY <2>1 DEF Drained, DrainTimeout, Stopped, Phases
  <2>2. ASSUME NEW e \in Events, Interrupt(e)
        PROVE  TypeOK'
    BY <2>2 DEF Interrupt
  <2>3. CASE HookDone
    BY <2>3 DEF HookDone, Stages
  <2> QED
    BY <1>11, <2>1, <2>2, <2>3 DEF Stopping
<1>12. CASE Exit \/ Crash
  <2>1. At("off") \in DispatcherStates
    BY DEF DispatcherStates, At
  <2>2. /\ phase' \in Phases /\ disp' \in DispatcherStates
        /\ older' = older /\ starts' = starts /\ reopens' = reopens /\ wakeup' = FALSE
    BY <1>12, <2>1 DEF Exit, Crash, LoseMemory, Phases
  <2>3. /\ task' \in [Events -> {"none", "slot", "work", "settle"}]
        /\ stage' \in [Events -> Stages]
        /\ slot' \in [Events -> Slots \cup {NoSlot}]
    BY <1>12 DEF Exit, Crash, LoseMemory, Stages
  <2>4. /\ inflight' = {} /\ avail' = Slots /\ hooks' = {} /\ cancelled' = {}
        /\ firing' = {} /\ interrupted' = {} /\ still' = {} /\ doomed' = {}
        /\ killing' = NoEvent
    BY <1>12 DEF Exit, Crash, LoseMemory
  <2> QED
    BY <2>2, <2>3, <2>4
<1>13. CASE Start
  BY <1>13, EventQueueAssumption DEF Start, Phases, DispatcherStates, At
<1>14. CASE Headless \/ UNCHANGED vars
  BY <1>14 DEF Headless, vars
<1>15. CASE DispatcherCrashes
  <2>1. disp' \in DispatcherStates
    BY <1>15 DEF DispatcherCrashes, DispatcherStates
  <2> QED
    BY <1>15, <2>1 DEF DispatcherCrashes
<1> QED
  BY <1>1, <1>2, <1>3, <1>4, <1>5, <1>6, <1>7, <1>8, <1>9, <1>10, <1>11, <1>12, <1>13, <1>14, <1>15
  DEF Next

LEMMA InitTypeOK == Init => TypeOK
<1> SUFFICES ASSUME Init
             PROVE  TypeOK
  OBVIOUS
<1>1. EmptyTable \in Tables
  BY NewRowFacts DEF EmptyTable, Tables, States
<1>2. disp \in DispatcherStates
  BY DEF Init, DispatcherStates, At
<1>3. starts \in 0..MaxStarts /\ reopens \in 0..MaxReopens /\ phase \in Phases /\ wakeup = FALSE
  BY EventQueueAssumption DEF Init, Phases
<1>4. /\ task \in [Events -> {"none", "slot", "work", "settle"}]
      /\ stage \in [Events -> Stages]
      /\ slot \in [Events -> Slots \cup {NoSlot}]
  BY DEF Init, Stages
<1>5. /\ inflight = {} /\ avail = Slots /\ hooks = {} /\ cancelled = {} /\ older = {}
      /\ firing = {} /\ interrupted = {} /\ still = {} /\ doomed = {} /\ killing = NoEvent
      /\ table = EmptyTable
  BY DEF Init
<1> QED
  BY <1>1, <1>2, <1>3, <1>4, <1>5 DEF TypeOK

(* Every variable keeps its type, rows and their counters included. *)
THEOREM TypeCorrect == Spec => []TypeOK
  BY InitTypeOK, NextTypeOK, PTL DEF Spec

-----------------------------------------------------------------------------
(***************************************************************************)
(* The inductive invariant.  What keeps two deliveries of an issue apart   *)
(* is the memory of the process: whatever is at work holds its issue, from *)
(* the claim to the sweep, as long as the dispatcher runs.  Once the       *)
(* process stops, a cancelled task gives up its issue while its thread     *)
(* goes on; then nothing is dispatched any more.                           *)
(***************************************************************************)
Serving == phase \in {"up", "down"}

DispatcherServes ==
    /\ disp.at \in {"claiming", "empty", "checking", "napping", "waiting"} => phase = "up"
    /\ disp.at \in {"strayClaim", "strayPutBack"} => ~Serving

IssueHeld == Serving => \A e \in Events : Busy(e) => KeyOf[e] \in inflight

InterruptedByStop ==
    /\ Serving => interrupted = {}
    /\ doomed \subseteq interrupted

ThreadHasTask == \A e \in Events : task[e] \in {"slot", "settle"} => stage[e] = "none"

SlotHasTask == \A e \in Events : slot[e] # NoSlot => task[e] = "work"

FlagsInMemory == phase = "down" => cancelled = {}

IInv ==
    /\ TypeOK
    /\ DispatcherServes
    /\ IssueHeld
    /\ InterruptedByStop
    /\ ThreadHasTask
    /\ OneRunPerIssue
    /\ SlotHasTask
    /\ SlotsConserved
    /\ FlagsInMemory
    /\ CancelTargetsThisRun
    /\ NoStuckRow

LEMMA InitIInv == Init => IInv
<1> SUFFICES ASSUME Init
             PROVE  IInv
  OBVIOUS
<1>1. TypeOK
  BY InitTypeOK
<1>2. /\ DispatcherServes /\ InterruptedByStop /\ ThreadHasTask /\ SlotHasTask
      /\ FlagsInMemory /\ CancelTargetsThisRun /\ NoStuckRow
  BY DEF Init, DispatcherServes, InterruptedByStop, ThreadHasTask, SlotHasTask, FlagsInMemory,
         CancelTargetsThisRun, NoStuckRow, At, Serving
<1>3. IssueHeld /\ OneRunPerIssue
  BY DEF Init, IssueHeld, OneRunPerIssue, Busy
<1>4. SlotsConserved
  BY EventQueueAssumption DEF Init, SlotsConserved
<1> QED
  BY <1>1, <1>2, <1>3, <1>4 DEF IInv

(* The dispatcher runs while the process serves. *)
LEMMA DispatcherServesKept ==
    ASSUME IInv, [Next]_vars
    PROVE  DispatcherServes' /\ FlagsInMemory'
<1> USE DEF IInv, DispatcherServes, Serving, FlagsInMemory, store, run, cancelling, stopping
<1>1. CASE Requests
  BY <1>1 DEF Requests, Record, Reopen, Retrigger, CancelEvent
<1>2. CASE Dispatcher
  BY <1>2 DEF Dispatcher,
      DispatcherCrashes, Headless,
      Claim, ClaimNothing, Sleep, Rouse, WaitOver, PutBack, Dispatch, At
<1>3. ASSUME NEW e \in Events, BackoffEnds(e) \/ Fire(e) \/ Release(e)
      PROVE  DispatcherServes' /\ FlagsInMemory'
  BY <1>3 DEF BackoffEnds, Fire, Release
<1>4. ASSUME NEW e \in Events, NEW s \in Slots, AcquireSlot(e, s)
      PROVE  DispatcherServes' /\ FlagsInMemory'
  BY <1>4 DEF AcquireSlot
<1>5. ASSUME NEW e \in Events, Working(e) \/ Unwind(e)
      PROVE  DispatcherServes' /\ FlagsInMemory'
  BY <1>5 DEF Working, Boot, Spawn, Arm, WorkEnds, Settle, Unwind, ForgetFlags
<1>6. ASSUME NEW e \in Events, StrayClaim(e)
      PROVE  DispatcherServes' /\ FlagsInMemory'
  BY <1>6 DEF StrayClaim, At
<1>7. CASE StrayPutBack
  BY <1>7 DEF StrayPutBack, At
<1>8. CASE Stop
  BY <1>8 DEF Stop, DispatcherCancelled, At
<1>9. CASE Stopping
  BY <1>9 DEF Stopping, Drained, DrainTimeout, Interrupt, HookDone, Stopped
<1>10. CASE Exit \/ Crash
  BY <1>10 DEF Exit, Crash, LoseMemory, At
<1>11. CASE Start
  BY <1>11 DEF Start, At
<1>12. CASE Headless \/ UNCHANGED vars
  BY <1>12 DEF Headless, vars
<1>13. CASE DispatcherCrashes
  BY <1>13 DEF DispatcherCrashes
<1> QED
  BY <1>1, <1>2, <1>3, <1>4, <1>5, <1>6, <1>7, <1>8, <1>9, <1>10, <1>11, <1>12, <1>13 DEF Next

(* Only stop() interrupts, and it notes whom it has cancelled. *)
LEMMA InterruptedByStopKept ==
    ASSUME IInv, [Next]_vars
    PROVE  InterruptedByStop'
<1> USE DEF IInv, InterruptedByStop, Serving, store, run, cancelling, stopping
<1>1. ASSUME NEW e \in Events, Settle(e) \/ Unwind(e)
      PROVE  InterruptedByStop'
  BY <1>1 DEF Settle, Unwind, ForgetFlags
<1>2. CASE Stop \/ Stopping
  BY <1>2 DEF Stop, Stopping, Drained, DrainTimeout, Interrupt, HookDone, Stopped
<1>3. CASE Exit \/ Crash \/ Start
  BY <1>3 DEF Exit, Crash, LoseMemory, Start
<1>4. CASE UNCHANGED <<phase, interrupted, doomed>>
  BY <1>4
<1> QED
  BY <1>1, <1>2, <1>3, <1>4
  DEF Next, Requests, Record, Reopen, Retrigger, CancelEvent, Dispatcher,
      DispatcherCrashes, Headless,
      Claim, ClaimNothing,
      Sleep, Rouse, PutBack, Dispatch, Working, Boot, Spawn, Arm, WorkEnds, BackoffEnds,
      AcquireSlot, Fire, Release, StrayClaim, StrayPutBack, vars

(* What a step may make busy: only the row of a Dispatch, whose issue      *)
(* nobody held.                                                            *)
Dispatched(e) == Dispatch /\ e = disp.row

LEMMA NewlyBusy ==
    ASSUME IInv, [Next]_vars, NEW e \in Events, Busy(e)'
    PROVE  Busy(e) \/ Dispatched(e)
<1> USE DEF IInv, TypeOK, Busy, Dispatched, store, run, cancelling, stopping
<1>1. CASE Dispatch
  BY <1>1 DEF Dispatch
<1>2. ASSUME NEW f \in Events, NEW s \in Slots, AcquireSlot(f, s)
      PROVE  Busy(e)
  BY <1>2 DEF AcquireSlot
<1>3. ASSUME NEW f \in Events, Boot(f) \/ Spawn(f) \/ Arm(f) \/ Fire(f)
      PROVE  Busy(e)
  BY <1>3 DEF Boot, Spawn, Arm, Fire
<1>4. ASSUME NEW f \in Events, NEW o \in {"good", "bad"}, WorkEnds(f, o)
      PROVE  Busy(e)
  BY <1>4 DEF WorkEnds, EndsAs
<1>5. ASSUME NEW f \in Events, Settle(f) \/ Release(f)
      PROVE  Busy(e)
  BY <1>5 DEF Settle, Release
<1>6. ASSUME NEW f \in Events, Unwind(f)
      PROVE  Busy(e)
  BY <1>6 DEF Unwind, LeftBehind
<1>7. CASE HookDone
  BY <1>7 DEF HookDone
<1>8. CASE Exit \/ Crash
  BY <1>8 DEF Exit, Crash, LoseMemory
<1>9. CASE UNCHANGED <<task, stage>>
  BY <1>9
<1> QED
  BY <1>1, <1>2, <1>3, <1>4, <1>5, <1>6, <1>7, <1>8, <1>9
  DEF Next, Requests, Record, Reopen, Retrigger, CancelEvent, Dispatcher,
      DispatcherCrashes, Headless,
      Claim, ClaimNothing,
      Sleep, Rouse, PutBack, Working, BackoffEnds, StrayClaim, StrayPutBack, Stop, Stopping,
      Drained, DrainTimeout, Interrupt, Stopped, Start, vars

(* A dispatched delivery and its issue were free. *)
LEMMA DispatchedWasFree ==
    ASSUME IInv, Dispatch
    PROVE  /\ disp.row \in Events
           /\ \A e \in Events : KeyOf[e] = KeyOf[disp.row] => ~Busy(e)
<1>1. disp.at = "checking" /\ KeyOf[disp.row] \notin inflight
  BY DEF Dispatch, IssueInFlight
<1>2. disp.row \in Events
  BY <1>1 DEF IInv, TypeOK, DispatcherStates
<1>3. Serving
  BY <1>1 DEF IInv, DispatcherServes, Serving
<1> QED
  BY <1>1, <1>2, <1>3 DEF IInv, IssueHeld

LEMMA OneRunPerIssueKept ==
    ASSUME IInv, [Next]_vars
    PROVE  OneRunPerIssue'
<1> SUFFICES ASSUME NEW e \in Events, NEW f \in Events, Busy(e)', Busy(f)', KeyOf[e] = KeyOf[f]
             PROVE  e = f
  BY DEF OneRunPerIssue
<1>1. Busy(e) \/ Dispatched(e)
  BY NewlyBusy
<1>2. Busy(f) \/ Dispatched(f)
  BY NewlyBusy
<1>3. CASE Dispatched(e)
  BY <1>2, <1>3, DispatchedWasFree DEF Dispatched
<1>4. CASE Dispatched(f)
  BY <1>1, <1>4, DispatchedWasFree DEF Dispatched
<1>5. CASE Busy(e) /\ Busy(f)
  BY <1>5 DEF IInv, OneRunPerIssue
<1> QED
  BY <1>1, <1>2, <1>3, <1>4, <1>5

(* An issue is given up with the end of its task, whose thread is over, or *)
(* by a task that stop() cancelled.                                        *)
LEMMA IssueHeldKept ==
    ASSUME IInv, [Next]_vars
    PROVE  IssueHeld'
<1> SUFFICES ASSUME Serving', NEW e \in Events, Busy(e)'
             PROVE  KeyOf[e] \in inflight'
  BY DEF IssueHeld
<1> USE DEF IInv, store, run, cancelling, stopping
<1>1. CASE Dispatch
  <2>1. inflight' = inflight \cup {KeyOf[disp.row]} /\ phase' = phase
    BY <1>1 DEF Dispatch
  <2>2. Serving
    BY <2>1 DEF Serving
  <2> QED
    BY <2>1, <2>2, NewlyBusy DEF IssueHeld, Dispatched
<1>2. ASSUME NEW f \in Events, Release(f)
      PROVE  KeyOf[e] \in inflight'
  <2>1. /\ inflight' = inflight \ {KeyOf[f]} /\ phase' = phase
        /\ stage' = stage /\ task' = [task EXCEPT ![f] = "none"] /\ task[f] = "settle"
    BY <1>2 DEF Release
  <2>2. e # f /\ Busy(e) /\ Busy(f)
    BY <2>1 DEF Busy, TypeOK, ThreadHasTask
  <2>3. KeyOf[e] # KeyOf[f]
    BY <2>2 DEF OneRunPerIssue
  <2> QED
    BY <2>1, <2>2, <2>3 DEF IssueHeld, Serving
<1>3. ASSUME NEW f \in Events, Unwind(f)
      PROVE  FALSE
  BY <1>3 DEF Unwind, InterruptedByStop, Serving
<1>4. CASE Exit \/ Crash
  BY <1>4 DEF Exit, Crash, LoseMemory, Busy
<1>5. CASE ~Dispatch /\ inflight' = inflight /\ (Serving' => Serving)
  BY <1>5, NewlyBusy DEF IssueHeld, Dispatched
<1> QED
  BY <1>1, <1>2, <1>3, <1>4, <1>5
  DEF Next, Requests, Record, Reopen, Retrigger, CancelEvent, Dispatcher,
      DispatcherCrashes, Headless,
      Claim, ClaimNothing,
      Sleep, Rouse, PutBack, Working, Boot, Spawn, Arm, WorkEnds, Settle, BackoffEnds,
      AcquireSlot, Fire, StrayClaim, StrayPutBack, Stop, Stopping, Drained, DrainTimeout,
      Interrupt, HookDone, Stopped, Start, vars, Serving

(* A task that waits for a slot or cleans up has no thread; one that holds *)
(* a slot is at work.                                                      *)
LEMMA TasksKept ==
    ASSUME IInv, [Next]_vars
    PROVE  ThreadHasTask' /\ SlotHasTask'
<1> USE DEF IInv, TypeOK, ThreadHasTask, SlotHasTask, store, run, cancelling, stopping
<1>1. CASE Dispatch
  <2>1. ~Busy(disp.row)
    BY <1>1, DispatchedWasFree
  <2> QED
    BY <1>1, <2>1 DEF Dispatch, Busy
<1>2. ASSUME NEW f \in Events, NEW s \in Slots, AcquireSlot(f, s)
      PROVE  ThreadHasTask' /\ SlotHasTask'
  BY <1>2 DEF AcquireSlot
<1>3. ASSUME NEW f \in Events, Boot(f) \/ Spawn(f) \/ Arm(f) \/ Fire(f)
      PROVE  ThreadHasTask' /\ SlotHasTask'
  BY <1>3 DEF Boot, Spawn, Arm, Fire
<1>4. ASSUME NEW f \in Events, NEW o \in {"good", "bad"}, WorkEnds(f, o)
      PROVE  ThreadHasTask' /\ SlotHasTask'
  BY <1>4 DEF WorkEnds
<1>5. ASSUME NEW f \in Events, Settle(f)
      PROVE  ThreadHasTask' /\ SlotHasTask'
  BY <1>5 DEF Settle, ReleaseSlot
<1>6. ASSUME NEW f \in Events, Release(f)
      PROVE  ThreadHasTask' /\ SlotHasTask'
  BY <1>6 DEF Release
<1>7. ASSUME NEW f \in Events, Unwind(f)
      PROVE  ThreadHasTask' /\ SlotHasTask'
  BY <1>7 DEF Unwind, ReleaseSlot
<1>8. CASE HookDone
  BY <1>8 DEF HookDone
<1>9. CASE Exit \/ Crash
  BY <1>9 DEF Exit, Crash, LoseMemory
<1>10. CASE UNCHANGED <<task, stage, slot>>
  BY <1>10
<1> QED
  BY <1>1, <1>2, <1>3, <1>4, <1>5, <1>6, <1>7, <1>8, <1>9, <1>10
  DEF Next, Requests, Record, Reopen, Retrigger, CancelEvent, Dispatcher,
      DispatcherCrashes, Headless,
      Claim, ClaimNothing,
      Sleep, Rouse, PutBack, Working, BackoffEnds, StrayClaim, StrayPutBack, Stop, Stopping,
      Drained, DrainTimeout, Interrupt, Stopped, Start, vars

(* Whoever acquires holds no slot yet, whoever releases gives back the one *)
(* it held.                                                                *)
LEMMA SlotsConservedKept ==
    ASSUME IInv, [Next]_vars
    PROVE  SlotsConserved'
<1> USE EventQueueAssumption DEF IInv, TypeOK, SlotsConserved, store, run, cancelling, stopping
<1>1. ASSUME NEW f \in Events, NEW s \in Slots, AcquireSlot(f, s)
      PROVE  SlotsConserved'
  <2>1. slot[f] = NoSlot /\ s \in avail
    BY <1>1 DEF AcquireSlot, SlotHasTask
  <2>2. avail' = avail \ {s} /\ slot' = [slot EXCEPT ![f] = s]
    BY <1>1 DEF AcquireSlot
  <2>3. \A e \in Events : slot[e] # s
    BY <2>1
  <2> QED
    BY <2>1, <2>2, <2>3
<1>2. ASSUME NEW f \in Events, ReleaseSlot(f)
      PROVE  SlotsConserved'
  BY <1>2 DEF ReleaseSlot
<1>3. CASE Exit \/ Crash
  BY <1>3 DEF Exit, Crash, LoseMemory
<1>4. CASE UNCHANGED <<slot, avail>>
  BY <1>4
<1> QED
  BY <1>1, <1>2, <1>3, <1>4
  DEF Next, Requests, Record, Reopen, Retrigger, CancelEvent, Dispatcher,
      DispatcherCrashes, Headless,
      Claim, ClaimNothing,
      Sleep, Rouse, PutBack, Dispatch, Working, Boot, Spawn, Arm, WorkEnds, Settle, BackoffEnds,
      Fire, Release, Unwind, StrayClaim, StrayPutBack, Stop, Stopping, Drained, DrainTimeout,
      Interrupt, HookDone, Stopped, Start, vars

(* The ways a row changes its state. *)
Enters(e) ==
    /\ table[e].state \in Inactive \cup {"none"}
    /\ table'[e].state \in {"queued", "skipped"}
    /\ cancelled' = cancelled

IsClaimed(e) ==
    /\ Claim(e) \/ StrayClaim(e)
    /\ table[e].state = "queued"
    /\ table'[e].state = "running"

IsPutBack(e) ==
    /\ PutBack \/ StrayPutBack
    /\ disp.row = e
    /\ table'[e].state = "queued"

IsReset(e) == Start /\ table[e].state = "running" /\ table'[e].state = "queued"

LEMMA RowSteps ==
    ASSUME TypeOK, [Next]_vars, NEW e \in Events
    PROVE  \/ table'[e].state = table[e].state
           \/ Enters(e) \/ IsClaimed(e) \/ IsPutBack(e) \/ Settle(e) \/ IsReset(e)
<1> DEFINE Goal == \/ table'[e].state = table[e].state
                   \/ Enters(e) \/ IsClaimed(e) \/ IsPutBack(e) \/ Settle(e) \/ IsReset(e)
<1> USE DEF TypeOK
<1>1. ASSUME NEW f \in Events, NEW s \in {"queued", "skipped"}, Record(f, s)
      PROVE  Goal
  <2>1. OnlyRow(table, table', f, s)
    BY <1>1, NewRowFacts, RowReplaced DEF Record, States
  <2> QED
    BY <1>1, <2>1 DEF Record, OnlyRow, Enters, cancelling
<1>2. ASSUME NEW f \in Events, Reopen(f)
      PROVE  Goal
  <2>1. OnlyRow(table, table', f, "queued")
    BY <1>2, RequeueEventFacts DEF Reopen
  <2> QED
    BY <1>2, <2>1 DEF Reopen, OnlyRow, Enters, cancelling
<1>3. ASSUME NEW f \in Events, Retrigger(f)
      PROVE  Goal
  <2>1. OnlyRow(table, table', f, "queued")
    BY <1>3, NewRowFacts, RowReplaced DEF Retrigger, States
  <2> QED
    BY <1>3, <2>1 DEF Retrigger, OnlyRow, Enters, cancelling
<1>4. ASSUME NEW f \in Events, BackoffEnds(f)
      PROVE  Goal
  BY <1>4, DueFacts DEF BackoffEnds, OnlyRow
<1>5. ASSUME NEW f \in Events, Claim(f) \/ StrayClaim(f)
      PROVE  Goal
  <2>1. OnlyRow(table, table', f, "running")
    BY <1>5, ClaimRowFacts DEF Claim, StrayClaim
  <2>2. table[f].state = "queued"
    BY <1>5 DEF Claim, StrayClaim, NextToClaim, Claimable
  <2> QED
    BY <1>5, <2>1, <2>2 DEF OnlyRow, IsClaimed
<1>6. ASSUME PutBack \/ StrayPutBack
      PROVE  Goal
  <2>1. disp.row \in Events
    BY <1>6 DEF PutBack, StrayPutBack, DispatcherStates
  <2>2. OnlyRow(table, table', disp.row, "queued")
    BY <1>6, <2>1, RequeueEventFacts DEF PutBack, StrayPutBack
  <2> QED
    BY <1>6, <2>2 DEF OnlyRow, IsPutBack
<1>7. ASSUME NEW f \in Events, Settle(f)
      PROVE  Goal
  <2>1. table' = TableAfter(f)
    BY <1>7 DEF Settle
  <2> QED
    BY <1>7, <2>1, TableAfterFacts
<1>8. ASSUME Start
      PROVE  Goal
  <2>1. table' = ResetStuckRunning(table)
    BY <1>8 DEF Start
  <2> QED
    BY <1>8, <2>1, ResetFacts DEF IsReset
<1>9. CASE table' = table
  BY <1>9
<1> QED
  BY <1>1, <1>2, <1>3, <1>4, <1>5, <1>6, <1>7, <1>8, <1>9
  DEF Next, Requests, Dispatcher,
      DispatcherCrashes, Headless,
      Working, Stopping, vars, store, run, CancelEvent,
      ClaimNothing, Sleep, Rouse, Dispatch, AcquireSlot, Boot, Spawn, Arm, Fire, WorkEnds,
      Release, Unwind, Stop, Drained, DrainTimeout, Interrupt, HookDone, Stopped, Exit, Crash,
      LoseMemory

(* A flag is set on a running row, and gone before the row is inactive. *)
LEMMA CancelTargetsThisRunKept ==
    ASSUME IInv, [Next]_vars
    PROVE  CancelTargetsThisRun'
<1> SUFFICES ASSUME NEW e \in Events, e \in cancelled'
             PROVE  table'[e].state \in {"queued", "running"}
  BY NextTypeOK DEF IInv, TypeOK, CancelTargetsThisRun
<1> USE DEF IInv, TypeOK
<1>1. CASE CancelEvent(e)
  BY <1>1 DEF CancelEvent, store
<1>2. CASE ~CancelEvent(e)
  <2>1. e \in cancelled
    BY <1>2 DEF Next, Requests, Record, Reopen, Retrigger, CancelEvent, Dispatcher,
      DispatcherCrashes, Headless,
      Claim,
      ClaimNothing, Sleep, Rouse, PutBack, Dispatch, Working, Boot, Spawn, Arm, WorkEnds, Settle,
      BackoffEnds, AcquireSlot, Fire, Release, Unwind, StrayClaim, StrayPutBack, Stop, Stopping,
      Drained, DrainTimeout, Interrupt, HookDone, Stopped, Exit, Crash, LoseMemory, Start,
      ForgetFlags, vars, cancelling
  <2>2. table[e].state \in {"queued", "running"}
    BY <2>1 DEF CancelTargetsThisRun
  <2>3. ~Settle(e)
    BY DEF Settle, ForgetFlags
  <2> QED
    BY <2>2, <2>3, RowSteps DEF Enters, Inactive, IsClaimed, IsPutBack, IsReset
<1> QED
  BY <1>1, <1>2

(* A row that stays running keeps its task, or the dispatcher turns to it. *)
LEMMA NoStuckRowKept ==
    ASSUME IInv, [Next]_vars
    PROVE  NoStuckRow'
<1> SUFFICES ASSUME phase' = "up", NEW e \in Events, table'[e].state = "running"
             PROVE  \/ task'[e] \in {"slot", "work"}
                    \/ disp'.at \in {"checking", "crashed"} /\ disp'.row = e
  BY DEF NoStuckRow
<1> USE DEF IInv, TypeOK, store, run, cancelling, stopping
<1>1. CASE IsClaimed(e)
  <2>1. Claim(e)
    BY <1>1 DEF IsClaimed, StrayClaim, DispatcherServes, Serving
  <2> QED
    BY <2>1 DEF Claim
<1>2. ASSUME Settle(e)
      PROVE  FALSE
  <2>1. interrupted = {} /\ table[e].state \in States /\ table' = TableAfter(e)
    BY <1>2, RowsFacts DEF Settle, InterruptedByStop, Serving
  <2> QED
    BY <2>1, TableAfterFacts
<1>3. CASE table'[e].state = table[e].state /\ ~Settle(e)
  <2>1. ~Start
    BY <1>3, ResetFacts DEF Start
  <2>2. phase = "up"
    BY <2>1 DEF Next, Requests, Record, Reopen, Retrigger, CancelEvent, Dispatcher,
      DispatcherCrashes, Headless,
      Claim,
      ClaimNothing, Sleep, Rouse, PutBack, Dispatch, Working, Boot, Spawn, Arm, WorkEnds, Settle,
      BackoffEnds, AcquireSlot, Fire, Release, Unwind, StrayClaim, StrayPutBack, Stop, Stopping,
      Drained, DrainTimeout, Interrupt, HookDone, Stopped, Exit, Crash, LoseMemory, vars
  <2>3. CASE task[e] \in {"slot", "work"}
    <3>1. ASSUME NEW f \in Events, Unwind(f)
          PROVE  FALSE
      BY <2>2, <3>1 DEF Unwind, InterruptedByStop, Serving
    <3>2. ASSUME NEW f \in Events, Release(f) \/ Settle(f)
          PROVE  task'[e] = task[e]
      BY <1>3, <2>3, <3>2 DEF Release, Settle
    <3>3. ASSUME NEW f \in Events, NEW s \in Slots, AcquireSlot(f, s)
          PROVE  task'[e] \in {"slot", "work"}
      BY <2>3, <3>3 DEF AcquireSlot
    <3>4. ASSUME Dispatch
          PROVE  task'[e] \in {"slot", "work"}
      BY <2>3, <3>4 DEF Dispatch
    <3>5. CASE UNCHANGED task
      BY <2>3, <3>5
    <3>6. ~Exit /\ ~Crash
      BY DEF Exit, Crash, LoseMemory
    <3>7. \/ \E f \in Events : Unwind(f) \/ Release(f) \/ Settle(f)
          \/ \E f \in Events, s \in Slots : AcquireSlot(f, s)
          \/ Dispatch
          \/ UNCHANGED task
      BY <2>1, <3>6
      DEF Next, Requests, Record, Reopen, Retrigger, CancelEvent, Dispatcher,
      DispatcherCrashes, Headless,
      Claim,
      ClaimNothing, Sleep, Rouse, PutBack, Working, Boot, Spawn, Arm, WorkEnds,
      BackoffEnds, Fire, StrayClaim, StrayPutBack, Stop, Stopping,
      Drained, DrainTimeout, Interrupt, HookDone, Stopped, vars
    <3> QED
      BY <2>3, <3>1, <3>2, <3>3, <3>4, <3>5, <3>7
  <2>4. CASE disp.at \in {"checking", "crashed"} /\ disp.row = e
    <3>1. disp.at \in {"checking", "crashed"} /\ disp.row = e
      BY <2>4
    <3>2. ASSUME Dispatch
          PROVE  task'[e] = "slot"
      BY <3>1, <3>2 DEF Dispatch
    <3>3. ASSUME PutBack
          PROVE  FALSE
      <4>1. table' = RequeueEvent(table, e)
        BY <3>1, <3>3 DEF PutBack
      <4>2. OnlyRow(table, table', e, "queued")
        BY <4>1, RequeueEventFacts
      <4> QED
        BY <4>2 DEF OnlyRow
    <3>4. ASSUME NEW f \in Events, Claim(f) \/ StrayClaim(f)
          PROVE  FALSE
      BY <3>1, <3>4 DEF Claim, StrayClaim
    <3>5. CASE UNCHANGED disp
      BY <2>4, <3>5
    <3>6. CASE DispatcherCrashes
      BY <3>1, <3>6 DEF DispatcherCrashes, DispatcherStates
    <3> QED
      BY <2>1, <3>1, <3>2, <3>3, <3>4, <3>5, <3>6
      DEF Next, Requests, Record, Reopen, Retrigger, CancelEvent, Dispatcher,
      DispatcherCrashes, Headless,
      
      ClaimNothing, Sleep, Rouse, WaitOver, Working, Boot, Spawn, Arm, WorkEnds, Settle,
      BackoffEnds, AcquireSlot, Fire, Release, Unwind, StrayPutBack, Stop, Stopping,
      Drained, DrainTimeout, Interrupt, HookDone, Stopped, Exit, Crash, LoseMemory, vars
  <2> QED
    BY <1>3, <2>2, <2>3, <2>4 DEF NoStuckRow
<1> QED
  BY <1>1, <1>2, <1>3, RowSteps DEF Enters, IsPutBack, IsReset

LEMMA NextIInv == IInv /\ [Next]_vars => IInv'
<1> SUFFICES ASSUME IInv, [Next]_vars
             PROVE  IInv'
  OBVIOUS
<1>1. TypeOK'
  BY NextTypeOK DEF IInv
<1>2. DispatcherServes' /\ FlagsInMemory'
  BY DispatcherServesKept
<1>3. IssueHeld' /\ OneRunPerIssue'
  BY IssueHeldKept, OneRunPerIssueKept
<1>4. InterruptedByStop' /\ ThreadHasTask' /\ SlotHasTask'
  BY InterruptedByStopKept, TasksKept
<1>5. SlotsConserved' /\ CancelTargetsThisRun' /\ NoStuckRow'
  BY SlotsConservedKept, CancelTargetsThisRunKept, NoStuckRowKept
<1> QED
  BY <1>1, <1>2, <1>3, <1>4, <1>5 DEF IInv

THEOREM InductiveInvariant == Spec => []IInv
  BY InitIInv, NextIInv, PTL DEF Spec

-----------------------------------------------------------------------------
(* Two deliveries of one issue are never worked on at a time, whatever     *)
(* operators, crashes and stops do to their rows.                          *)
THEOREM IssuesAreExclusive == Spec => []OneRunPerIssue
<1>1. IInv => OneRunPerIssue
  BY DEF IInv
<1> QED
  BY <1>1, InductiveInvariant, PTL

(* Every slot is in the pool or with one task. *)
THEOREM SlotsAreConserved == Spec => []SlotsConserved
<1>1. IInv => SlotsConserved
  BY DEF IInv
<1> QED
  BY <1>1, InductiveInvariant, PTL

(* While the process serves, no row is stuck in "running". *)
THEOREM RowsNeverStick == Spec => []NoStuckRow
<1>1. IInv => NoStuckRow
  BY DEF IInv
<1> QED
  BY <1>1, InductiveInvariant, PTL

(* The flag of a cancellation is gone before its row is inactive. *)
THEOREM CancelIsForThisRun == Spec => []CancelTargetsThisRun
<1>1. IInv => CancelTargetsThisRun
  BY DEF IInv
<1> QED
  BY <1>1, InductiveInvariant, PTL

(* A cancelled running row is neither done nor retried. *)
THEOREM CancelledRowsFail == Spec => CancelSticks
<1> DEFINE Sticks ==
      \A e \in cancelled :
          table[e].state = "running" /\ table'[e].state \in {"done", "queued"} => disp.row = e
<1>1. IInv /\ [Next]_vars => [Sticks]_vars
  <2> SUFFICES ASSUME IInv, [Next]_vars, NEW e \in cancelled, table[e].state = "running",
                      table'[e].state \in {"done", "queued"}
               PROVE  disp.row = e
    OBVIOUS
  <2>1. e \in Events
    BY DEF IInv, TypeOK
  <2>2. ~IsReset(e)
    BY DEF IsReset, Start, IInv, FlagsInMemory
  <2>3. ASSUME Settle(e)
        PROVE  FALSE
    <3>1. table' = TableAfter(e)
      BY <2>3 DEF Settle
    <3> QED
      BY <2>1, <3>1, TableAfterFacts DEF IInv
  <2> QED
    BY <2>1, <2>2, <2>3, RowSteps DEF IInv, Enters, Inactive, IsClaimed, IsPutBack
<1> HIDE DEF Sticks
<1>2. Spec => [][Sticks]_vars
  BY <1>1, InductiveInvariant, PTL DEF Spec
<1> QED
  BY <1>2 DEF CancelSticks, Sticks

(* A run leaves its row running only if stop() interrupted that run or the *)
(* process is gone.                                                        *)
THEOREM OutcomesAreRecorded == Spec => OutcomeIsRecorded
<1> DEFINE Recorded ==
      \A e \in Events :
          task[e] = "work" /\ task'[e] # "work" /\ table'[e].state = "running"
              => e \in interrupted \/ phase' = "down"
<1>1. IInv /\ [Next]_vars => [Recorded]_vars
  <2> SUFFICES ASSUME IInv, [Next]_vars, NEW e \in Events, task[e] = "work", task'[e] # "work",
                      table'[e].state = "running", phase' # "down"
               PROVE  e \in interrupted
    OBVIOUS
  <2> USE DEF IInv, TypeOK
  <2>1. CASE Settle(e)
    <3>1. table' = TableAfter(e)
      BY <2>1 DEF Settle
    <3> QED
      BY <3>1, TableAfterFacts
  <2>2. CASE Unwind(e)
    BY <2>2 DEF Unwind, InterruptedByStop
  <2>3. ASSUME Dispatch
        PROVE  FALSE
    <3>1. ~Busy(disp.row)
      BY <2>3, DispatchedWasFree
    <3> QED
      BY <2>3, <3>1 DEF Dispatch, Busy
  <2>4. ASSUME NEW f \in Events, NEW s \in Slots, AcquireSlot(f, s)
        PROVE  FALSE
    BY <2>4 DEF AcquireSlot
  <2>5. ASSUME NEW f \in Events, Release(f) \/ (f # e /\ (Settle(f) \/ Unwind(f)))
        PROVE  FALSE
    BY <2>5 DEF Release, Settle, Unwind
  <2> QED
    BY <2>1, <2>2, <2>3, <2>4, <2>5
    DEF Next, Requests, Record, Reopen, Retrigger, CancelEvent, Dispatcher,
      DispatcherCrashes, Headless,
      Claim,
      ClaimNothing, Sleep, Rouse, PutBack, Working, Boot, Spawn, Arm, WorkEnds,
      BackoffEnds, Fire, StrayClaim, StrayPutBack, Stop, Stopping, Drained, DrainTimeout,
      Interrupt, HookDone, Stopped, Exit, Crash, LoseMemory, Start, vars, store, run,
      cancelling, stopping
<1> HIDE DEF Recorded
<1>2. Spec => [][Recorded]_vars
  BY <1>1, InductiveInvariant, PTL DEF Spec
<1> QED
  BY <1>2 DEF OutcomeIsRecorded, Recorded
=============================================================================
