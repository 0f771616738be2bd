----------------------------- MODULE SpawnSlots -----------------------------
(***************************************************************************)
(* The session's spawn semaphore and the three ways the task tool          *)
(* (packages/coding-agent/src/task/index.ts) runs a subagent under it:     *)
(*                                                                         *)
(*   "detached"  a background job registered with the job manager;         *)
(*   "inline"    the single spawn of a synchronous call;                   *)
(*   "fanout"    one of several spawns of a synchronous call.              *)
(*                                                                         *)
(* Every use of the semaphore goes through getSpawnSemaphore(), which      *)
(* first resizes it to the present value of the task.maxConcurrency        *)
(* setting; the fan-out path alone fetches it once for the whole batch.    *)
(* The user may change the setting and abort any spawn at any time.        *)
(***************************************************************************)
EXTENDS Semaphore, FiniteSets

CONSTANTS Spawns,     \* the spawns of one session
          Limits      \* values of the task.maxConcurrency setting

ASSUME SpawnSlotsAssumption == IsFiniteSet(Spawns) /\ Limits \subseteq Int

VARIABLES setting,    \* the task.maxConcurrency setting
          sem,        \* the session's spawn semaphore
          kind,       \* kind[j]: which path runs spawn j
          pc,         \* pc[j]: how far that path is
          held,       \* held[j]: the path's semaphoreHeld flag
          aborted     \* the spawns whose signal has fired

vars == <<setting, sem, kind, pc, held, aborted>>

Kinds == {"detached", "inline", "fanout"}

Init ==
    /\ setting \in Limits
    /\ sem = NewSemaphore(setting)
    /\ kind = [j \in Spawns |-> "none"]
    /\ pc = [j \in Spawns |-> "new"]
    /\ held = [j \in Spawns |-> FALSE]
    /\ aborted = {}

(* Variant: a changed limit replaces the semaphore.                        *)
FetchedAnew ==
    IF sem.max = NormalizeConcurrencyLimit(setting) THEN sem ELSE NewSemaphore(setting)

(* getSpawnSemaphore(): resized in place. *)
Fetched == Resize(sem, setting)

(* releaseSpawnSemaphore(). *)
Returned == Release(Fetched)

(* Variant: a permit that arrives after the abort is forgotten.            *)
ForgottenUnused(j) == Resume(sem, j)

(* A permit that arrives after the abort is given back unused.             *)
ReturnedUnused(j) == Release(Resize(Resume(sem, j), setting))

(* The setting is changed; the semaphore learns of it at its next use. *)
Configure(l) ==
    /\ l # setting
    /\ setting' = l
    /\ UNCHANGED <<sem, kind, pc, held, aborted>>

(***************************************************************************)
(* The path reaches its acquire().  A signal that has already fired makes  *)
(* acquire() throw: the spawn ends without having touched the counters.    *)
(* The fan-out fetched the semaphore before its first worker ran, so for   *)
(* it the resize may be older than the acquire.                            *)
(***************************************************************************)
Start(j, k) ==
    /\ pc[j] = "new"
    /\ kind' = [kind EXCEPT ![j] = k]
    /\ \E s \in {Fetched} \cup (IF k = "fanout" THEN {sem} ELSE {}) :
          IF j \in aborted
          THEN /\ sem' = s
               /\ pc' = [pc EXCEPT ![j] = "settled"]
          ELSE /\ sem' = Acquire(s, j)
               /\ pc' = [pc EXCEPT ![j] = "acquiring"]
    /\ UNCHANGED <<setting, held, aborted>>

(***************************************************************************)
(* The await returns with a permit.  A detached spawn looks at its signal  *)
(* once more and gives the permit back unused if it fired meanwhile; the   *)
(* synchronous paths go on and let the executor notice.                    *)
(***************************************************************************)
Resumed(j) ==
    /\ pc[j] = "acquiring"
    /\ j \in sem.admitted
    /\ IF kind[j] = "detached" /\ j \in aborted
       THEN /\ sem' = ReturnedUnused(j)
            /\ pc' = [pc EXCEPT ![j] = "settled"]
            /\ UNCHANGED held
       ELSE /\ sem' = Resume(sem, j)
            /\ pc' = [pc EXCEPT ![j] = "running"]
            /\ held' = [held EXCEPT ![j] = TRUE]
    /\ UNCHANGED <<setting, kind, aborted>>

(***************************************************************************)
(* The executor returns or throws: the finally block releases the permit.  *)
(***************************************************************************)
Finish(j) ==
    /\ pc[j] = "running"
    /\ held[j]
    /\ sem' = Returned
    /\ held' = [held EXCEPT ![j] = FALSE]
    /\ pc' = [pc EXCEPT ![j] = "settled"]
    /\ UNCHANGED <<setting, kind, aborted>>

(***************************************************************************)
(* The signal of a spawn fires.  A pending acquire() leaves the queue and  *)
(* rejects, which ends the spawn; anything later only sees the signal.     *)
(***************************************************************************)
Abort(j) ==
    /\ j \notin aborted
    /\ pc[j] # "settled"
    /\ aborted' = aborted \cup {j}
    /\ IF j \in Pending(sem)
       THEN /\ sem' = Abandon(sem, j)
            /\ pc' = [pc EXCEPT ![j] = "settled"]
       ELSE UNCHANGED <<sem, pc>>
    /\ UNCHANGED <<setting, kind, held>>

Next ==
    \/ \E l \in Limits : Configure(l)
    \/ \E j \in Spawns :
          \/ \E k \in Kinds : Start(j, k)
          \/ Resumed(j)
          \/ Finish(j)
          \/ Abort(j)

(***************************************************************************)
(* Promise continuations run, and an executor run ends (it has its own     *)
(* wall clock and abort handling).  Users need neither change the setting  *)
(* nor abort.                                                              *)
(***************************************************************************)
Fairness ==
    \A j \in Spawns :
       /\ WF_vars(\E k \in Kinds : Start(j, k))
       /\ WF_vars(Resumed(j))
       /\ WF_vars(Finish(j))

Spec == Init /\ [][Next]_vars /\ Fairness
-----------------------------------------------------------------------------
(* The types of the variables. *)
TypeOK ==
    /\ setting \in Limits
    /\ sem \in SemaphoresOf(Spawns)
    /\ kind \in [Spawns -> Kinds \cup {"none"}]
    /\ pc \in [Spawns -> {"new", "acquiring", "running", "settled"}]
    /\ held \in [Spawns -> BOOLEAN]
    /\ aborted \subseteq Spawns

Holders == sem.admitted \cup {j \in Spawns : held[j]}

Pool == INSTANCE PermitPool
        WITH Callers <- Spawns, ceiling <- sem.max, waiting <- sem.queue, owners <- Holders

(* The spawn semaphore, whose counter, queue and resolved promises are     *)
(* moved by three paths of the task tool, behaves as a pool of permits     *)
(* owned by spawns: each step of a path is one step of the pool or none    *)
(* (task/parallel.ts:140-213, task/index.ts).                              *)
ImplementsPermitPool == Pool!Spec

(* The counter never drifts from the permits that spawns really own: none  *)
(* is leaked by an abort between admission and resumption, and none is     *)
(* returned twice (the drift would shrink or exceed task.maxConcurrency    *)
(* for the rest of the session).                                           *)
PermitsAccounted == sem.current = Cardinality(Holders)

(* A spawn waits only when the ceiling the semaphore knows is reached: no  *)
(* release, resize or abort leaves a free permit beside a queued spawn.    *)
NoIdlePermit == sem.queue # <<>> => ~HasRoom(sem)

(* The queue holds exactly the spawns that are suspended in acquire()      *)
(* without a permit, each once, and none of them is aborted: an abandoned  *)
(* waiter would swallow a permit at a later release().                     *)
NoAbandonedWaiter ==
    /\ Pending(sem) = {j \in Spawns : pc[j] = "acquiring"} \ sem.admitted
    /\ \A a, b \in 1..Len(sem.queue) : sem.queue[a] = sem.queue[b] => a = b
    /\ Pending(sem) \cap aborted = {}

(* Permits are only handed out under the ceiling, even when it has just    *)
(* been lowered below the number of running spawns.                        *)
AdmissionUnderCeiling ==
    [][\A j \in Spawns :
          j \in sem'.admitted \ sem.admitted
             => sem'.max = 0 \/ sem'.current <= sem'.max]_vars

Before(q, j, k) ==
    \E a \in 1..Len(q), b \in 1..Len(q) : a < b /\ q[a] = j /\ q[b] = k

(* Waiters are admitted in the order in which they called acquire(): while *)
(* k waits, only spawns that stood before k are admitted, and nobody ever  *)
(* gets in front of k.                                                     *)
FirstComeFirstServed ==
    [][\A k \in Pending(sem) \cap Pending(sem') :
          /\ \A j \in sem'.admitted \ sem.admitted : Before(sem.queue, j, k)
          /\ \A j \in Pending(sem') :
                Before(sem'.queue, j, k) => Before(sem.queue, j, k)]_vars

(* Every spawn the tool started settles, whatever the limit, as long as    *)
(* the runs that hold permits end.                                         *)
EverySpawnSettles == \A j \in Spawns : <>(pc[j] = "settled")
=============================================================================
