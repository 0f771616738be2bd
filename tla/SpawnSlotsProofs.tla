-------------------------- MODULE SpawnSlotsProofs --------------------------
(***************************************************************************)
(* Theorems about the spawn semaphore, for every finite set of spawns and  *)
(* every set of integer limits.                                            *)
(***************************************************************************)
EXTENDS SpawnSlots, SemaphoreProofs

(* The limits are integers, whatever the setting holds. *)
LEMMA SettingIsInt ==
    ASSUME TypeOK
    PROVE  setting \in Int
  BY SpawnSlotsAssumption DEF TypeOK

(* The semaphore's part of the invariant, and what a step may do to it. *)
SemSound == sem \in SemaphoresOf(Spawns) /\ Tight(sem)

(* Every use that the task tool makes of the semaphore keeps it sound and  *)
(* admits under the ceiling.                                               *)
LEMMA StepKeepsSemSound ==
    ASSUME TypeOK, SemSound, [Next]_vars
    PROVE  SemSound' /\ Under(sem, sem')
<1>1. setting \in Int
  BY SettingIsInt
<1>2. Under(sem, sem)
  BY DEF Under
<1>3. /\ Fetched \in SemaphoresOf(Spawns) /\ Tight(Fetched) /\ Under(sem, Fetched)
  BY <1>1, ResizeFacts DEF Fetched, SemSound
<1>4. ASSUME NEW j \in Spawns, NEW k \in Kinds, Start(j, k)
      PROVE  SemSound' /\ Under(sem, sem')
  <2>1. PICK s \in {Fetched} \cup (IF k = "fanout" THEN {sem} ELSE {}) :
           sem' = IF j \in aborted THEN s ELSE Acquire(s, j)
    BY <1>4 DEF Start
  <2>2. s \in SemaphoresOf(Spawns) /\ Tight(s) /\ Under(sem, s)
    BY <1>2, <1>3, <2>1 DEF SemSound
  <2>3. /\ Acquire(s, j) \in SemaphoresOf(Spawns) /\ Tight(Acquire(s, j))
        /\ Under(sem, Acquire(s, j))
    BY <2>2, AcquireFacts
  <2> QED
    BY <2>1, <2>2, <2>3 DEF SemSound
<1>5. ASSUME NEW j \in Spawns, Resumed(j)
      PROVE  SemSound' /\ Under(sem, sem')
  <2> DEFINE r == Resume(sem, j)
             v == Release(Resize(r, setting))
  <2>1. r \in SemaphoresOf(Spawns) /\ Tight(r) /\ r.admitted \subseteq sem.admitted
    BY ResumeFacts DEF SemSound
  <2>2. v \in SemaphoresOf(Spawns) /\ Tight(v) /\ Under(r, v)
    BY <1>1, <2>1, ResizeThenRelease
  <2>3. Under(sem, r) /\ Under(sem, v)
    BY <2>1, <2>2 DEF Under
  <2>4. sem' = v \/ sem' = r
    BY <1>5 DEF Resumed, ReturnedUnused
  <2> QED
    BY <2>1, <2>2, <2>3, <2>4 DEF SemSound
<1>6. ASSUME NEW j \in Spawns, Finish(j)
      PROVE  SemSound' /\ Under(sem, sem')
  BY <1>1, <1>6, ResizeThenRelease DEF Finish, Returned, Fetched, SemSound
<1>7. ASSUME NEW j \in Spawns, Abort(j)
      PROVE  SemSound' /\ Under(sem, sem')
  BY <1>2, <1>7, AbandonFacts DEF Abort, SemSound
<1>8. CASE sem' = sem
  BY <1>2, <1>8 DEF SemSound
<1> QED
  BY <1>4, <1>5, <1>6, <1>7, <1>8 DEF Next, vars, Configure
-----------------------------------------------------------------------------
Waiting == {j \in Spawns : pc[j] = "acquiring"}
Running == {j \in Spawns : pc[j] = "running"}

(***************************************************************************)
(* The inductive invariant.  The permits are counted against the spawns'   *)
(* program counters: it is the agreement of the queue with them (each      *)
(* suspended spawn is queued once or admitted, nobody else is) that makes  *)
(* every release() the return of a permit that is really out.              *)
(***************************************************************************)
IInv ==
    /\ TypeOK
    /\ Tight(sem)
    /\ \A j \in Spawns : held[j] <=> pc[j] = "running"
    /\ Counted(sem, Spawns, Waiting, Running, 0)
    /\ Pending(sem) \cap aborted = {}

LEMMA InitIInv == Init => IInv
<1> SUFFICES ASSUME Init
             PROVE  IInv
  OBVIOUS
<1>1. setting \in Int
  BY SpawnSlotsAssumption DEF Init
<1>2. sem \in SemaphoresOf(Spawns) /\ Tight(sem)
  BY <1>1, NewSemaphoreType DEF Init
<1>3. TypeOK
  BY <1>2 DEF Init, TypeOK, Kinds
<1>4. Waiting = {} /\ Running = {}
  BY DEF Init, Waiting, Running
<1>5. /\ sem.queue = <<>> /\ sem.admitted = {} /\ sem.current = 0
  BY DEF Init, NewSemaphore
<1>6. Pending(sem) = {} /\ Distinct(sem.queue)
  BY <1>5 DEF Pending, Distinct
<1>7. sem.current = Cardinality(sem.admitted \cup Running) + 0
  BY <1>4, <1>5, FS_EmptySet
<1>8. Counted(sem, Spawns, Waiting, Running, 0)
  BY <1>2, <1>4, <1>5, <1>6, <1>7, FS_EmptySet DEF Counted
<1> QED
  BY <1>2, <1>3, <1>6, <1>8 DEF IInv, Init

(* The step of a spawn to its acquire(). *)
LEMMA StartKeepsCounted ==
    ASSUME IInv, NEW j \in Spawns, NEW k \in Kinds, Start(j, k)
    PROVE  /\ Counted(sem', Spawns, Waiting', Running', 0)
           /\ Pending(sem') \cap aborted' = {}
<1>1. setting \in Int
  BY SettingIsInt DEF IInv
<1>2. /\ Counted(sem, Spawns, Waiting, Running, 0)
      /\ Pending(sem) \cap aborted = {}
      /\ pc \in [Spawns -> {"new", "acquiring", "running", "settled"}]
  BY DEF IInv, TypeOK
<1>3. /\ Counted(Fetched, Spawns, Waiting, Running, 0)
      /\ Pending(Fetched) \subseteq Pending(sem)
  BY <1>1, <1>2, ResizeCounted DEF Fetched
<1>4. PICK s \in {Fetched} \cup (IF k = "fanout" THEN {sem} ELSE {}) :
         IF j \in aborted
         THEN sem' = s /\ pc' = [pc EXCEPT ![j] = "settled"]
         ELSE sem' = Acquire(s, j) /\ pc' = [pc EXCEPT ![j] = "acquiring"]
  BY DEF Start
<1>5. Counted(s, Spawns, Waiting, Running, 0) /\ Pending(s) \subseteq Pending(sem)
  BY <1>2, <1>3, <1>4
<1>6. pc[j] = "new" /\ aborted' = aborted /\ j \notin Waiting /\ j \notin Running
  BY DEF Start, Waiting, Running
<1>7. CASE j \in aborted
  <2>1. Waiting' = Waiting /\ Running' = Running /\ sem' = s
    BY <1>2, <1>4, <1>6, <1>7 DEF Waiting, Running
  <2> QED
    BY <1>2, <1>5, <1>6, <2>1
<1>8. CASE j \notin aborted
  <2>1. Waiting' = Waiting \cup {j} /\ Running' = Running /\ sem' = Acquire(s, j)
    BY <1>2, <1>4, <1>6, <1>8 DEF Waiting, Running
  <2>2. /\ Counted(Acquire(s, j), Spawns, Waiting \cup {j}, Running, 0)
        /\ Pending(Acquire(s, j)) \subseteq Pending(s) \cup {j}
    BY <1>5, <1>6, AcquireCounted
  <2> QED
    BY <1>2, <1>5, <1>6, <1>8, <2>1, <2>2
<1> QED
  BY <1>7, <1>8

(* The step of an admitted spawn past its acquire(). *)
LEMMA ResumedKeepsCounted ==
    ASSUME IInv, NEW j \in Spawns, Resumed(j)
    PROVE  /\ Counted(sem', Spawns, Waiting', Running', 0)
           /\ Pending(sem') \cap aborted' = {}
<1>1. setting \in Int
  BY SettingIsInt DEF IInv
<1>2. /\ Counted(sem, Spawns, Waiting, Running, 0)
      /\ Pending(sem) \cap aborted = {}
      /\ pc \in [Spawns -> {"new", "acquiring", "running", "settled"}]
  BY DEF IInv, TypeOK
<1>3. j \in sem.admitted /\ pc[j] = "acquiring" /\ aborted' = aborted
  BY DEF Resumed
<1>4. /\ Counted(Resume(sem, j), Spawns, Waiting \ {j}, Running \cup {j}, 0)
      /\ Counted(Resume(sem, j), Spawns, Waiting \ {j}, Running, 1)
      /\ Pending(Resume(sem, j)) = Pending(sem)
  BY <1>2, <1>3, ResumeCounted
<1>5. CASE kind[j] = "detached" /\ j \in aborted
  <2> DEFINE u == Resize(Resume(sem, j), setting)
  <2>1. sem' = Release(u) /\ pc' = [pc EXCEPT ![j] = "settled"]
    BY <1>5 DEF Resumed, ReturnedUnused
  <2>2. Waiting' = Waiting \ {j} /\ Running' = Running
    BY <1>2, <1>3, <2>1 DEF Waiting, Running
  <2>3. Counted(u, Spawns, Waiting \ {j}, Running, 1) /\ Pending(u) \subseteq Pending(sem)
    BY <1>1, <1>4, ResizeCounted
  <2> HIDE DEF u
  <2>4. /\ Counted(Release(u), Spawns, Waiting \ {j}, Running, 0)
        /\ Pending(Release(u)) \subseteq Pending(u)
    BY <2>3, ReleaseCounted
  <2> QED
    BY <1>2, <1>3, <2>1, <2>2, <2>3, <2>4
<1>6. CASE ~(kind[j] = "detached" /\ j \in aborted)
  <2>1. sem' = Resume(sem, j) /\ pc' = [pc EXCEPT ![j] = "running"]
    BY <1>6 DEF Resumed
  <2>2. Waiting' = Waiting \ {j} /\ Running' = Running \cup {j}
    BY <1>2, <1>3, <2>1 DEF Waiting, Running
  <2> QED
    BY <1>2, <1>3, <1>4, <2>1, <2>2
<1> QED
  BY <1>5, <1>6

(* The end of a run. *)
LEMMA FinishKeepsCounted ==
    ASSUME IInv, NEW j \in Spawns, Finish(j)
    PROVE  /\ Counted(sem', Spawns, Waiting', Running', 0)
           /\ Pending(sem') \cap aborted' = {}
<1>1. setting \in Int
  BY SettingIsInt DEF IInv
<1>2. /\ Counted(sem, Spawns, Waiting, Running, 0)
      /\ Pending(sem) \cap aborted = {}
      /\ pc \in [Spawns -> {"new", "acquiring", "running", "settled"}]
  BY DEF IInv, TypeOK
<1>3. /\ pc[j] = "running" /\ pc' = [pc EXCEPT ![j] = "settled"]
      /\ sem' = Release(Resize(sem, setting)) /\ aborted' = aborted
  BY DEF Finish, Returned, Fetched
<1>4. Waiting' = Waiting /\ Running' = Running \ {j} /\ j \in Running
  BY <1>2, <1>3 DEF Waiting, Running
<1>5. Counted(sem, Spawns, Waiting, Running \ {j}, 1)
  BY <1>2, <1>4, LeaveCounted
<1> DEFINE u == Resize(sem, setting)
<1>6. Counted(u, Spawns, Waiting, Running \ {j}, 1) /\ Pending(u) \subseteq Pending(sem)
  BY <1>1, <1>5, ResizeCounted
<1> HIDE DEF u
<1>7. /\ Counted(Release(u), Spawns, Waiting, Running \ {j}, 0)
      /\ Pending(Release(u)) \subseteq Pending(u)
  BY <1>6, ReleaseCounted
<1> QED
  BY <1>2, <1>3, <1>4, <1>6, <1>7 DEF u

(* The signal of a spawn fires. *)
LEMMA AbortKeepsCounted ==
    ASSUME IInv, NEW j \in Spawns, Abort(j)
    PROVE  /\ Counted(sem', Spawns, Waiting', Running', 0)
           /\ Pending(sem') \cap aborted' = {}
<1>1. /\ Counted(sem, Spawns, Waiting, Running, 0)
      /\ Pending(sem) \cap aborted = {}
      /\ pc \in [Spawns -> {"new", "acquiring", "running", "settled"}]
  BY DEF IInv, TypeOK
<1>2. aborted' = aborted \cup {j}
  BY DEF Abort
<1>3. CASE j \in Pending(sem)
  <2>1. sem' = Abandon(sem, j) /\ pc' = [pc EXCEPT ![j] = "settled"]
    BY <1>3 DEF Abort
  <2>2. j \in Waiting
    BY <1>1, <1>3 DEF Counted
  <2>3. Waiting' = Waiting \ {j} /\ Running' = Running
    BY <1>1, <2>1, <2>2 DEF Waiting, Running
  <2>4. /\ Counted(Abandon(sem, j), Spawns, Waiting \ {j}, Running, 0)
        /\ Pending(Abandon(sem, j)) = Pending(sem) \ {j}
    BY <1>1, <1>3, AbandonCounted
  <2> QED
    BY <1>1, <1>2, <2>1, <2>3, <2>4
<1>4. CASE j \notin Pending(sem)
  <2>1. sem' = sem /\ pc' = pc
    BY <1>4 DEF Abort
  <2>2. Waiting' = Waiting /\ Running' = Running
    BY <2>1 DEF Waiting, Running
  <2> QED
    BY <1>1, <1>2, <1>4, <2>1, <2>2
<1> QED
  BY <1>3, <1>4

(* The inductive step, and that nobody is admitted above the ceiling. *)
LEMMA NextIInv == IInv /\ [Next]_vars => IInv' /\ Under(sem, sem')
<1> SUFFICES ASSUME IInv, [Next]_vars
             PROVE  IInv' /\ Under(sem, sem')
  OBVIOUS
<1>1. SemSound' /\ Under(sem, sem')
  BY StepKeepsSemSound DEF IInv, TypeOK, SemSound
<1>2. TypeOK'
  <2> USE <1>1 DEF IInv, TypeOK, SemSound
  <2>1. ASSUME NEW l \in Limits, Configure(l)
        PROVE  TypeOK'
    BY <2>1 DEF Configure
  <2>2. ASSUME NEW j \in Spawns, NEW k \in Kinds, Start(j, k)
        PROVE  TypeOK'
    BY <2>2 DEF Start
  <2>3. ASSUME NEW j \in Spawns, Resumed(j)
        PROVE  TypeOK'
    BY <2>3 DEF Resumed
  <2>4. ASSUME NEW j \in Spawns, Finish(j)
        PROVE  TypeOK'
    BY <2>4 DEF Finish
  <2>5. ASSUME NEW j \in Spawns, Abort(j)
        PROVE  TypeOK'
    BY <2>5 DEF Abort
  <2>6. CASE UNCHANGED vars
    BY <2>6 DEF vars
  <2> QED
    BY <2>1, <2>2, <2>3, <2>4, <2>5, <2>6 DEF Next
<1>3. (\A j \in Spawns : held[j] <=> pc[j] = "running")'
  <2> USE DEF IInv, TypeOK
  <2>1. ASSUME NEW j \in Spawns, NEW k \in Kinds, Start(j, k)
        PROVE  \A i \in Spawns : held'[i] <=> pc'[i] = "running"
    BY <2>1 DEF Start
  <2>2. ASSUME NEW j \in Spawns, Resumed(j)
        PROVE  \A i \in Spawns : held'[i] <=> pc'[i] = "running"
    BY <2>2 DEF Resumed
  <2>3. ASSUME NEW j \in Spawns, Finish(j)
        PROVE  \A i \in Spawns : held'[i] <=> pc'[i] = "running"
    BY <2>3 DEF Finish
  <2>4. ASSUME NEW j \in Spawns, Abort(j)
        PROVE  \A i \in Spawns : held'[i] <=> pc'[i] = "running"
    <3>1. CASE j \in Pending(sem)
      BY <2>4, <3>1 DEF Abort, Counted, Waiting
    <3>2. CASE j \notin Pending(sem)
      BY <2>4, <3>2 DEF Abort
    <3> QED
      BY <3>1, <3>2
  <2>5. CASE UNCHANGED <<held, pc>>
    BY <2>5
  <2> QED
    BY <2>1, <2>2, <2>3, <2>4, <2>5 DEF Next, vars, Configure
<1>4. Counted(sem', Spawns, Waiting', Running', 0) /\ Pending(sem') \cap aborted' = {}
  <2>1. CASE UNCHANGED <<sem, pc, aborted>>
    BY <2>1 DEF IInv, Waiting, Running
  <2> QED
    BY <2>1, StartKeepsCounted, ResumedKeepsCounted, FinishKeepsCounted, AbortKeepsCounted
       DEF Next, vars, Configure
<1> QED
  BY <1>1, <1>2, <1>3, <1>4 DEF IInv, SemSound

(* What the inductive invariant gives. *)
LEMMA IInvImplies ==
    IInv => TypeOK /\ PermitsAccounted /\ NoIdlePermit /\ NoAbandonedWaiter
<1> SUFFICES ASSUME IInv
             PROVE  TypeOK /\ PermitsAccounted /\ NoIdlePermit /\ NoAbandonedWaiter
  OBVIOUS
<1>1. Holders = sem.admitted \cup Running
  BY DEF Holders, Running, IInv
<1>2. PermitsAccounted
  <2>1. IsFiniteSet(Waiting) /\ IsFiniteSet(Running) /\ sem.admitted \subseteq Waiting
    BY DEF IInv, Counted
  <2>2. IsFiniteSet(sem.admitted)
    BY <2>1, FS_Subset
  <2>3. IsFiniteSet(sem.admitted \cup Running)
    BY <2>1, <2>2, FS_Union
  <2>4. Cardinality(sem.admitted \cup Running) \in Nat
    BY <2>3, FS_CardinalityType
  <2>5. sem.current = Cardinality(sem.admitted \cup Running) + 0
    BY DEF IInv, Counted
  <2>6. sem.current = Cardinality(sem.admitted \cup Running)
    BY <2>4, <2>5
  <2> QED
    BY <1>1, <2>6 DEF PermitsAccounted
<1>3. NoIdlePermit
  BY DEF IInv, Tight, NoIdlePermit
<1>4. NoAbandonedWaiter
  BY DEF IInv, Counted, Distinct, NoAbandonedWaiter, Waiting
<1> QED
  BY <1>2, <1>3, <1>4 DEF IInv

LEMMA SpecIInv == Spec => []IInv
<1>1. IInv /\ [Next]_vars => IInv'
  BY NextIInv
<1> QED
  BY InitIInv, <1>1, PTL DEF Spec

(* The variables keep their types: in particular the permit counter never  *)
(* goes below zero (parallel.ts:140-213).                                  *)
THEOREM SpawnSlotsType == Spec => []TypeOK
<1>1. IInv => TypeOK
  BY IInvImplies
<1> QED
  BY SpecIInv, <1>1, PTL

(* The permit counter always is the number of spawns that own a permit,    *)
(* whatever aborts and limit changes interleave (task/index.ts:635-647,    *)
(* 1116-1149, 1299-1319, 1381-1416).                                       *)
THEOREM PermitsAlwaysAccounted == Spec => []PermitsAccounted
<1>1. IInv => PermitsAccounted
  BY IInvImplies
<1> QED
  BY SpecIInv, <1>1, PTL

(* No spawn is ever left waiting beside a free permit (parallel.ts:184-213). *)
THEOREM NeverIdlePermit == Spec => []NoIdlePermit
<1>1. IInv => NoIdlePermit
  BY IInvImplies
<1> QED
  BY SpecIInv, <1>1, PTL

(* The queue always is exactly the spawns suspended in acquire(), each     *)
(* once and none of them aborted (parallel.ts:157-182).                    *)
THEOREM NeverAbandonedWaiter == Spec => []NoAbandonedWaiter
<1>1. IInv => NoAbandonedWaiter
  BY IInvImplies
<1> QED
  BY SpecIInv, <1>1, PTL

(* Nobody is admitted above the ceiling, even right after it was lowered   *)
(* (parallel.ts:184-213).                                                  *)
THEOREM AlwaysAdmittedUnderCeiling == Spec => AdmissionUnderCeiling
<1> DEFINE A == \A j \in Spawns :
                   j \in sem'.admitted \ sem.admitted
                      => sem'.max = 0 \/ sem'.current <= sem'.max
<1>1. IInv /\ [Next]_vars => [A]_vars
  BY NextIInv DEF Under
<1>2. [][A]_vars => AdmissionUnderCeiling
  BY PTL DEF AdmissionUnderCeiling
<1> QED
  BY SpecIInv, <1>1, <1>2, PTL DEF Spec
-----------------------------------------------------------------------------
Held == {j \in Spawns : held[j]}

LEMMA PoolCardinality == ASSUME NEW S PROVE Pool!Cardinality(S) = Cardinality(S)
  BY DEF Pool!Cardinality, Cardinality

(* A step that grants permits, seen from the pool. *)
LEMMA PoolAdmit ==
    ASSUME TypeOK', PermitsAccounted', NoIdlePermit',
           NEW w, NEW A, NEW R, Grants(sem', w, A), Held' = R
    PROVE  Pool!Admit(w, A \cup R)
<1>1. PICK n \in 0..Len(w) : GrantsFirst(sem', w, A, n)
  BY DEF Grants
<1>2. /\ sem'.max \in Nat /\ sem'.current \in Nat
      /\ sem'.current = Cardinality(Holders')
      /\ sem'.queue # <<>> => ~(sem'.max = 0 \/ sem'.current < sem'.max)
  BY DEF TypeOK, SemaphoresOf, PermitsAccounted, NoIdlePermit, HasRoom
<1>3. Holders' = sem'.admitted \cup R
  BY DEF Holders, Held
<1> DEFINE G == {w[i] : i \in 1..n}
<1>4. /\ sem'.queue = SubSeq(w, n + 1, Len(w))
      /\ sem'.admitted = A \cup G
      /\ n > 0 => sem'.max = 0 \/ sem'.current <= sem'.max
  BY <1>1 DEF GrantsFirst
<1>5. Holders' = (A \cup R) \cup G
  <2> HIDE DEF G
  <2> QED
    BY <1>3, <1>4
<1>6. sem'.queue # <<>> => sem'.max # 0 /\ Cardinality(Holders') >= sem'.max
  BY <1>2
<1>7. n > 0 => sem'.max = 0 \/ Cardinality(Holders') <= sem'.max
  BY <1>2, <1>4
<1>9. /\ sem'.queue = SubSeq(w, n + 1, Len(w))
      /\ Holders' = (A \cup R) \cup {w[i] : i \in 1..n}
      /\ sem'.queue # <<>> => sem'.max # 0 /\ Cardinality(Holders') >= sem'.max
      /\ n > 0 => sem'.max = 0 \/ Cardinality(Holders') <= sem'.max
  BY <1>4, <1>5, <1>6, <1>7
<1> QED
  BY <1>9, PoolCardinality, Zenon DEF Pool!Admit, Pool!Full

(* Every step of a spawn is one step of the pool, or none. *)
LEMMA StepOfPool ==
    ASSUME IInv, TypeOK', PermitsAccounted', NoIdlePermit', [Next]_vars
    PROVE  [Pool!Next]_(Pool!vars)
<1>1. setting \in Int
  BY SettingIsInt DEF IInv
<1>2. /\ sem \in SemaphoresOf(Spawns) /\ Tight(sem) /\ sem'.max \in Nat
      /\ sem.admitted \subseteq Waiting /\ Pending(sem) = Waiting \ sem.admitted
      /\ sem.queue \in Seq(Spawns) /\ held \in [Spawns -> BOOLEAN]
      /\ \A j \in Spawns : held[j] <=> pc[j] = "running"
  BY DEF IInv, Counted, TypeOK, SemaphoresOf
<1>3. Holders = sem.admitted \cup Held
  BY DEF Holders, Held
<1>4. Grants(sem, sem.queue, sem.admitted)
  BY <1>2, SelfGrants
<1>5. /\ Fetched \in SemaphoresOf(Spawns) /\ Tight(Fetched)
      /\ Grants(Fetched, sem.queue, sem.admitted)
  BY <1>1, <1>2, ResizeFacts, ResizeGrants DEF Fetched
<1>6. ASSUME NEW j \in Spawns, NEW k \in Kinds, Start(j, k)
      PROVE  Pool!Next
  <2>1. PICK s \in {Fetched} \cup (IF k = "fanout" THEN {sem} ELSE {}) :
           sem' = IF j \in aborted THEN s ELSE Acquire(s, j)
    BY <1>6 DEF Start
  <2>2. /\ s \in SemaphoresOf(Spawns) /\ Tight(s) /\ Grants(s, sem.queue, sem.admitted)
        /\ Held' = Held
    BY <1>2, <1>4, <1>5, <1>6, <2>1 DEF Start, Held
  <2>3. CASE j \in aborted
    <3>1. Pool!Admit(sem.queue, Holders)
      BY <1>3, <2>1, <2>2, <2>3, PoolAdmit
    <3> QED
      BY <1>2, <3>1 DEF Pool!Next, Pool!Resize
  <2>4. CASE j \notin aborted
    <3>1. Grants(Acquire(s, j), Append(sem.queue, j), sem.admitted)
      BY <1>2, <2>2, AcquireGrants
    <3>2. Pool!Admit(Append(sem.queue, j), Holders)
      BY <1>3, <2>1, <2>2, <2>4, <3>1, PoolAdmit
    <3>3. j \notin Waiting /\ j \notin Holders
      BY <1>2, <1>3, <1>6 DEF Start, Waiting, Held
    <3>4. \A i \in 1..Len(sem.queue) : sem.queue[i] # j
      BY <1>2, <3>3 DEF Pending
    <3> QED
      BY <1>2, <3>2, <3>3, <3>4 DEF Pool!Next, Pool!Acquire
  <2> QED
    BY <2>3, <2>4
<1>7. ASSUME NEW j \in Spawns, Resumed(j)
      PROVE  [Pool!Next]_(Pool!vars)
  <2> DEFINE r == Resume(sem, j)
             u == Resize(r, setting)
  <2>1. /\ r \in SemaphoresOf(Spawns) /\ Tight(r) /\ r.queue = sem.queue
        /\ r.max = sem.max /\ r.admitted = sem.admitted \ {j}
    BY <1>2, ResumeFacts DEF Resume, SemaphoresOf
  <2>2. pc[j] = "acquiring" /\ j \in sem.admitted /\ j \notin Held
    BY <1>2, <1>7 DEF Resumed, Held
  <2> HIDE DEF r
  <2>3. CASE sem' = Release(u) /\ UNCHANGED held
    <3>1. u \in SemaphoresOf(Spawns) /\ Tight(u) /\ Grants(u, sem.queue, sem.admitted \ {j})
      BY <1>1, <2>1, ResizeFacts, ResizeGrants
    <3> HIDE DEF u
    <3>2. Grants(sem', sem.queue, sem.admitted \ {j})
      BY <1>2, <2>3, <3>1, ReleaseGrants
    <3>3. Held' = Held
      BY <2>3 DEF Held
    <3>4. Holders \ {j} = (sem.admitted \ {j}) \cup Held
      BY <1>3, <2>2
    <3>5. Pool!Admit(sem.queue, Holders \ {j})
      BY <3>2, <3>3, <3>4, PoolAdmit
    <3>6. j \in Holders
      BY <1>3, <2>2
    <3> QED
      BY <1>2, <3>5, <3>6 DEF Pool!Next, Pool!Release
  <2>4. CASE sem' = r /\ held' = [held EXCEPT ![j] = TRUE]
    <3>1. Held' = Held \cup {j}
      BY <1>2, <2>4 DEF Held
    <3>2. Holders' = sem'.admitted \cup Held'
      BY DEF Holders, Held
    <3>3. Holders' = Holders
      BY <1>3, <2>1, <2>2, <2>4, <3>1, <3>2
    <3> QED
      BY <2>1, <2>4, <3>3 DEF Pool!vars
  <2> QED
    BY <1>7, <2>3, <2>4 DEF Resumed, ReturnedUnused, r
<1>8. ASSUME NEW j \in Spawns, Finish(j)
      PROVE  Pool!Next
  <2>1. Grants(sem', sem.queue, sem.admitted)
    BY <1>2, <1>5, <1>8, ReleaseGrants DEF Finish, Returned
  <2>2. j \in Held /\ Held' = Held \ {j} /\ j \notin sem.admitted
    BY <1>2, <1>8 DEF Finish, Held, Waiting
  <2>3. Holders \ {j} = sem.admitted \cup (Held \ {j}) /\ j \in Holders
    BY <1>3, <2>2
  <2>4. Pool!Admit(sem.queue, Holders \ {j})
    BY <2>1, <2>2, <2>3, PoolAdmit
  <2> QED
    BY <1>2, <2>3, <2>4 DEF Pool!Next, Pool!Release
<1>9. ASSUME NEW j \in Spawns, Abort(j)
      PROVE  [Pool!Next]_(Pool!vars)
  <2>1. CASE j \in Pending(sem)
    <3> DEFINE i == CHOOSE a \in 1..Len(sem.queue) : sem.queue[a] = j
               q == SubSeq(sem.queue, 1, i - 1) \o SubSeq(sem.queue, i + 1, Len(sem.queue))
    <3>1. i \in 1..Len(sem.queue)
      BY <2>1 DEF Pending
    <3>2. sem' = [sem EXCEPT !.queue = q]
      BY <1>9, <2>1 DEF Abort, Abandon
    <3> HIDE DEF i
    <3>3. sem'.queue = q /\ sem'.max = sem.max /\ sem'.admitted = sem.admitted
      <4> HIDE DEF q
      <4> QED
        BY <1>2, <3>2 DEF SemaphoresOf
    <3>4. Holders' = Holders
      BY <1>9, <3>3 DEF Abort, Holders
    <3>5. Pool!Abandon(i)
      BY <3>3, <3>4 DEF Pool!Abandon
    <3> QED
      BY <1>2, <3>1, <3>5 DEF Pool!Next
  <2>2. CASE j \notin Pending(sem)
    BY <1>9, <2>2 DEF Abort, Pool!vars, Holders
  <2> QED
    BY <2>1, <2>2
<1>10. ASSUME NEW l \in Limits, Configure(l)
       PROVE  UNCHANGED Pool!vars
  BY <1>10 DEF Configure, Pool!vars, Holders
<1>11. CASE UNCHANGED vars
  BY <1>11 DEF vars, Pool!vars, Holders
<1> QED
  BY <1>6, <1>7, <1>8, <1>9, <1>10, <1>11 DEF Next

(* The spawn semaphore implements the abstract pool of permits, whatever   *)
(* limits are set and signals fire (task/parallel.ts:140-213).             *)
THEOREM SpawnSlotsImplementsPool == Spec => ImplementsPermitPool
<1>1. Init => Pool!Init
  <2> SUFFICES ASSUME Init
               PROVE  Pool!Init
    OBVIOUS
  <2>1. setting \in Int
    BY SpawnSlotsAssumption DEF Init
  <2>2. sem.max \in Nat /\ sem.queue = <<>> /\ sem.admitted = {}
    BY <2>1, NormalizeIsNat DEF Init, NewSemaphore
  <2>3. Holders = {}
    BY <2>2 DEF Init, Holders
  <2> QED
    BY <2>2, <2>3 DEF Pool!Init
<1> DEFINE I == IInv /\ TypeOK /\ PermitsAccounted /\ NoIdlePermit
<1>2. IInv => I
  BY IInvImplies
<1>3. I /\ I' /\ [Next]_vars => [Pool!Next]_(Pool!vars)
  BY StepOfPool
<1> QED
  BY SpecIInv, <1>1, <1>2, <1>3, PTL DEF Spec, ImplementsPermitPool, Pool!Spec
=============================================================================
