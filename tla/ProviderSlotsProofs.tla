------------------------ MODULE ProviderSlotsProofs ------------------------
(***************************************************************************)
(* Theorems about the provider limiter, for every finite tree of agents,   *)
(* every set of integer limits and any number of requests.                 *)
(***************************************************************************)
EXTENDS ProviderSlots, SemaphoreProofs

Acquiring == {a \in Agents : pc[a] = "acquiring"}

(***************************************************************************)
(* The inductive invariant.  Slots are counted against the agents' program *)
(* counters: the agreement of the queue with them makes every release()    *)
(* the return of a slot that is really out.  The entry's limit is the      *)
(* ceiling of its semaphore, so comparing limits is enough to resize.      *)
(***************************************************************************)
IInv ==
    /\ TypeOK
    /\ limit = sem.max
    /\ Tight(sem)
    /\ Counted(sem, Agents, Acquiring, Streaming, 0)

LEMMA InitIInv == Init => IInv
<1> SUFFICES ASSUME Init
             PROVE  IInv
  OBVIOUS
<1>1. limit \in Nat /\ NormalizeConcurrencyLimit(limit) = limit
  BY ProviderSlotsAssumption DEF Init, NormalizeConcurrencyLimit
<1>2. sem \in SemaphoresOf(Agents) /\ Tight(sem)
  BY <1>1, NewSemaphoreType DEF Init
<1>3. /\ sem.queue = <<>> /\ sem.admitted = {} /\ sem.current = 0 /\ sem.max = limit
  BY <1>1 DEF Init, NewSemaphore
<1>4. TypeOK
  BY <1>1, <1>2, ProviderSlotsAssumption DEF Init, TypeOK
<1>5. Acquiring = {} /\ Streaming = {}
  BY DEF Init, Acquiring, Streaming
<1>6. Pending(sem) = {} /\ Distinct(sem.queue)
  BY <1>3 DEF Pending, Distinct
<1>7. sem.current = Cardinality(sem.admitted \cup Streaming) + 0
  BY <1>3, <1>5, FS_EmptySet
<1>8. Counted(sem, Agents, Acquiring, Streaming, 0)
  BY <1>2, <1>3, <1>5, <1>6, <1>7, FS_EmptySet DEF Counted
<1> QED
  BY <1>2, <1>3, <1>4, <1>8 DEF IInv

(* getProviderSemaphore() brings the ceiling in force and loses no slot.   *)
LEMMA LimitedFacts ==
    ASSUME IInv, NEW l \in Limits
    PROVE  /\ NormalizeConcurrencyLimit(l) \in Nat
           /\ Limited(l) \in SemaphoresOf(Agents)
           /\ Limited(l).max = NormalizeConcurrencyLimit(l)
           /\ Tight(Limited(l))
           /\ Under(sem, Limited(l))
           /\ Counted(Limited(l), Agents, Acquiring, Streaming, 0)
           /\ Grants(Limited(l), sem.queue, sem.admitted)
<1>1. l \in Int /\ NormalizeConcurrencyLimit(l) \in Nat
  BY ProviderSlotsAssumption, NormalizeIsNat
<1>2. /\ sem \in SemaphoresOf(Agents) /\ Tight(sem) /\ limit = sem.max
      /\ Counted(sem, Agents, Acquiring, Streaming, 0)
  BY DEF IInv, TypeOK
<1>3. CASE NormalizeConcurrencyLimit(l) # limit
  <2>1. Limited(l) = Resize(sem, l)
    BY <1>3 DEF Limited
  <2>2. Resize(sem, l).max = NormalizeConcurrencyLimit(l)
    BY <1>1, <1>2 DEF Resize, AdmitFirst, SemaphoresOf
  <2> QED
    BY <1>1, <1>2, <2>1, <2>2, ResizeFacts, ResizeCounted, ResizeGrants
<1>4. CASE NormalizeConcurrencyLimit(l) = limit
  <2>1. Limited(l) = sem
    BY <1>4 DEF Limited
  <2>2. Under(sem, sem)
    BY DEF Under
  <2> QED
    BY <1>1, <1>2, <1>4, <2>1, <2>2, SelfGrants
<1> QED
  BY <1>3, <1>4

(* A request, by the two ways its acquire() may go. *)
LEMMA RequestSteps ==
    ASSUME IInv, NEW a \in Agents, NEW l \in Limits, Request(a, l)
    PROVE  IInv' /\ Under(sem, sem')
<1>1. /\ limit' = NormalizeConcurrencyLimit(l) /\ pc[a] = "ready" /\ aborted' = aborted
      /\ turns' = [turns EXCEPT ![a] = @ + 1] /\ turns[a] < MaxTurns
      /\ MaxTurns \in Nat
  BY ProviderSlotsAssumption DEF Request
<1>2. turns' \in [Agents -> 0..MaxTurns]
  BY <1>1 DEF IInv, TypeOK
<1>3. /\ limit' \in Nat /\ Limited(l) \in SemaphoresOf(Agents) /\ Limited(l).max = limit'
      /\ Tight(Limited(l)) /\ Under(sem, Limited(l))
      /\ Counted(Limited(l), Agents, Acquiring, Streaming, 0)
  BY <1>1, LimitedFacts
<1>4. pc \in [Agents -> {"new", "ready", "acquiring", "streaming", "tools", "done"}]
  BY DEF IInv, TypeOK
<1>5. a \notin Acquiring /\ a \notin Streaming
  BY <1>1 DEF Acquiring, Streaming
<1>6. CASE a \in aborted
  <2>1. sem' = Limited(l) /\ pc' = [pc EXCEPT ![a] = "done"]
    BY <1>6 DEF Request
  <2>2. Acquiring' = Acquiring /\ Streaming' = Streaming
    BY <1>1, <1>4, <2>1 DEF Acquiring, Streaming
  <2> QED
    BY <1>1, <1>2, <1>3, <1>4, <2>1, <2>2 DEF IInv, TypeOK
<1>7. CASE a \notin aborted
  <2> DEFINE s == Limited(l)
  <2>1. sem' = Acquire(s, a) /\ pc' = [pc EXCEPT ![a] = "acquiring"]
    BY <1>7 DEF Request
  <2>2. Acquiring' = Acquiring \cup {a} /\ Streaming' = Streaming
    BY <1>1, <1>4, <2>1 DEF Acquiring, Streaming
  <2> HIDE DEF s
  <2>3. /\ Acquire(s, a) \in SemaphoresOf(Agents) /\ Tight(Acquire(s, a))
        /\ Under(sem, Acquire(s, a))
    BY <1>3, AcquireFacts DEF s
  <2>4. Counted(Acquire(s, a), Agents, Acquiring \cup {a}, Streaming, 0)
    BY <1>3, <1>5, AcquireCounted DEF s
  <2>5. Acquire(s, a).max = limit'
    BY <1>3 DEF Acquire, SemaphoresOf, s
  <2> QED
    BY <1>1, <1>2, <1>3, <1>4, <2>1, <2>2, <2>3, <2>4, <2>5 DEF IInv, TypeOK
<1> QED
  BY <1>6, <1>7

(* An admitted request goes out, and its slot changes from the semaphore's *)
(* hands into the agent's.                                                 *)
LEMMA AdmittedSteps ==
    ASSUME IInv, NEW a \in Agents, Admitted(a)
    PROVE  IInv' /\ Under(sem, sem')
<1>1. /\ pc[a] = "acquiring" /\ a \in sem.admitted /\ sem' = Resume(sem, a)
      /\ pc' = [pc EXCEPT ![a] = "streaming"] /\ UNCHANGED <<limit, turns, aborted>>
  BY DEF Admitted
<1>2. /\ sem \in SemaphoresOf(Agents) /\ Tight(sem) /\ limit = sem.max
      /\ Counted(sem, Agents, Acquiring, Streaming, 0)
      /\ pc \in [Agents -> {"new", "ready", "acquiring", "streaming", "tools", "done"}]
  BY DEF IInv, TypeOK
<1>3. Acquiring' = Acquiring \ {a} /\ Streaming' = Streaming \cup {a}
  BY <1>1, <1>2 DEF Acquiring, Streaming
<1>4. Counted(sem', Agents, Acquiring', Streaming', 0)
  BY <1>1, <1>2, <1>3, ResumeCounted
<1>5. sem' \in SemaphoresOf(Agents) /\ Tight(sem') /\ sem'.admitted \subseteq sem.admitted
  BY <1>1, <1>2, ResumeFacts
<1>6. sem'.max = limit'
  BY <1>1, <1>2 DEF Resume, SemaphoresOf
<1> QED
  BY <1>1, <1>2, <1>4, <1>5, <1>6 DEF IInv, TypeOK, Under

(* The end of a stream returns its slot. *)
LEMMA StreamEndsSteps ==
    ASSUME IInv, NEW a \in Agents, NEW next \in {"tools", "ready", "done"},
           StreamEnds(a, next)
    PROVE  IInv' /\ Under(sem, sem')
<1>1. /\ pc[a] = "streaming" /\ sem' = Release(sem)
      /\ pc' = [pc EXCEPT ![a] = next] /\ UNCHANGED <<limit, turns, aborted>>
  BY DEF StreamEnds, AfterStream
<1>2. /\ sem \in SemaphoresOf(Agents) /\ Tight(sem) /\ limit = sem.max
      /\ Counted(sem, Agents, Acquiring, Streaming, 0)
      /\ pc \in [Agents -> {"new", "ready", "acquiring", "streaming", "tools", "done"}]
  BY DEF IInv, TypeOK
<1>3. a \in Streaming /\ Acquiring' = Acquiring /\ Streaming' = Streaming \ {a}
  BY <1>1, <1>2 DEF Acquiring, Streaming
<1>4. Counted(sem, Agents, Acquiring, Streaming \ {a}, 1)
  BY <1>2, <1>3, LeaveCounted
<1>5. Counted(sem', Agents, Acquiring', Streaming', 0)
  BY <1>1, <1>3, <1>4, ReleaseCounted
<1>6. /\ sem' \in SemaphoresOf(Agents) /\ Tight(sem') /\ Under(sem, sem')
      /\ sem'.max = sem.max
  BY <1>1, <1>2, ReleaseFacts
<1> QED
  BY <1>1, <1>2, <1>5, <1>6 DEF IInv, TypeOK

(* The signal of an agent fires. *)
LEMMA AbortSteps ==
    ASSUME IInv, NEW a \in Agents, Abort(a)
    PROVE  IInv' /\ Under(sem, sem')
<1>1. aborted' = aborted \cup {a} /\ UNCHANGED <<limit, turns>>
  BY DEF Abort
<1>2. /\ sem \in SemaphoresOf(Agents) /\ Tight(sem) /\ limit = sem.max
      /\ Counted(sem, Agents, Acquiring, Streaming, 0)
      /\ pc \in [Agents -> {"new", "ready", "acquiring", "streaming", "tools", "done"}]
  BY DEF IInv, TypeOK
<1>3. CASE a \in Pending(sem)
  <2>1. sem' = Abandon(sem, a) /\ pc' = [pc EXCEPT ![a] = "done"]
    BY <1>3 DEF Abort
  <2>2. a \in Acquiring
    BY <1>2, <1>3 DEF Counted
  <2>3. Acquiring' = Acquiring \ {a} /\ Streaming' = Streaming
    BY <1>2, <2>1, <2>2 DEF Acquiring, Streaming
  <2>4. Counted(sem', Agents, Acquiring', Streaming', 0)
    BY <1>2, <1>3, <2>1, <2>3, AbandonCounted
  <2>5. sem' \in SemaphoresOf(Agents) /\ Tight(sem') /\ Under(sem, sem')
    BY <1>2, <1>3, <2>1, AbandonFacts
  <2>6. sem'.max = limit'
    BY <1>1, <1>2, <2>1 DEF Abandon, SemaphoresOf
  <2> QED
    BY <1>1, <1>2, <2>1, <2>4, <2>5, <2>6 DEF IInv, TypeOK
<1>4. CASE a \notin Pending(sem)
  <2>1. sem' = sem /\ pc' = pc
    BY <1>4 DEF Abort
  <2>2. Acquiring' = Acquiring /\ Streaming' = Streaming
    BY <2>1 DEF Acquiring, Streaming
  <2> QED
    BY <1>1, <2>1, <2>2 DEF IInv, TypeOK, Under
<1> QED
  BY <1>3, <1>4

(* Tool calls start and return beside the semaphore. *)
LEMMA OtherSteps ==
    ASSUME IInv, NEW a \in Agents, Spawn(a) \/ ToolsReturn(a)
    PROVE  IInv' /\ Under(sem, sem')
<1>1. /\ UNCHANGED <<sem, limit, turns, aborted>>
      /\ pc[a] \in {"new", "tools"} /\ pc' = [pc EXCEPT ![a] = "ready"]
  BY DEF Spawn, ToolsReturn
<1>2. pc \in [Agents -> {"new", "ready", "acquiring", "streaming", "tools", "done"}]
  BY DEF IInv, TypeOK
<1>3. Acquiring' = Acquiring /\ Streaming' = Streaming
  BY <1>1, <1>2 DEF Acquiring, Streaming
<1> QED
  BY <1>1, <1>2, <1>3 DEF IInv, TypeOK, Under

LEMMA NextIInv == IInv /\ [Next]_vars => IInv' /\ Under(sem, sem')
<1> SUFFICES ASSUME IInv, [Next]_vars
             PROVE  IInv' /\ Under(sem, sem')
  OBVIOUS
<1>1. CASE UNCHANGED vars
  BY <1>1 DEF vars, IInv, TypeOK, Acquiring, Streaming, Under
<1> QED
  BY <1>1, RequestSteps, AdmittedSteps, StreamEndsSteps, AbortSteps, OtherSteps
     DEF Next, AgentStep, Finished

(* What the inductive invariant gives. *)
LEMMA IInvImplies == IInv => TypeOK /\ SlotsMatchRequests
<1> SUFFICES ASSUME IInv
             PROVE  SlotsMatchRequests
  BY DEF IInv
<1> DEFINE A == sem.admitted
<1>1. /\ IsFiniteSet(Acquiring) /\ IsFiniteSet(Streaming) /\ A \subseteq Acquiring
      /\ Acquiring \cap Streaming = {} /\ sem.current = Cardinality(A \cup Streaming) + 0
  BY DEF IInv, Counted
<1> HIDE DEF A
<1>2. IsFiniteSet(A) /\ A \cap Streaming = {}
  BY <1>1, FS_Subset
<1>3. Cardinality(A) \in Nat /\ Cardinality(Streaming) \in Nat /\ Cardinality({}) = 0
  BY <1>1, <1>2, FS_CardinalityType, FS_EmptySet
<1>4. Cardinality(A \cup Streaming)
        = Cardinality(A) + Cardinality(Streaming) - Cardinality(A \cap Streaming)
  BY <1>1, <1>2, FS_Union
<1>5. sem.current = Cardinality(A) + Cardinality(Streaming)
  <2>1. Cardinality(A \cap Streaming) = 0
    BY <1>2, <1>3
  <2>2. Cardinality(A \cup Streaming) = Cardinality(A) + Cardinality(Streaming)
    BY <1>3, <1>4, <2>1
  <2> QED
    BY <1>1, <1>3, <2>2
<1> QED
  BY <1>5 DEF SlotsMatchRequests, A

LEMMA SpecIInv == Spec => []IInv
<1>1. IInv /\ [Next]_vars => IInv'
  BY NextIInv
<1> QED
  BY InitIInv, <1>1, PTL DEF Spec

(* The variables keep their types: in particular the slot counter never    *)
(* goes below zero (task/provider-concurrency.ts, parallel.ts:140-213).    *)
THEOREM ProviderSlotsType == Spec => []TypeOK
<1>1. IInv => TypeOK
  BY IInvImplies
<1> QED
  BY SpecIInv, <1>1, PTL

(* A slot is in use exactly for the requests in flight, whatever aborts,   *)
(* failures and limits come in between (provider-concurrency.ts:76-109).   *)
THEOREM SlotsAlwaysMatchRequests == Spec => []SlotsMatchRequests
<1>1. IInv => SlotsMatchRequests
  BY IInvImplies
<1> QED
  BY SpecIInv, <1>1, PTL

(* No request is let through beyond the limit in force, however sessions   *)
(* with different limits alternate (parallel.ts:196-213).                  *)
THEOREM RequestsAlwaysUnderLimit == Spec => RequestsUnderLimit
<1> DEFINE A == sem'.admitted \ sem.admitted # {} /\ limit' > 0
                  => Cardinality(Streaming') + Cardinality(sem'.admitted) <= limit'
           I == IInv /\ SlotsMatchRequests
<1>1. I /\ I' /\ [Next]_vars => [A]_vars
  <2> SUFFICES ASSUME IInv, IInv', SlotsMatchRequests', [Next]_vars,
                      sem'.admitted \ sem.admitted # {}, limit' > 0
               PROVE  Cardinality(Streaming') + Cardinality(sem'.admitted) <= limit'
    OBVIOUS
  <2>1. limit' = sem'.max /\ IsFiniteSet(Streaming') /\ IsFiniteSet(Acquiring')
        /\ sem'.admitted \subseteq Acquiring'
    BY DEF IInv, Counted
  <2>2. Cardinality(Streaming') \in Nat /\ Cardinality(sem'.admitted) \in Nat
    BY <2>1, FS_Subset, FS_CardinalityType
  <2>3. sem'.current = Cardinality(sem'.admitted) + Cardinality(Streaming')
    BY DEF SlotsMatchRequests
  <2>4. sem'.max = 0 \/ sem'.current <= sem'.max
    BY NextIInv DEF Under
  <2> QED
    BY <2>1, <2>2, <2>3, <2>4
<1>2. IInv => I
  BY IInvImplies
<1>3. [][A]_vars => RequestsUnderLimit
  BY PTL DEF RequestsUnderLimit
<1> QED
  BY SpecIInv, <1>1, <1>2, <1>3, PTL DEF Spec
-----------------------------------------------------------------------------
LEMMA PoolCardinality == ASSUME NEW S PROVE Pool!Cardinality(S) = Cardinality(S)
  BY DEF Pool!Cardinality, Cardinality

(* A step that grants slots, seen from the pool. *)
LEMMA PoolAdmit ==
    ASSUME IInv', NEW w, NEW A, NEW R, Grants(sem', w, A), Streaming' = R
    PROVE  Pool!Admit(w, A \cup R)
<1> DEFINE O == sem'.admitted \cup Streaming'
<1>1. PICK n \in 0..Len(w) : GrantsFirst(sem', w, A, n)
  BY DEF Grants
<1>2. /\ limit' = sem'.max /\ limit' \in Nat /\ sem'.current \in Nat
      /\ sem'.current = Cardinality(O) + 0
      /\ sem'.queue # <<>> => ~(sem'.max = 0 \/ sem'.current < sem'.max)
      /\ IsFiniteSet(Acquiring') /\ IsFiniteSet(Streaming')
      /\ sem'.admitted \subseteq Acquiring'
  BY DEF IInv, TypeOK, SemaphoresOf, Counted, Tight, HasRoom
<1>3. sem'.current = Cardinality(O)
  <2>1. IsFiniteSet(O)
    BY <1>2, FS_Subset, FS_Union
  <2>2. Cardinality(O) \in Nat
    BY <2>1, FS_CardinalityType
  <2> QED
    BY <1>2, <2>2
<1> DEFINE G == {w[i] : i \in 1..n}
<1>4. /\ sem'.queue = SubSeq(w, n + 1, Len(w))
      /\ sem'.admitted = A \cup G
      /\ n > 0 => sem'.max = 0 \/ sem'.current <= sem'.max
  BY <1>1 DEF GrantsFirst
<1>5. O = (A \cup R) \cup G
  <2> HIDE DEF G
  <2> QED
    BY <1>4
<1> HIDE DEF O
<1>6. /\ sem'.queue = SubSeq(w, n + 1, Len(w))
      /\ O = (A \cup R) \cup {w[i] : i \in 1..n}
      /\ sem'.queue # <<>> => limit' # 0 /\ Cardinality(O) >= limit'
      /\ n > 0 => limit' = 0 \/ Cardinality(O) <= limit'
  BY <1>2, <1>3, <1>4, <1>5
<1> QED
  BY <1>6, PoolCardinality, Zenon DEF Pool!Admit, Pool!Full, O

(* Every step of an agent is one step of the pool, or none. *)
LEMMA StepOfPool ==
    ASSUME IInv, IInv', [Next]_vars
    PROVE  [Pool!Next]_(Pool!vars)
<1>1. /\ sem \in SemaphoresOf(Agents) /\ Tight(sem) /\ limit = sem.max /\ limit' \in Nat
      /\ sem.admitted \subseteq Acquiring /\ Pending(sem) = Acquiring \ sem.admitted
      /\ sem.queue \in Seq(Agents)
      /\ pc \in [Agents -> {"new", "ready", "acquiring", "streaming", "tools", "done"}]
  BY DEF IInv, Counted, TypeOK, SemaphoresOf
<1>2. ASSUME NEW a \in Agents, NEW l \in Limits, Request(a, l)
      PROVE  Pool!Next
  <2>1. /\ Limited(l) \in SemaphoresOf(Agents) /\ Tight(Limited(l))
        /\ Grants(Limited(l), sem.queue, sem.admitted)
    BY LimitedFacts
  <2>2. Streaming' = Streaming /\ pc[a] = "ready"
    BY <1>1, <1>2 DEF Request, Streaming
  <2>3. CASE a \in aborted
    <3>1. sem' = Limited(l)
      BY <1>2, <2>3 DEF Request
    <3>2. Pool!Admit(sem.queue, sem.admitted \cup Streaming)
      BY <2>1, <2>2, <3>1, PoolAdmit
    <3> QED
      BY <1>1, <3>2 DEF Pool!Next, Pool!Resize
  <2>4. CASE a \notin aborted
    <3>1. sem' = Acquire(Limited(l), a)
      BY <1>2, <2>4 DEF Request
    <3>2. Grants(Acquire(Limited(l), a), Append(sem.queue, a), sem.admitted)
      BY <1>1, <2>1, AcquireGrants
    <3>3. Pool!Admit(Append(sem.queue, a), sem.admitted \cup Streaming)
      BY <2>2, <3>1, <3>2, PoolAdmit
    <3>4. a \notin Acquiring /\ a \notin sem.admitted \cup Streaming
      BY <1>1, <2>2 DEF Acquiring, Streaming
    <3>5. \A i \in 1..Len(sem.queue) : sem.queue[i] # a
      BY <1>1, <3>4 DEF Pending
    <3> QED
      BY <1>1, <3>3, <3>4, <3>5 DEF Pool!Next, Pool!Acquire
  <2> QED
    BY <2>3, <2>4
<1>3. ASSUME NEW a \in Agents, Admitted(a)
      PROVE  UNCHANGED Pool!vars
  <2>1. /\ a \in sem.admitted /\ sem' = Resume(sem, a) /\ limit' = limit
        /\ pc' = [pc EXCEPT ![a] = "streaming"]
    BY <1>3 DEF Admitted
  <2>2. sem'.queue = sem.queue /\ sem'.admitted = sem.admitted \ {a}
    BY <1>1, <2>1 DEF Resume, SemaphoresOf
  <2>3. Streaming' = Streaming \cup {a}
    BY <1>1, <2>1 DEF Streaming
  <2>4. sem'.admitted \cup Streaming' = sem.admitted \cup Streaming
    BY <2>1, <2>2, <2>3
  <2> QED
    BY <2>1, <2>2, <2>4 DEF Pool!vars
<1>4. ASSUME NEW a \in Agents, NEW next \in {"tools", "ready", "done"}, StreamEnds(a, next)
      PROVE  Pool!Next
  <2>1. pc[a] = "streaming" /\ sem' = Release(sem) /\ pc' = [pc EXCEPT ![a] = next]
    BY <1>4 DEF StreamEnds, AfterStream
  <2>2. a \in Streaming /\ Streaming' = Streaming \ {a} /\ a \notin sem.admitted
    BY <1>1, <2>1 DEF Streaming, Acquiring
  <2>3. Grants(sem', sem.queue, sem.admitted)
    BY <1>1, <2>1, SelfGrants, ReleaseGrants
  <2>4. /\ sem.admitted \cup (Streaming \ {a}) = (sem.admitted \cup Streaming) \ {a}
        /\ a \in sem.admitted \cup Streaming
    BY <2>2
  <2>5. Pool!Admit(sem.queue, (sem.admitted \cup Streaming) \ {a})
    BY <2>2, <2>3, <2>4, PoolAdmit
  <2> QED
    BY <1>1, <2>4, <2>5 DEF Pool!Next, Pool!Release
<1>5. ASSUME NEW a \in Agents, Abort(a)
      PROVE  [Pool!Next]_(Pool!vars)
  <2>1. CASE a \in Pending(sem)
    <3> DEFINE i == CHOOSE b \in 1..Len(sem.queue) : sem.queue[b] = a
               q == SubSeq(sem.queue, 1, i - 1) \o SubSeq(sem.queue, i + 1, Len(sem.queue))
    <3>1. i \in 1..Len(sem.queue)
      BY <2>1 DEF Pending
    <3>2. /\ sem' = [sem EXCEPT !.queue = q] /\ limit' = limit
          /\ pc' = [pc EXCEPT ![a] = "done"] /\ pc[a] = "acquiring"
      BY <1>1, <1>5, <2>1 DEF Abort, Abandon, Acquiring
    <3> HIDE DEF i
    <3>3. sem'.queue = q /\ sem'.admitted = sem.admitted
      <4> HIDE DEF q
      <4> QED
        BY <1>1, <3>2 DEF SemaphoresOf
    <3>4. Streaming' = Streaming
      BY <1>1, <3>2 DEF Streaming
    <3>5. Pool!Abandon(i)
      BY <3>2, <3>3, <3>4 DEF Pool!Abandon
    <3> QED
      BY <1>1, <3>1, <3>5 DEF Pool!Next
  <2>2. CASE a \notin Pending(sem)
    BY <1>5, <2>2 DEF Abort, Pool!vars, Streaming
  <2> QED
    BY <2>1, <2>2
<1>6. ASSUME NEW a \in Agents, Spawn(a) \/ ToolsReturn(a)
      PROVE  UNCHANGED Pool!vars
  <2>1. /\ UNCHANGED <<sem, limit>>
        /\ pc[a] \in {"new", "tools"} /\ pc' = [pc EXCEPT ![a] = "ready"]
    BY <1>6 DEF Spawn, ToolsReturn
  <2>2. Streaming' = Streaming
    BY <1>1, <2>1 DEF Streaming
  <2> QED
    BY <2>1, <2>2 DEF Pool!vars
<1>7. CASE UNCHANGED vars
  BY <1>7 DEF vars, Pool!vars, Streaming
<1> QED
  BY <1>2, <1>3, <1>4, <1>5, <1>6, <1>7 DEF Next, AgentStep, Finished

(* The provider limiter implements the abstract pool of permits, whatever  *)
(* the tree, the limits and the aborts (task/provider-concurrency.ts).     *)
THEOREM ProviderSlotsImplementsPool == Spec => ImplementsPermitPool
<1>1. Init => Pool!Init
  <2> SUFFICES ASSUME Init
               PROVE  Pool!Init
    OBVIOUS
  <2>1. limit \in Nat
    BY ProviderSlotsAssumption DEF Init, NormalizeConcurrencyLimit
  <2>2. sem.queue = <<>> /\ sem.admitted = {}
    BY DEF Init, NewSemaphore
  <2>3. sem.admitted \cup Streaming = {}
    BY <2>2 DEF Init, Streaming
  <2> QED
    BY <2>1, <2>2, <2>3 DEF Pool!Init
<1>2. IInv /\ IInv' /\ [Next]_vars => [Pool!Next]_(Pool!vars)
  BY StepOfPool
<1> QED
  BY SpecIInv, <1>1, <1>2, PTL DEF Spec, ImplementsPermitPool, Pool!Spec
=============================================================================
