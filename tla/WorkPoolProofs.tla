--------------------------- MODULE WorkPoolProofs ---------------------------
(***************************************************************************)
(* Theorems about a workpool, for any number of items, all the limits the  *)
(* user may set and move, and every room for jobs.                         *)
(***************************************************************************)
EXTENDS WorkPool, FiniteSetTheorems, TLAPS

(* What the proofs need of the types. *)
Shape ==
    /\ agent \in [Workers -> {"none", "running", "idle"}]
    /\ turn \in [Workers -> Turns]
    /\ queue = [w \in Workers |-> queue[w]]
    /\ fresh \in BOOLEAN

LEMMA InitShape == Init => Shape
  BY DEF Init, Shape, Turns

LEMMA NextShape == Shape /\ [Next]_vars => Shape'
<1> SUFFICES ASSUME Shape, [Next]_vars
             PROVE  Shape'
  OBVIOUS
<1> USE DEF Shape, Turns, StartBatch, TurnOver
<1>1. fresh' = fresh
  BY DEF Next, Push, Close, TurnEnds, WorkerSettles, FreshWorkerDone, WorkerIdles,
     WorkerContinues, WorkerDies, Chain, Skip, QueueFresh, Reserve, DispatchToIdle,
     DispatchToBusy, SpawnSettles, Spawn, SpawnTooLate, SpawnFails, Aggregate, SetLimit,
     setting, Over, vars
<1>2. ASSUME NEW w \in Workers, NEW o \in Terminal, TurnEnds(w, o)
      PROVE  Shape'
  BY <1>1, <1>2 DEF TurnEnds
<1>3. ASSUME NEW w \in Workers, WorkerSettles(w)
      PROVE  Shape'
  BY <1>1, <1>3 DEF WorkerSettles, FreshWorkerDone, WorkerIdles, WorkerContinues, WorkerDies
<1>4. ASSUME NEW w \in Workers, DispatchToIdle(w) \/ DispatchToBusy(w)
      PROVE  Shape'
  BY <1>1, <1>4 DEF DispatchToIdle, DispatchToBusy
<1>5. ASSUME NEW i \in Items, NEW w \in Workers, Spawn(i, w)
      PROVE  Shape'
  BY <1>1, <1>5 DEF Spawn
<1>6. CASE Close
  BY <1>1, <1>6 DEF Close
<1>7. CASE UNCHANGED <<agent, turn, queue>>
  BY <1>1, <1>7
<1> QED
  BY <1>2, <1>3, <1>4, <1>5, <1>6, <1>7
  DEF Next, Push, Chain, Skip, QueueFresh, Reserve, SpawnSettles, SpawnTooLate, SpawnFails,
      Aggregate, SetLimit, setting, Over, vars

-----------------------------------------------------------------------------
(***************************************************************************)
(* A busy worker has a turn, or its batch was refused.  In a pool that     *)
(* starts an agent per item no worker has a queue, which is why such a     *)
(* worker may leave unlooked at.                                           *)
(***************************************************************************)
BusyOrRefused ==
    \A w \in Workers :
        /\ agent[w] = "running" <=> turn[w] # "off"
        /\ queue[w] # <<>> => agent[w] = "running"

FreshHasNoQueue == fresh => \A w \in Workers : queue[w] = <<>>

TurnInv == Shape /\ BusyOrRefused /\ FreshHasNoQueue

LEMMA InitTurnInv == Init => TurnInv
<1> SUFFICES ASSUME Init
             PROVE  TurnInv
  OBVIOUS
<1>1. Shape
  BY InitShape
<1> QED
  BY <1>1 DEF Init, TurnInv, BusyOrRefused, FreshHasNoQueue

LEMMA NextTurnInv == TurnInv /\ [Next]_vars => TurnInv'
<1> SUFFICES ASSUME TurnInv, [Next]_vars
             PROVE  BusyOrRefused' /\ FreshHasNoQueue'
  BY NextShape DEF TurnInv
<1> USE DEF TurnInv, Shape, BusyOrRefused, FreshHasNoQueue, Turns, StartBatch, TurnOver
<1>1. ASSUME NEW w \in Workers, NEW o \in Terminal, TurnEnds(w, o)
      PROVE  BusyOrRefused' /\ FreshHasNoQueue'
  BY <1>1 DEF TurnEnds
<1>2. ASSUME NEW w \in Workers, FreshWorkerDone(w)
      PROVE  BusyOrRefused' /\ FreshHasNoQueue'
  BY <1>2 DEF FreshWorkerDone
<1>3. ASSUME NEW w \in Workers, WorkerIdles(w) \/ WorkerDies(w)
      PROVE  BusyOrRefused' /\ FreshHasNoQueue'
  BY <1>3 DEF WorkerIdles, WorkerDies
<1>4. ASSUME NEW w \in Workers, WorkerContinues(w)
      PROVE  BusyOrRefused' /\ FreshHasNoQueue'
  BY <1>4 DEF WorkerContinues
<1>5. ASSUME NEW w \in Workers, DispatchToIdle(w)
      PROVE  BusyOrRefused' /\ FreshHasNoQueue'
  BY <1>5 DEF DispatchToIdle
<1>6. ASSUME NEW w \in Workers, DispatchToBusy(w)
      PROVE  BusyOrRefused' /\ FreshHasNoQueue'
  BY <1>6 DEF DispatchToBusy
<1>7. ASSUME NEW i \in Items, NEW w \in Workers, Spawn(i, w)
      PROVE  BusyOrRefused' /\ FreshHasNoQueue'
  BY <1>7 DEF Spawn
<1>8. CASE Close
  BY <1>8 DEF Close
<1>9. CASE UNCHANGED <<agent, turn, queue, fresh>>
  BY <1>9
<1> QED
  BY <1>1, <1>2, <1>3, <1>4, <1>5, <1>6, <1>7, <1>8, <1>9
  DEF Next, WorkerSettles, Push, Chain, Skip, QueueFresh, Reserve, SpawnSettles, SpawnTooLate,
      SpawnFails, Aggregate, SetLimit, setting, Over, vars

-----------------------------------------------------------------------------
(***************************************************************************)
(* The limit.  The look at it and the new worker are apart by an await:    *)
(* the chain holds the one reservation that is under way, and the room it  *)
(* was made for stays free, wherever the setting is moved meanwhile.       *)
(***************************************************************************)
RoomIsKept ==
    /\ spawning # {} => \E p \in spawning : spawning = {p}
    /\ limit \in Limits /\ seen \in Limits
    /\ spawning # {} => seen = 0 \/ Cardinality(Agents) < seen
    /\ 0 \in Limits \/ \E l \in Limits : Cardinality(Agents) <= l

LimitInv == TurnInv /\ RoomIsKept

LEMMA AgentsFinite ==
    /\ IsFiniteSet(Workers)
    /\ IsFiniteSet(Agents)
    /\ Cardinality(Agents) \in Nat
<1>1. IsFiniteSet(Workers)
  BY WorkPoolAssumption, FS_Interval DEF Workers
<1>2. IsFiniteSet(Agents)
  BY <1>1, FS_Subset DEF Agents
<1> QED
  BY <1>1, <1>2, FS_CardinalityType

LEMMA InitLimitInv == Init => LimitInv
<1> SUFFICES ASSUME Init
             PROVE  LimitInv
  OBVIOUS
<1>1. TurnInv
  BY InitTurnInv
<1>2. Agents = {}
  BY DEF Init, Agents
<1>3. Cardinality(Agents) = 0
  BY <1>2, FS_EmptySet
<1> QED
  BY <1>1, <1>3, WorkPoolAssumption DEF Init, LimitInv, RoomIsKept

(* Workers that go leave room. *)
LEMMA FewerAgents ==
    ASSUME LimitInv, Agents' \subseteq Agents, spawning' = spawning, seen' = seen,
           limit' \in Limits
    PROVE  RoomIsKept'
<1>1. Cardinality(Agents') <= Cardinality(Agents) /\ Cardinality(Agents') \in Nat
  BY AgentsFinite, FS_Subset, FS_CardinalityType
<1>2. Limits \subseteq Nat
  BY WorkPoolAssumption
<1> QED
  BY <1>1, <1>2, AgentsFinite DEF LimitInv, RoomIsKept

LEMMA NextLimitInv == LimitInv /\ [Next]_vars => LimitInv'
<1> SUFFICES ASSUME LimitInv, [Next]_vars
             PROVE  RoomIsKept'
  BY NextTurnInv DEF LimitInv
<1> USE DEF LimitInv, TurnInv, Shape, StartBatch, TurnOver
<1>0. Limits \subseteq Nat /\ limit \in Limits /\ seen \in Limits
  BY WorkPoolAssumption DEF RoomIsKept
<1>1. ASSUME NEW w \in Workers, WorkerSettles(w)
      PROVE  RoomIsKept'
  <2>1. agent[w] = "running"
    BY <1>1 DEF WorkerSettles, FreshWorkerDone, WorkerIdles, WorkerContinues, WorkerDies,
       BusyOrRefused
  <2>2. /\ \A v \in Workers : v # w => agent'[v] = agent[v]
        /\ spawning' = spawning /\ limit' = limit /\ seen' = seen
    BY <1>1 DEF WorkerSettles, FreshWorkerDone, WorkerIdles, WorkerContinues, WorkerDies, setting
  <2>3. Agents' \subseteq Agents
    BY <2>1, <2>2 DEF Agents
  <2> QED
    BY <1>0, <2>2, <2>3, FewerAgents
<1>2. ASSUME NEW w \in Workers, DispatchToIdle(w)
      PROVE  RoomIsKept'
  <2>1. Agents' \subseteq Agents /\ spawning' = spawning /\ limit' = limit /\ seen' = seen
    BY <1>2 DEF DispatchToIdle, IdleWorkers, Agents, setting
  <2> QED
    BY <1>0, <2>1, FewerAgents
<1>3. CASE Reserve
  <2>1. /\ spawning = {} /\ agent' = agent /\ seen' = limit /\ limit' = limit
        /\ spawning' = {<<Head(chain), nextIndex>>}
    BY <1>3 DEF Reserve, ChainFree
  <2>2. limit # 0 => Cardinality(Agents) < limit
    <3>1. CASE HasRoom
      BY <3>1 DEF HasRoom
    <3>2. CASE ~HasRoom
      <4>1. Agents = {}
        BY <1>3, <3>2 DEF Reserve, NoneIdle, NoneBusy, IdleWorkers, Agents
      <4>2. Cardinality(Agents) = 0
        BY <4>1, FS_EmptySet
      <4> QED
        BY <1>0, <4>2
    <3> QED
      BY <3>1, <3>2
  <2>3. Agents' = Agents
    BY <2>1 DEF Agents
  <2> QED
    BY <2>1, <2>2, <2>3 DEF RoomIsKept
<1>4. ASSUME NEW i \in Items, NEW w \in Workers, Spawn(i, w)
      PROVE  RoomIsKept'
  <2>1. /\ <<i, w>> \in spawning /\ spawning' = spawning \ {<<i, w>>}
        /\ limit' = limit /\ seen' = seen
    BY <1>4 DEF Spawn, setting
  <2>2. spawning' = {}
    BY <2>1 DEF RoomIsKept
  <2>3. Agents' = Agents \cup {w}
    BY <1>4 DEF Spawn, Agents
  <2>4. Cardinality(Agents') <= Cardinality(Agents) + 1 /\ Cardinality(Agents') \in Nat
    <3>1. CASE w \in Agents
      BY <2>3, <3>1, AgentsFinite
    <3>2. CASE w \notin Agents
      <4>1. Cardinality(Agents \cup {w}) = Cardinality(Agents) + 1
        BY <3>2, AgentsFinite, FS_AddElement
      <4> QED
        BY <2>3, <4>1, AgentsFinite
    <3> QED
      BY <3>1, <3>2
  <2>5. seen = 0 \/ Cardinality(Agents) < seen
    BY <2>1 DEF RoomIsKept
  <2>6. 0 \in Limits \/ Cardinality(Agents') <= seen
    BY <1>0, <2>4, <2>5, AgentsFinite
  <2> QED
    BY <1>0, <2>1, <2>2, <2>6 DEF RoomIsKept
<1>5. ASSUME NEW i \in Items, NEW w \in Workers, SpawnTooLate(i, w) \/ SpawnFails(i, w)
      PROVE  RoomIsKept'
  <2>1. /\ <<i, w>> \in spawning /\ spawning' = spawning \ {<<i, w>>}
        /\ agent' = agent /\ limit' = limit /\ seen' = seen
    BY <1>5 DEF SpawnTooLate, SpawnFails, setting
  <2>2. spawning' = {} /\ Agents' = Agents
    BY <2>1 DEF RoomIsKept, Agents
  <2> QED
    BY <2>1, <2>2 DEF RoomIsKept
<1>6. CASE UNCHANGED <<agent, spawning, seen>> /\ limit' \in Limits
  BY <1>6, FewerAgents DEF Agents
<1> QED
  BY <1>0, <1>1, <1>2, <1>3, <1>4, <1>5, <1>6
  DEF Next, Push, Close, TurnEnds, Chain, Skip, QueueFresh, DispatchToBusy, SpawnSettles,
      Aggregate, SetLimit, setting, Over, vars

(* A worker is added within the limit its dispatch has read. *)
THEOREM GrowthIsKept == Spec => GrowsWithinLimit
<1> DEFINE A == Cardinality(Agents') > Cardinality(Agents)
                    => seen = 0 \/ Cardinality(Agents') <= seen
<1>1. LimitInv /\ [Next]_vars => [A]_vars
  <2> SUFFICES ASSUME LimitInv, Next
               PROVE  A
    BY DEF vars
  <2> USE DEF LimitInv, TurnInv, Shape, StartBatch, TurnOver
  <2>0. Limits \subseteq Nat /\ seen \in Limits
    BY WorkPoolAssumption DEF RoomIsKept
  <2>1. ASSUME NEW i \in Items, NEW w \in Workers, Spawn(i, w)
        PROVE  A
    <3>1. Agents' = Agents \cup {w} /\ (seen = 0 \/ Cardinality(Agents) < seen)
      BY <2>1 DEF Spawn, Agents, RoomIsKept
    <3>2. w \in Agents \/ Cardinality(Agents \cup {w}) = Cardinality(Agents) + 1
      BY AgentsFinite, FS_AddElement
    <3>3. w \in Agents => Agents' = Agents
      BY <3>1
    <3> QED
      BY <2>0, <3>1, <3>2, <3>3, AgentsFinite
  <2>2. CASE Agents' \subseteq Agents
    <3>1. Cardinality(Agents') <= Cardinality(Agents) /\ Cardinality(Agents') \in Nat
      BY <2>2, AgentsFinite, FS_Subset, FS_CardinalityType
    <3> QED
      BY <3>1, AgentsFinite
  <2>3. ASSUME NEW w \in Workers, WorkerSettles(w)
        PROVE  Agents' \subseteq Agents
    <3>1. agent[w] = "running"
      BY <2>3 DEF WorkerSettles, FreshWorkerDone, WorkerIdles, WorkerContinues, WorkerDies,
         BusyOrRefused
    <3>2. \A v \in Workers : v # w => agent'[v] = agent[v]
      BY <2>3 DEF WorkerSettles, FreshWorkerDone, WorkerIdles, WorkerContinues, WorkerDies
    <3> QED
      BY <3>1, <3>2 DEF Agents
  <2>4. ASSUME NEW w \in Workers, DispatchToIdle(w)
        PROVE  Agents' \subseteq Agents
    BY <2>4 DEF DispatchToIdle, IdleWorkers, Agents
  <2>5. CASE UNCHANGED agent
    BY <2>2, <2>5 DEF Agents
  <2> QED
    BY <2>1, <2>2, <2>3, <2>4, <2>5
    DEF Next, Push, Close, TurnEnds, Chain, Skip, QueueFresh, Reserve, DispatchToBusy,
        SpawnSettles, SpawnTooLate, SpawnFails, Aggregate, SetLimit, Over, vars
<1> QED
  BY <1>1, InitLimitInv, NextLimitInv, PTL DEF Spec, GrowsWithinLimit

-----------------------------------------------------------------------------
(***************************************************************************)
(* Where the manager has room for more jobs than the pool may have         *)
(* workers, no batch is refused: each job is that of a worker.             *)
(***************************************************************************)
NoneRefused == EnoughRoom => \A w \in Workers : turn[w] # "jobless"

RefusalInv == LimitInv /\ NoneRefused

LEMMA RoomForJobs ==
    ASSUME LimitInv, EnoughRoom
    PROVE  Cardinality(ActiveJobs) < JobRoom
<1>1. ActiveJobs \subseteq Agents
  BY DEF LimitInv, TurnInv, BusyOrRefused, ActiveJobs, Agents
<1>2. Cardinality(ActiveJobs) <= Cardinality(Agents) /\ Cardinality(ActiveJobs) \in Nat
  BY <1>1, AgentsFinite, FS_Subset, FS_CardinalityType
<1>3. PICK l \in Limits : Cardinality(Agents) <= l
  BY DEF LimitInv, RoomIsKept, EnoughRoom
<1>4. l \in Nat /\ JobRoom \in Nat /\ l < JobRoom
  BY WorkPoolAssumption DEF EnoughRoom
<1> QED
  BY <1>2, <1>3, <1>4, AgentsFinite

LEMMA InitRefusalInv == Init => RefusalInv
<1> SUFFICES ASSUME Init
             PROVE  RefusalInv
  OBVIOUS
<1>1. LimitInv
  BY InitLimitInv
<1> QED
  BY <1>1 DEF Init, RefusalInv, NoneRefused

LEMMA NextRefusalInv == RefusalInv /\ [Next]_vars => RefusalInv'
<1> SUFFICES ASSUME RefusalInv, [Next]_vars, EnoughRoom, NEW v \in Workers
             PROVE  turn'[v] # "jobless"
  BY NextLimitInv DEF RefusalInv, NoneRefused
<1>1. turn \in [Workers -> Turns] /\ turn[v] # "jobless"
  BY DEF RefusalInv, LimitInv, TurnInv, Shape, NoneRefused
<1>2. ASSUME NEW w \in Workers, NEW its, StartBatch(w, its, Cardinality(ActiveJobs))
      PROVE  turn'[v] # "jobless"
  BY <1>1, <1>2, RoomForJobs DEF RefusalInv, StartBatch
<1>3. ASSUME NEW w \in Workers, NEW o \in Terminal, TurnEnds(w, o)
      PROVE  turn'[v] # "jobless"
  BY <1>1, <1>3 DEF TurnEnds
<1>4. ASSUME NEW w \in Workers, TurnOver(w)
      PROVE  turn'[v] # "jobless"
  BY <1>1, <1>4 DEF TurnOver
<1>5. CASE UNCHANGED turn
  BY <1>1, <1>5
<1> QED
  BY <1>2, <1>3, <1>4, <1>5
  DEF Next, Push, Close, WorkerSettles, FreshWorkerDone, WorkerIdles, WorkerContinues,
      WorkerDies, Chain, Skip, QueueFresh, Reserve, DispatchToIdle, DispatchToBusy,
      SpawnSettles, Spawn, SpawnTooLate, SpawnFails, Aggregate, SetLimit, Over, vars

(* What is handed to a busy worker is never left with one that rests, nor  *)
(* with one whose batch was refused.                                       *)
THEOREM BusyWorkersHaveTurns == Spec => [](EnoughRoom => BusyHasTurn)
<1>1. RefusalInv => (EnoughRoom => BusyHasTurn)
  BY DEF RefusalInv, NoneRefused, LimitInv, TurnInv, Shape, Turns, BusyOrRefused, BusyHasTurn
<1> QED
  BY <1>1, InitRefusalInv, NextRefusalInv, PTL DEF Spec

-----------------------------------------------------------------------------
(***************************************************************************)
(* Indices are not used twice: a worker that is reserved is a new one.     *)
(***************************************************************************)
IndexIsNew ==
    /\ nextIndex \in Nat \ {0}
    /\ \A p \in spawning :
        /\ p[2] \in Nat /\ p[2] < nextIndex
        /\ p[2] \in Workers => agent[p[2]] = "none"
    /\ \A w \in Workers : w >= nextIndex => agent[w] = "none"

IndexInv == LimitInv /\ IndexIsNew

LEMMA InitIndexInv == Init => IndexInv
<1> SUFFICES ASSUME Init
             PROVE  IndexInv
  OBVIOUS
<1>1. LimitInv
  BY InitLimitInv
<1> QED
  BY <1>1 DEF Init, IndexInv, IndexIsNew

LEMMA NextIndexInv == IndexInv /\ [Next]_vars => IndexInv'
<1> SUFFICES ASSUME IndexInv, [Next]_vars
             PROVE  IndexIsNew'
  BY NextLimitInv DEF IndexInv
<1> USE DEF IndexInv, LimitInv, TurnInv, Shape
<1>0. Workers \subseteq Nat
  BY DEF Workers
<1>1. ASSUME NEW w \in Workers, WorkerSettles(w)
      PROVE  IndexIsNew'
  <2>1. agent[w] = "running"
    BY <1>1 DEF WorkerSettles, FreshWorkerDone, WorkerIdles, WorkerContinues, WorkerDies,
       BusyOrRefused
  <2>2. /\ \A v \in Workers : v # w => agent'[v] = agent[v]
        /\ spawning' = spawning /\ nextIndex' = nextIndex
    BY <1>1 DEF WorkerSettles, FreshWorkerDone, WorkerIdles, WorkerContinues, WorkerDies
  <2> QED
    BY <2>1, <2>2 DEF IndexIsNew
<1>2. ASSUME NEW w \in Workers, DispatchToIdle(w)
      PROVE  IndexIsNew'
  BY <1>2 DEF DispatchToIdle, IdleWorkers, Agents, IndexIsNew
<1>3. CASE Reserve
  <2>1. /\ spawning' = {<<Head(chain), nextIndex>>}
        /\ nextIndex' = nextIndex + 1 /\ agent' = agent
    BY <1>3 DEF Reserve, ChainFree
  <2>2. \A w \in Workers : w >= nextIndex + 1 => w >= nextIndex
    BY <1>0 DEF IndexIsNew
  <2>3. nextIndex \in Workers => agent[nextIndex] = "none"
    BY <1>0 DEF IndexIsNew
  <2> QED
    BY <2>1, <2>2, <2>3 DEF IndexIsNew
<1>4. ASSUME NEW i \in Items, NEW w \in Workers, Spawn(i, w)
      PROVE  IndexIsNew'
  <2>1. /\ <<i, w>> \in spawning /\ spawning' = spawning \ {<<i, w>>}
        /\ nextIndex' = nextIndex
        /\ agent' = [agent EXCEPT ![w] = "running"]
    BY <1>4 DEF Spawn
  <2>2. spawning' = {} /\ w < nextIndex
    BY <2>1 DEF RoomIsKept, IndexIsNew
  <2> QED
    BY <1>0, <2>1, <2>2 DEF IndexIsNew
<1>5. ASSUME NEW i \in Items, NEW w \in Workers, SpawnTooLate(i, w) \/ SpawnFails(i, w)
      PROVE  IndexIsNew'
  BY <1>5 DEF SpawnTooLate, SpawnFails, IndexIsNew
<1>6. CASE UNCHANGED <<agent, spawning, nextIndex>>
  BY <1>6 DEF IndexIsNew
<1> QED
  BY <1>1, <1>2, <1>3, <1>4, <1>5, <1>6
  DEF Next, Push, Close, TurnEnds, Chain, Skip, QueueFresh, DispatchToBusy, SpawnSettles,
      Aggregate, SetLimit, setting, Over, vars

-----------------------------------------------------------------------------
(***************************************************************************)
(* Lines of items: what appending, taking the head and joining do to the   *)
(* set of items of a line without repetitions.                             *)
(***************************************************************************)
LEMMA RangeOfSeq ==
    ASSUME NEW S, NEW s \in Seq(S)
    PROVE  /\ Range(s) \subseteq S
           /\ s = <<>> <=> Range(s) = {}
  BY DEF Range

LEMMA EmptyLine == Range(<<>>) = {} /\ IsInjective(<<>>)
  BY DEF Range, IsInjective

LEMMA AppendToLine ==
    ASSUME NEW S, NEW s \in Seq(S), NEW x \in S
    PROVE  /\ Append(s, x) \in Seq(S)
           /\ Range(Append(s, x)) = Range(s) \cup {x}
           /\ IsInjective(s) /\ x \notin Range(s) => IsInjective(Append(s, x))
<1> DEFINE t == Append(s, x)
<1>1. /\ t \in Seq(S)
      /\ DOMAIN t = 1..(Len(s) + 1) /\ DOMAIN s = 1..Len(s) /\ Len(s) \in Nat
      /\ \A n \in 1..Len(s) : t[n] = s[n]
      /\ t[Len(s) + 1] = x
  OBVIOUS
<1>2. Range(t) = Range(s) \cup {x}
  <2>1. \A n \in 1..(Len(s) + 1) : n \in 1..Len(s) \/ n = Len(s) + 1
    BY <1>1
  <2>2. Len(s) + 1 \in 1..(Len(s) + 1) /\ 1..Len(s) \subseteq 1..(Len(s) + 1)
    BY <1>1
  <2> HIDE DEF t
  <2> QED
    BY <1>1, <2>1, <2>2 DEF Range
<1>3. IsInjective(s) /\ x \notin Range(s) => IsInjective(t)
  <2> HIDE DEF t
  <2> QED
    BY <1>1 DEF Range, IsInjective
<1> QED
  BY <1>1, <1>2, <1>3

LEMMA HeadOfLine ==
    ASSUME NEW S, NEW s \in Seq(S), s # <<>>
    PROVE  /\ Head(s) \in Range(s)
           /\ Tail(s) \in Seq(S)
           /\ IsInjective(s) =>
                 IsInjective(Tail(s)) /\ Range(Tail(s)) = Range(s) \ {Head(s)}
<1> DEFINE t == Tail(s)
<1>1. /\ t \in Seq(S)
      /\ Len(s) \in Nat \ {0}
      /\ DOMAIN t = 1..(Len(s) - 1) /\ DOMAIN s = 1..Len(s)
      /\ \A n \in 1..(Len(s) - 1) : t[n] = s[n + 1]
      /\ Head(s) = s[1]
  OBVIOUS
<1> HIDE DEF t
<1>2. Head(s) \in Range(s)
  BY <1>1 DEF Range
<1>3. ASSUME IsInjective(s)
      PROVE  IsInjective(t) /\ Range(t) = Range(s) \ {Head(s)}
  <2>1. IsInjective(t)
    BY <1>1, <1>3 DEF IsInjective
  <2>2. \A y \in Range(t) : y \in Range(s) \ {Head(s)}
    <3> SUFFICES ASSUME NEW n \in 1..(Len(s) - 1)
                 PROVE  t[n] \in Range(s) \ {Head(s)}
      BY <1>1 DEF Range
    <3>1. n + 1 \in 1..Len(s) /\ 1 \in 1..Len(s) /\ n + 1 # 1
      BY <1>1
    <3>2. t[n] = s[n + 1] /\ s[n + 1] # s[1]
      BY <1>1, <1>3, <3>1 DEF IsInjective
    <3> QED
      BY <1>1, <3>1, <3>2 DEF Range
  <2>3. \A y \in Range(s) \ {Head(s)} : y \in Range(t)
    <3> SUFFICES ASSUME NEW n \in 1..Len(s), s[n] # Head(s)
                 PROVE  s[n] \in Range(t)
      BY <1>1 DEF Range
    <3>1. n - 1 \in 1..(Len(s) - 1) /\ (n - 1) + 1 = n
      BY <1>1
    <3>2. t[n - 1] = s[n]
      BY <1>1, <3>1
    <3> QED
      BY <1>1, <3>1, <3>2 DEF Range
  <2> QED
    BY <2>1, <2>2, <2>3
<1> QED
  BY <1>1, <1>2, <1>3 DEF t

LEMMA JoinLines ==
    ASSUME NEW S, NEW s \in Seq(S), NEW u \in Seq(S)
    PROVE  /\ s \o u \in Seq(S)
           /\ Range(s \o u) = Range(s) \cup Range(u)
           /\ IsInjective(s) /\ IsInjective(u) /\ Range(s) \cap Range(u) = {}
                => IsInjective(s \o u)
<1> DEFINE t == s \o u
<1>1. /\ t \in Seq(S)
      /\ Len(s) \in Nat /\ Len(u) \in Nat
      /\ DOMAIN t = 1..(Len(s) + Len(u)) /\ DOMAIN s = 1..Len(s) /\ DOMAIN u = 1..Len(u)
      /\ \A n \in 1..Len(s) : t[n] = s[n]
      /\ \A n \in 1..(Len(s) + Len(u)) : n > Len(s) => t[n] = u[n - Len(s)]
  OBVIOUS
<1> HIDE DEF t
<1>2. Range(t) = Range(s) \cup Range(u)
  <2>1. \A y \in Range(t) : y \in Range(s) \cup Range(u)
    <3> SUFFICES ASSUME NEW n \in 1..(Len(s) + Len(u))
                 PROVE  t[n] \in Range(s) \cup Range(u)
      BY <1>1 DEF Range
    <3>1. CASE n <= Len(s)
      BY <1>1, <3>1 DEF Range
    <3>2. CASE n > Len(s)
      <4>1. n - Len(s) \in 1..Len(u)
        BY <1>1, <3>2
      <4> QED
        BY <1>1, <3>2, <4>1 DEF Range
    <3> QED
      BY <1>1, <3>1, <3>2
  <2>2. Range(s) \subseteq Range(t)
    <3>1. 1..Len(s) \subseteq 1..(Len(s) + Len(u))
      BY <1>1
    <3> QED
      BY <1>1, <3>1 DEF Range
  <2>3. Range(u) \subseteq Range(t)
    <3> SUFFICES ASSUME NEW n \in 1..Len(u)
                 PROVE  u[n] \in Range(t)
      BY <1>1 DEF Range
    <3>1. n + Len(s) \in 1..(Len(s) + Len(u)) /\ n + Len(s) > Len(s) /\ (n + Len(s)) - Len(s) = n
      BY <1>1
    <3>2. t[n + Len(s)] = u[n]
      BY <1>1, <3>1
    <3> QED
      BY <1>1, <3>1, <3>2 DEF Range
  <2> QED
    BY <2>1, <2>2, <2>3
<1>3. ASSUME IsInjective(s), IsInjective(u), Range(s) \cap Range(u) = {}
      PROVE  IsInjective(t)
  <2> SUFFICES ASSUME NEW a \in 1..(Len(s) + Len(u)), NEW b \in 1..(Len(s) + Len(u)),
                      t[a] = t[b]
               PROVE  a = b
    BY <1>1 DEF IsInjective
  <2>1. \A n \in 1..(Len(s) + Len(u)) :
           \/ n \in 1..Len(s) /\ t[n] = s[n] /\ t[n] \in Range(s)
           \/ n > Len(s) /\ n - Len(s) \in 1..Len(u) /\ t[n] = u[n - Len(s)]
              /\ t[n] \in Range(u)
    <3> SUFFICES ASSUME NEW n \in 1..(Len(s) + Len(u))
                 PROVE  \/ n \in 1..Len(s) /\ t[n] = s[n] /\ t[n] \in Range(s)
                        \/ n > Len(s) /\ n - Len(s) \in 1..Len(u) /\ t[n] = u[n - Len(s)]
                           /\ t[n] \in Range(u)
      OBVIOUS
    <3>1. n \in 1..Len(s) \/ (n > Len(s) /\ n - Len(s) \in 1..Len(u))
      BY <1>1
    <3> QED
      BY <1>1, <3>1 DEF Range
  <2>2. CASE a \in 1..Len(s) /\ b \in 1..Len(s)
    BY <1>1, <1>3, <2>2 DEF IsInjective
  <2>3. CASE a > Len(s) /\ b > Len(s)
    <3>1. a - Len(s) = b - Len(s)
      BY <1>1, <1>3, <2>1, <2>3 DEF IsInjective
    <3> QED
      BY <1>1, <3>1
  <2>4. \/ a \in 1..Len(s) /\ b \in 1..Len(s)
        \/ a > Len(s) /\ b > Len(s)
        \/ t[a] \in Range(s) /\ t[b] \in Range(u)
        \/ t[a] \in Range(u) /\ t[b] \in Range(s)
    BY <2>1
  <2> QED
    BY <1>3, <2>2, <2>3, <2>4
<1> QED
  BY <1>1, <1>2, <1>3 DEF t

-----------------------------------------------------------------------------
(***************************************************************************)
(* Where items wait.  No line holds an item twice, no two lines hold the   *)
(* same, and the item whose worker is being reserved is in none of them.   *)
(* A pool has either a fresh queue or queues of its workers.               *)
(***************************************************************************)
InLine(i) ==
    \/ i \in Range(chain)
    \/ i \in Range(freshQueue)
    \/ \E w \in Workers : i \in Range(queue[w])

Reserved(i) == \E p \in spawning : p[1] = i

Types ==
    /\ item \in [Items -> Statuses]
    /\ chain \in Seq(Items)
    /\ freshQueue \in Seq(Items)
    /\ queue \in [Workers -> Seq(Items)]
    /\ \A p \in spawning : p[1] \in Items
    /\ batch \in [Workers -> SUBSET Items]

LinesApart ==
    /\ IsInjective(chain)
    /\ IsInjective(freshQueue)
    /\ \A w \in Workers : IsInjective(queue[w])
    /\ ~fresh => freshQueue = <<>>
    /\ \A i \in Range(chain) :
        /\ i \notin Range(freshQueue)
        /\ \A w \in Workers : i \notin Range(queue[w])
    /\ \A v, w \in Workers : \A i \in Items :
        i \in Range(queue[v]) /\ i \in Range(queue[w]) => v = w
    /\ \A i \in Items : Reserved(i) => ~InLine(i)

(* What waits may have been cancelled, except in the queues that close()   *)
(* empties; and while the pool is open whatever is queued is somewhere.    *)
LinesHold ==
    /\ \A i \in Items : InLine(i) \/ Reserved(i) => item[i] \in {"queued", "cancelled"}
    /\ \A i \in Range(freshQueue) : item[i] = "queued"
    /\ \A w \in Workers : \A i \in Range(queue[w]) : item[i] = "queued"

NoneIsLost ==
    \A i \in Items : item[i] = "queued" /\ ~closed => InLine(i) \/ Reserved(i)

(* The items of a batch run until the turn is over, and then are settled. *)
BatchesRun ==
    /\ \A w \in Workers :
        /\ turn[w] = "off" => batch[w] = {}
        /\ turn[w] \in {"on", "jobless"} => \A i \in batch[w] : item[i] = "running"
        /\ turn[w] = "settling" => \A i \in batch[w] : item[i] \in Terminal
    /\ \A v, w \in Workers : \A i \in Items : i \in batch[v] /\ i \in batch[w] => v = w
    /\ \A i \in Items : item[i] = "running" => \E w \in Workers : i \in batch[w]

WaitInv == IndexInv /\ Types /\ LinesApart /\ LinesHold /\ NoneIsLost /\ BatchesRun

LEMMA InitWaitInv == Init => WaitInv
<1> SUFFICES ASSUME Init
             PROVE  WaitInv
  OBVIOUS
<1>1. IndexInv
  BY InitIndexInv
<1>2. Types
  BY DEF Init, Types, Statuses
<1>3. \A i \in Items : ~InLine(i) /\ ~Reserved(i) /\ item[i] = "none"
  BY EmptyLine DEF Init, InLine, Reserved
<1>4. LinesApart
  BY <1>3, EmptyLine DEF Init, LinesApart
<1>5. LinesHold /\ NoneIsLost
  BY <1>3, EmptyLine DEF Init, LinesHold, NoneIsLost
<1>6. BatchesRun
  BY <1>3 DEF Init, BatchesRun
<1> QED
  BY <1>1, <1>2, <1>4, <1>5, <1>6 DEF WaitInv

LEMMA LineTypes ==
    ASSUME Types
    PROVE  /\ Range(chain) \subseteq Items /\ Range(freshQueue) \subseteq Items
           /\ \A w \in Workers :
                /\ queue[w] \in Seq(Items) /\ Range(queue[w]) \subseteq Items
                /\ queue[w] = <<>> <=> Range(queue[w]) = {}
<1>1. \A w \in Workers : queue[w] \in Seq(Items)
  BY DEF Types
<1> QED
  BY <1>1, RangeOfSeq DEF Types

(* The item at the head of the chain. *)
LEMMA HeadOfChain ==
    ASSUME Types, LinesApart, chain # <<>>
    PROVE  /\ Head(chain) \in Items
           /\ Head(chain) \in Range(chain)
           /\ Tail(chain) \in Seq(Items)
           /\ IsInjective(Tail(chain))
           /\ Range(Tail(chain)) = Range(chain) \ {Head(chain)}
           /\ Head(chain) \notin Range(freshQueue)
           /\ \A w \in Workers : Head(chain) \notin Range(queue[w])
           /\ ~Reserved(Head(chain))
<1>1. /\ Head(chain) \in Range(chain) /\ Tail(chain) \in Seq(Items)
      /\ IsInjective(Tail(chain)) /\ Range(Tail(chain)) = Range(chain) \ {Head(chain)}
  BY HeadOfLine DEF Types, LinesApart
<1>2. Head(chain) \in Items
  BY <1>1, LineTypes
<1>3. ~Reserved(Head(chain))
  BY <1>1, <1>2 DEF LinesApart, InLine
<1> QED
  BY <1>1, <1>2, <1>3 DEF LinesApart

LEMMA SameLines ==
    ASSUME LinesApart, UNCHANGED <<chain, freshQueue, queue, spawning, fresh>>
    PROVE  /\ LinesApart'
           /\ \A i \in Items : (InLine(i)' <=> InLine(i)) /\ (Reserved(i)' <=> Reserved(i))
<1>1. \A i \in Items : (InLine(i)' <=> InLine(i)) /\ (Reserved(i)' <=> Reserved(i))
  BY DEF InLine, Reserved
<1> QED
  BY <1>1 DEF LinesApart

(* A batch of queued items starts on a worker whose last one is settled. *)
LEMMA BatchStarts ==
    ASSUME Types, BatchesRun, Shape,
           NEW w \in Workers, NEW its \in SUBSET Items, NEW n, StartBatch(w, its, n),
           \A i \in its : item[i] = "queued",
           \A i \in batch[w] : item[i] \in Terminal
    PROVE  /\ item' \in [Items -> Statuses]
           /\ batch' \in [Workers -> SUBSET Items]
           /\ \A i \in its : item'[i] = "running"
           /\ \A i \in Items \ its : item'[i] = item[i]
           /\ BatchesRun'
<1>1. /\ item' \in [Items -> Statuses]
      /\ batch' = [batch EXCEPT ![w] = its] /\ batch' \in [Workers -> SUBSET Items]
      /\ turn' \in [Workers -> Turns] /\ turn'[w] \in {"on", "jobless"}
      /\ \A v \in Workers \ {w} : turn'[v] = turn[v] /\ batch'[v] = batch[v]
      /\ batch'[w] = its
      /\ \A i \in its : item'[i] = "running"
      /\ \A i \in Items \ its : item'[i] = item[i]
  BY DEF StartBatch, Types, Shape, Statuses, Turns
<1>2. \A v \in Workers : \A i \in batch[v] : i \in Items /\ i \notin its
  <2>1. \A v \in Workers : \A i \in batch[v] : item[i] \in {"running"} \cup Terminal
    BY DEF BatchesRun, Shape, Turns
  <2> QED
    BY <2>1 DEF Types, Terminal
<1>3. ASSUME NEW v \in Workers
      PROVE  /\ turn'[v] = "off" => batch'[v] = {}
             /\ turn'[v] \in {"on", "jobless"} => \A i \in batch'[v] : item'[i] = "running"
             /\ turn'[v] = "settling" => \A i \in batch'[v] : item'[i] \in Terminal
  <2>1. CASE v = w
    BY <1>1, <2>1
  <2>2. CASE v # w
    BY <1>1, <1>2, <2>2 DEF BatchesRun
  <2> QED
    BY <2>1, <2>2
<1>4. \A v, u \in Workers : \A i \in Items : i \in batch'[v] /\ i \in batch'[u] => v = u
  BY <1>1, <1>2 DEF BatchesRun
<1>5. ASSUME NEW i \in Items, item'[i] = "running"
      PROVE  \E v \in Workers : i \in batch'[v]
  <2>1. CASE i \in its
    BY <1>1, <2>1
  <2>2. CASE i \notin its
    <3>1. PICK v \in Workers : i \in batch[v]
      BY <1>1, <1>5, <2>2 DEF BatchesRun
    <3>2. v # w
      BY <1>1, <1>5, <2>2, <3>1 DEF Terminal
    <3> QED
      BY <1>1, <3>1, <3>2
  <2> QED
    BY <2>1, <2>2
<1> QED
  BY <1>1, <1>3, <1>4, <1>5 DEF BatchesRun

(* A turn is over, its batch settled. *)
LEMMA BatchEnds ==
    ASSUME Types, BatchesRun, Shape, NEW w \in Workers, turn[w] = "settling",
           TurnOver(w), item' = item
    PROVE  batch' \in [Workers -> SUBSET Items] /\ BatchesRun'
<1>1. /\ batch' \in [Workers -> SUBSET Items]
      /\ batch'[w] = {} /\ turn'[w] = "off"
      /\ \A v \in Workers \ {w} : turn'[v] = turn[v] /\ batch'[v] = batch[v]
  BY DEF TurnOver, Types, Shape
<1>2. \A i \in Items : i \in batch[w] => item[i] # "running"
  BY DEF BatchesRun, Terminal
<1>3. \A i \in Items : item'[i] = "running" => \E v \in Workers : i \in batch'[v]
  BY <1>1, <1>2 DEF BatchesRun
<1> QED
  BY <1>1, <1>3 DEF BatchesRun

Waits == Types /\ LinesApart /\ LinesHold /\ NoneIsLost /\ BatchesRun

(* Pushes, and the dispatches that move the head of the chain. *)
LEMMA PushWaits == ASSUME WaitInv, NEW i \in Items, Push(i) PROVE Waits'
<1> USE DEF WaitInv
<1>1. /\ item[i] = "none" /\ item' = [item EXCEPT ![i] = "queued"]
      /\ chain' = Append(chain, i) /\ i \in Items
      /\ UNCHANGED <<freshQueue, queue, spawning, batch, turn, fresh, closed>>
  BY DEF Push
<1>2. ~InLine(i) /\ ~Reserved(i)
  BY <1>1 DEF LinesHold
<1>3. /\ chain' \in Seq(Items) /\ Range(chain') = Range(chain) \cup {i} /\ IsInjective(chain')
  BY <1>1, <1>2, AppendToLine DEF Types, LinesApart, InLine
<1>4. /\ \A j \in Items : InLine(j)' <=> InLine(j) \/ j = i
      /\ \A j \in Items : Reserved(j)' <=> Reserved(j)
  BY <1>1, <1>3 DEF InLine, Reserved
<1>5. Types'
  BY <1>1, <1>3 DEF Types, Statuses
<1>6. LinesApart'
  BY <1>1, <1>2, <1>3, <1>4 DEF LinesApart, InLine
<1>7. LinesHold' /\ NoneIsLost'
  <2>1. \A j \in Items : j # i => item'[j] = item[j]
    BY <1>1 DEF Types
  <2>2. item'[i] = "queued"
    BY <1>1 DEF Types
  <2>3. Range(freshQueue) \subseteq Items /\ \A w \in Workers : Range(queue[w]) \subseteq Items
    BY LineTypes
  <2>4. LinesHold'
    BY <1>1, <1>2, <1>4, <2>1, <2>2, <2>3 DEF LinesHold, InLine
  <2>5. NoneIsLost'
    BY <1>1, <1>4, <2>1 DEF NoneIsLost
  <2> QED
    BY <2>4, <2>5
<1>8. BatchesRun'
  BY <1>1 DEF BatchesRun, Types, Terminal
<1> QED
  BY <1>5, <1>6, <1>7, <1>8 DEF Waits

LEMMA SkipWaits == ASSUME WaitInv, Skip PROVE Waits'
<1> USE DEF WaitInv
<1> DEFINE h == Head(chain)
<1>1. /\ chain # <<>> /\ chain' = Tail(chain)
      /\ closed \/ item[h] # "queued"
      /\ UNCHANGED <<item, freshQueue, queue, spawning, batch, turn, fresh, closed>>
  BY DEF Skip, ChainFree, Dispatchable
<1>2. /\ Tail(chain) \in Seq(Items) /\ IsInjective(Tail(chain)) /\ h \in Items
      /\ Range(Tail(chain)) = Range(chain) \ {h}
      /\ h \notin Range(freshQueue) /\ \A w \in Workers : h \notin Range(queue[w])
      /\ ~Reserved(h)
  BY <1>1, HeadOfChain
<1> HIDE DEF h
<1>3. /\ \A j \in Items : InLine(j)' <=> InLine(j) /\ j # h
      /\ \A j \in Items : Reserved(j)' <=> Reserved(j)
  BY <1>1, <1>2 DEF InLine, Reserved
<1>4. Types'
  BY <1>1, <1>2 DEF Types
<1>5. LinesApart'
  BY <1>1, <1>2, <1>3 DEF LinesApart
<1>6. LinesHold'
  BY <1>1, <1>3 DEF LinesHold
<1>7. NoneIsLost'
  BY <1>1, <1>2, <1>3 DEF NoneIsLost
<1>8. BatchesRun'
  BY <1>1 DEF BatchesRun
<1> QED
  BY <1>4, <1>5, <1>6, <1>7, <1>8 DEF Waits

LEMMA QueueFreshWaits == ASSUME WaitInv, QueueFresh PROVE Waits'
<1> USE DEF WaitInv
<1> DEFINE h == Head(chain)
<1>1. /\ chain # <<>> /\ chain' = Tail(chain) /\ fresh
      /\ freshQueue' = Append(freshQueue, h) /\ item[h] = "queued"
      /\ UNCHANGED <<item, queue, spawning, batch, turn, fresh, closed>>
  BY DEF QueueFresh, ChainFree, Dispatchable
<1>2. /\ Tail(chain) \in Seq(Items) /\ IsInjective(Tail(chain)) /\ h \in Items
      /\ Range(Tail(chain)) = Range(chain) \ {h} /\ h \in Range(chain)
      /\ h \notin Range(freshQueue) /\ \A w \in Workers : h \notin Range(queue[w])
      /\ ~Reserved(h)
  BY <1>1, HeadOfChain
<1> HIDE DEF h
<1>3. /\ freshQueue' \in Seq(Items) /\ Range(freshQueue') = Range(freshQueue) \cup {h}
      /\ IsInjective(freshQueue')
  BY <1>1, <1>2, AppendToLine DEF Types, LinesApart
<1>4. /\ \A j \in Items : InLine(j)' <=> InLine(j)
      /\ \A j \in Items : Reserved(j)' <=> Reserved(j)
  BY <1>1, <1>2, <1>3 DEF InLine, Reserved
<1>5. Types'
  BY <1>1, <1>2, <1>3 DEF Types
<1>6. LinesApart'
  BY <1>1, <1>2, <1>3, <1>4 DEF LinesApart
<1>7. LinesHold'
  BY <1>1, <1>3, <1>4 DEF LinesHold
<1>8. NoneIsLost'
  BY <1>1, <1>4 DEF NoneIsLost
<1>9. BatchesRun'
  BY <1>1 DEF BatchesRun
<1> QED
  BY <1>5, <1>6, <1>7, <1>8, <1>9 DEF Waits

LEMMA ReserveWaits == ASSUME WaitInv, Reserve PROVE Waits'
<1> USE DEF WaitInv
<1> DEFINE h == Head(chain)
<1>1. /\ chain # <<>> /\ chain' = Tail(chain)
      /\ spawning = {} /\ spawning' = {<<h, nextIndex>>} /\ item[h] = "queued"
      /\ UNCHANGED <<item, freshQueue, queue, batch, turn, fresh, closed>>
  BY DEF Reserve, ChainFree, Dispatchable
<1>2. /\ Tail(chain) \in Seq(Items) /\ IsInjective(Tail(chain)) /\ h \in Items
      /\ Range(Tail(chain)) = Range(chain) \ {h} /\ h \in Range(chain)
      /\ h \notin Range(freshQueue) /\ \A w \in Workers : h \notin Range(queue[w])
  BY <1>1, HeadOfChain
<1> HIDE DEF h
<1>3. /\ \A j \in Items : InLine(j)' <=> InLine(j) /\ j # h
      /\ \A j \in Items : Reserved(j)' <=> j = h
      /\ \A j \in Items : ~Reserved(j)
  BY <1>1, <1>2 DEF InLine, Reserved
<1>4. Types'
  BY <1>1, <1>2 DEF Types
<1>5. LinesApart'
  BY <1>1, <1>2, <1>3 DEF LinesApart
<1>6. LinesHold'
  BY <1>1, <1>3 DEF LinesHold
<1>7. NoneIsLost'
  BY <1>1, <1>3 DEF NoneIsLost
<1>8. BatchesRun'
  BY <1>1 DEF BatchesRun
<1> QED
  BY <1>4, <1>5, <1>6, <1>7, <1>8 DEF Waits

LEMMA DispatchToBusyWaits ==
    ASSUME WaitInv, NEW w \in Workers, DispatchToBusy(w)
    PROVE  Waits'
<1> USE DEF WaitInv
<1> DEFINE h == Head(chain)
<1>1. /\ chain # <<>> /\ chain' = Tail(chain)
      /\ queue' = [queue EXCEPT ![w] = Append(queue[w], h)] /\ item[h] = "queued"
      /\ UNCHANGED <<item, freshQueue, spawning, batch, turn, fresh, closed>>
  BY DEF DispatchToBusy, ChainFree, Dispatchable
<1>2. /\ Tail(chain) \in Seq(Items) /\ IsInjective(Tail(chain)) /\ h \in Items
      /\ Range(Tail(chain)) = Range(chain) \ {h} /\ h \in Range(chain)
      /\ h \notin Range(freshQueue) /\ \A v \in Workers : h \notin Range(queue[v])
      /\ ~Reserved(h)
  BY <1>1, HeadOfChain
<1> HIDE DEF h
<1>3. /\ queue' \in [Workers -> Seq(Items)]
      /\ Range(queue'[w]) = Range(queue[w]) \cup {h} /\ IsInjective(queue'[w])
      /\ \A v \in Workers : v # w => queue'[v] = queue[v]
  <2>1. queue[w] \in Seq(Items) /\ IsInjective(queue[w])
    BY DEF Types, LinesApart
  <2>2. /\ Append(queue[w], h) \in Seq(Items)
        /\ Range(Append(queue[w], h)) = Range(queue[w]) \cup {h}
        /\ IsInjective(Append(queue[w], h))
    BY <1>2, <2>1, AppendToLine
  <2> QED
    BY <1>1, <2>2 DEF Types
<1>4. /\ \A j \in Items : InLine(j)' <=> InLine(j)
      /\ \A j \in Items : Reserved(j)' <=> Reserved(j)
  BY <1>1, <1>2, <1>3 DEF InLine, Reserved
<1>5. Types'
  BY <1>1, <1>2, <1>3 DEF Types
<1>6. LinesApart'
  BY <1>1, <1>2, <1>3, <1>4 DEF LinesApart
<1>7. LinesHold'
  BY <1>1, <1>3, <1>4 DEF LinesHold
<1>8. NoneIsLost'
  BY <1>1, <1>4 DEF NoneIsLost
<1>9. BatchesRun'
  BY <1>1 DEF BatchesRun
<1> QED
  BY <1>5, <1>6, <1>7, <1>8, <1>9 DEF Waits

(* Batches that start. *)
LEMMA DispatchToIdleWaits ==
    ASSUME WaitInv, NEW w \in Workers, DispatchToIdle(w)
    PROVE  Waits'
<1> USE DEF WaitInv
<1> DEFINE h == Head(chain)
<1>1. /\ chain # <<>> /\ chain' = Tail(chain) /\ item[h] = "queued"
      /\ StartBatch(w, {h}, Cardinality(ActiveJobs)) /\ agent[w] = "idle"
      /\ UNCHANGED <<freshQueue, queue, spawning, fresh, closed>>
  BY DEF DispatchToIdle, ChainFree, Dispatchable, IdleWorkers
<1>2. /\ Tail(chain) \in Seq(Items) /\ IsInjective(Tail(chain)) /\ h \in Items
      /\ Range(Tail(chain)) = Range(chain) \ {h}
      /\ h \notin Range(freshQueue) /\ \A v \in Workers : h \notin Range(queue[v])
      /\ ~Reserved(h)
  BY <1>1, HeadOfChain
<1> HIDE DEF h
<1>3. Shape /\ batch[w] = {}
  BY <1>1 DEF IndexInv, LimitInv, TurnInv, BusyOrRefused, BatchesRun
<1>4. /\ item' \in [Items -> Statuses] /\ batch' \in [Workers -> SUBSET Items]
      /\ \A i \in Items : i # h => item'[i] = item[i]
      /\ item'[h] = "running"
      /\ BatchesRun'
  <2>1. {h} \in SUBSET Items /\ \A i \in {h} : item[i] = "queued"
    BY <1>1, <1>2
  <2> QED
    BY <1>1, <1>3, <2>1, BatchStarts
<1>5. /\ \A j \in Items : InLine(j)' <=> InLine(j) /\ j # h
      /\ \A j \in Items : Reserved(j)' <=> Reserved(j)
  BY <1>1, <1>2 DEF InLine, Reserved
<1>6. Types'
  BY <1>1, <1>2, <1>4 DEF Types
<1>7. LinesApart'
  BY <1>1, <1>2, <1>5 DEF LinesApart
<1>8. LinesHold'
  BY <1>1, <1>2, <1>4, <1>5, LineTypes DEF LinesHold
<1>9. NoneIsLost'
  BY <1>1, <1>2, <1>4, <1>5 DEF NoneIsLost
<1> QED
  BY <1>4, <1>6, <1>7, <1>8, <1>9 DEF Waits

LEMMA SpawnWaits ==
    ASSUME WaitInv, NEW i \in Items, NEW w \in Workers, Spawn(i, w)
    PROVE  Waits'
<1> USE DEF WaitInv
<1>1. /\ <<i, w>> \in spawning /\ spawning' = spawning \ {<<i, w>>} /\ item[i] = "queued"
      /\ StartBatch(w, {i}, Cardinality(ActiveJobs))
      /\ UNCHANGED <<chain, freshQueue, queue, fresh, closed>>
  BY DEF Spawn
<1>2. spawning = {<<i, w>>} /\ spawning' = {}
  BY <1>1 DEF IndexInv, LimitInv, RoomIsKept
<1>3. Shape /\ batch[w] = {}
  BY <1>1 DEF IndexInv, IndexIsNew, LimitInv, TurnInv, BusyOrRefused, BatchesRun
<1>4. /\ item' \in [Items -> Statuses] /\ batch' \in [Workers -> SUBSET Items]
      /\ \A j \in Items : j # i => item'[j] = item[j]
      /\ item'[i] = "running"
      /\ BatchesRun'
  <2>1. /\ {i} \in SUBSET Items
        /\ \A j \in {i} : item[j] = "queued"
        /\ \A j \in batch[w] : item[j] \in Terminal
    BY <1>1, <1>3
  <2>2. /\ item' \in [Items -> Statuses] /\ batch' \in [Workers -> SUBSET Items]
        /\ \A j \in {i} : item'[j] = "running"
        /\ \A j \in Items \ {i} : item'[j] = item[j]
        /\ BatchesRun'
    BY <1>1, <1>3, <2>1, BatchStarts
  <2> QED
    BY <2>2
<1>5. /\ \A j \in Items : InLine(j)' <=> InLine(j)
      /\ \A j \in Items : ~Reserved(j)'
      /\ \A j \in Items : Reserved(j) <=> j = i
  BY <1>1, <1>2 DEF InLine, Reserved
<1>6. ~InLine(i)
  BY <1>5 DEF LinesApart
<1>7. Types'
  BY <1>1, <1>4 DEF Types
<1>8. LinesApart'
  BY <1>1, <1>5 DEF LinesApart
<1>9. LinesHold'
  BY <1>1, <1>4, <1>5, <1>6, LineTypes DEF LinesHold, InLine
<1>10. NoneIsLost'
  BY <1>1, <1>4, <1>5 DEF NoneIsLost
<1> QED
  BY <1>4, <1>7, <1>8, <1>9, <1>10 DEF Waits

LEMMA WorkerContinuesWaits ==
    ASSUME WaitInv, NEW w \in Workers, WorkerContinues(w)
    PROVE  Waits'
<1> USE DEF WaitInv
<1>1. /\ turn[w] = "settling"
      /\ StartBatch(w, Range(queue[w]), Cardinality(ActiveJobs))
      /\ queue' = [queue EXCEPT ![w] = <<>>]
      /\ UNCHANGED <<chain, freshQueue, spawning, fresh, closed>>
  BY DEF WorkerContinues
<1>2. Shape /\ \A i \in batch[w] : item[i] \in Terminal
  BY <1>1 DEF IndexInv, LimitInv, TurnInv, BatchesRun
<1>3. /\ Range(queue[w]) \in SUBSET Items
      /\ \A i \in Range(queue[w]) : item[i] = "queued"
  BY LineTypes DEF LinesHold
<1>4. /\ item' \in [Items -> Statuses] /\ batch' \in [Workers -> SUBSET Items]
      /\ \A j \in Items \ Range(queue[w]) : item'[j] = item[j]
      /\ \A j \in Range(queue[w]) : item'[j] = "running"
      /\ BatchesRun'
  BY <1>1, <1>2, <1>3, BatchStarts
<1>5. /\ queue' \in [Workers -> Seq(Items)]
      /\ queue'[w] = <<>> /\ Range(queue'[w]) = {} /\ IsInjective(queue'[w])
      /\ \A v \in Workers : v # w => queue'[v] = queue[v]
  BY <1>1, EmptyLine DEF Types
<1>6. /\ \A j \in Items : InLine(j)' <=> InLine(j) /\ j \notin Range(queue[w])
      /\ \A j \in Items : Reserved(j)' <=> Reserved(j)
  <2>1. \A j \in Range(queue[w]) : /\ j \notin Range(chain) /\ j \notin Range(freshQueue)
                                   /\ \A v \in Workers : v # w => j \notin Range(queue[v])
    <3>1. Range(freshQueue) = {}
      BY <1>1, EmptyLine DEF LinesApart, WorkerContinues
    <3> QED
      BY <1>3, <3>1 DEF LinesApart
  <2> QED
    BY <1>1, <1>5, <2>1 DEF InLine, Reserved
<1>7. Types'
  BY <1>1, <1>4, <1>5 DEF Types
<1>8. LinesApart'
  BY <1>1, <1>5, <1>6 DEF LinesApart
<1>9. LinesHold'
  <2>1. \A j \in Items : (InLine(j) \/ Reserved(j))' => item'[j] \in {"queued", "cancelled"}
    <3>1. \A j \in Range(queue[w]) : ~Reserved(j)
      BY <1>3 DEF LinesApart, InLine
    <3> QED
      BY <1>4, <1>6, <3>1 DEF LinesHold
  <2>2. \A j \in Range(freshQueue') : item'[j] = "queued"
    BY <1>1, EmptyLine DEF LinesApart, WorkerContinues
  <2>3. ASSUME NEW v \in Workers, NEW j \in Range(queue'[v])
        PROVE  item'[j] = "queued"
    <3>1. v # w /\ j \in Range(queue[v]) /\ j \in Items
      BY <1>5, <2>3, LineTypes
    <3>2. j \notin Range(queue[w])
      BY <3>1 DEF LinesApart
    <3> QED
      BY <1>4, <3>1, <3>2 DEF LinesHold
  <2> QED
    BY <2>1, <2>2, <2>3 DEF LinesHold
<1>10. NoneIsLost'
  BY <1>1, <1>4, <1>6 DEF NoneIsLost
<1> QED
  BY <1>4, <1>7, <1>8, <1>9, <1>10 DEF Waits

(* Turns that end. *)
LEMMA TurnEndsWaits ==
    ASSUME WaitInv, NEW w \in Workers, NEW o \in Terminal, TurnEnds(w, o)
    PROVE  Waits'
<1> USE DEF WaitInv
<1>1. /\ turn[w] = "on" /\ turn' = [turn EXCEPT ![w] = "settling"]
      /\ item' = [i \in Items |-> IF i \in batch[w] THEN o ELSE item[i]]
      /\ UNCHANGED <<chain, freshQueue, queue, spawning, batch, fresh, closed>>
  BY DEF TurnEnds
<1>2. /\ \A i \in Items : i \in batch[w] => item[i] = "running" /\ item'[i] = o
      /\ \A i \in Items : i \notin batch[w] => item'[i] = item[i]
      /\ item' \in [Items -> Statuses]
  BY <1>1 DEF BatchesRun, Types, Statuses, Terminal
<1>3. /\ LinesApart'
      /\ \A i \in Items : (InLine(i)' <=> InLine(i)) /\ (Reserved(i)' <=> Reserved(i))
  BY <1>1, SameLines
<1>4. Types'
  BY <1>1, <1>2 DEF Types
<1>5. LinesHold'
  BY <1>1, <1>2, <1>3, LineTypes DEF LinesHold
<1>6. NoneIsLost'
  BY <1>1, <1>2, <1>3 DEF NoneIsLost, Terminal
<1>7. BatchesRun'
  <2>1. turn'[w] = "settling" /\ \A v \in Workers : v # w => turn'[v] = turn[v]
    BY <1>1 DEF IndexInv, LimitInv, TurnInv, Shape
  <2>2. \A v \in Workers : v # w => \A i \in Items : i \in batch[v] => item'[i] = item[i]
    BY <1>2 DEF BatchesRun
  <2>3. \A v \in Workers : batch[v] \subseteq Items
    BY DEF Types
  <2>4. \A i \in Items : item'[i] = "running" => item[i] = "running"
    BY <1>2 DEF Terminal
  <2>5. ASSUME NEW v \in Workers
        PROVE  /\ turn'[v] = "off" => batch[v] = {}
               /\ turn'[v] \in {"on", "jobless"} => \A i \in batch[v] : item'[i] = "running"
               /\ turn'[v] = "settling" => \A i \in batch[v] : item'[i] \in Terminal
    <3>1. CASE v = w
      BY <1>2, <2>1, <2>3, <3>1
    <3>2. CASE v # w
      BY <2>1, <2>2, <2>3, <3>2 DEF BatchesRun
    <3> QED
      BY <3>1, <3>2
  <2> QED
    BY <1>1, <2>4, <2>5 DEF BatchesRun
<1> QED
  BY <1>3, <1>4, <1>5, <1>6, <1>7 DEF Waits

LEMMA WorkerIdlesWaits ==
    ASSUME WaitInv, NEW w \in Workers, WorkerIdles(w)
    PROVE  Waits'
<1> USE DEF WaitInv
<1>1. /\ turn[w] = "settling" /\ TurnOver(w) /\ item' = item
      /\ UNCHANGED <<chain, freshQueue, queue, spawning, fresh, closed>>
  BY DEF WorkerIdles
<1>2. batch' \in [Workers -> SUBSET Items] /\ BatchesRun'
  BY <1>1, BatchEnds DEF IndexInv, LimitInv, TurnInv
<1>3. /\ LinesApart'
      /\ \A i \in Items : (InLine(i)' <=> InLine(i)) /\ (Reserved(i)' <=> Reserved(i))
  BY <1>1, SameLines
<1> QED
  BY <1>1, <1>2, <1>3 DEF Waits, Types, LinesHold, NoneIsLost

LEMMA FreshWorkerDoneWaits ==
    ASSUME WaitInv, NEW w \in Workers, FreshWorkerDone(w)
    PROVE  Waits'
<1> USE DEF WaitInv
<1>1. /\ turn[w] = "settling" /\ TurnOver(w) /\ item' = item /\ fresh
      /\ UNCHANGED <<queue, spawning, fresh, closed>>
  BY DEF FreshWorkerDone
<1>2. batch' \in [Workers -> SUBSET Items] /\ BatchesRun'
  BY <1>1, BatchEnds DEF IndexInv, LimitInv, TurnInv
<1>3. CASE freshQueue = <<>>
  <2>1. UNCHANGED <<chain, freshQueue>>
    BY <1>3 DEF FreshWorkerDone
  <2>2. /\ LinesApart'
        /\ \A i \in Items : (InLine(i)' <=> InLine(i)) /\ (Reserved(i)' <=> Reserved(i))
    BY <1>1, <2>1, SameLines
  <2> QED
    BY <1>1, <1>2, <2>1, <2>2 DEF Waits, Types, LinesHold, NoneIsLost
<1>4. CASE freshQueue # <<>>
  <2> DEFINE h == Head(freshQueue)
  <2>1. chain' = Append(chain, h) /\ freshQueue' = Tail(freshQueue)
    BY <1>4 DEF FreshWorkerDone
  <2>2. /\ Tail(freshQueue) \in Seq(Items) /\ IsInjective(Tail(freshQueue))
        /\ Range(Tail(freshQueue)) = Range(freshQueue) \ {h} /\ h \in Range(freshQueue)
    BY <1>4, HeadOfLine DEF Types, LinesApart
  <2> HIDE DEF h
  <2>3. h \in Items /\ h \notin Range(chain) /\ \A v \in Workers : Range(queue[v]) = {}
    BY <1>1, <2>2, LineTypes DEF LinesApart, IndexInv, LimitInv, TurnInv, FreshHasNoQueue
  <2>4. /\ chain' \in Seq(Items) /\ Range(chain') = Range(chain) \cup {h} /\ IsInjective(chain')
    BY <2>1, <2>3, AppendToLine DEF Types, LinesApart
  <2>5. /\ \A j \in Items : InLine(j)' <=> InLine(j)
        /\ \A j \in Items : Reserved(j)' <=> Reserved(j)
    BY <1>1, <2>1, <2>2, <2>3, <2>4 DEF InLine, Reserved
  <2>6. Types'
    BY <1>1, <1>2, <2>1, <2>2, <2>4 DEF Types
  <2>7. LinesApart'
    BY <1>1, <2>1, <2>2, <2>3, <2>4, <2>5 DEF LinesApart
  <2>8. LinesHold' /\ NoneIsLost'
    BY <1>1, <2>1, <2>2, <2>5 DEF LinesHold, NoneIsLost
  <2> QED
    BY <1>2, <2>6, <2>7, <2>8 DEF Waits
<1> QED
  BY <1>3, <1>4

LEMMA WorkerDiesWaits ==
    ASSUME WaitInv, NEW w \in Workers, WorkerDies(w)
    PROVE  Waits'
<1> USE DEF WaitInv
<1>1. /\ turn[w] = "settling" /\ TurnOver(w) /\ item' = item /\ ~fresh
      /\ chain' = chain \o queue[w]
      /\ queue' = [queue EXCEPT ![w] = <<>>]
      /\ UNCHANGED <<freshQueue, spawning, fresh, closed>>
  BY DEF WorkerDies, Requeue
<1>2. batch' \in [Workers -> SUBSET Items] /\ BatchesRun'
  BY <1>1, BatchEnds DEF IndexInv, LimitInv, TurnInv
<1>3. /\ queue' \in [Workers -> Seq(Items)]
      /\ Range(queue'[w]) = {} /\ IsInjective(queue'[w])
      /\ \A v \in Workers : v # w => queue'[v] = queue[v]
  BY <1>1, EmptyLine DEF Types
<1>4. /\ chain' \in Seq(Items) /\ Range(chain') = Range(chain) \cup Range(queue[w])
      /\ IsInjective(chain')
  <2>1. queue[w] \in Seq(Items) /\ IsInjective(queue[w]) /\ IsInjective(chain)
        /\ chain \in Seq(Items) /\ Range(chain) \cap Range(queue[w]) = {}
    BY DEF Types, LinesApart
  <2> QED
    BY <1>1, <2>1, JoinLines
<1>5. /\ \A j \in Items : InLine(j)' <=> InLine(j)
      /\ \A j \in Items : Reserved(j)' <=> Reserved(j)
  BY <1>1, <1>3, <1>4 DEF InLine, Reserved
<1>6. Types'
  BY <1>1, <1>2, <1>3, <1>4 DEF Types
<1>7. LinesApart'
  <2>1. Range(freshQueue) = {}
    BY <1>1, EmptyLine DEF LinesApart
  <2>2. Range(queue[w]) \subseteq Items
    BY LineTypes
  <2>3. \A i \in Range(chain') : \A v \in Workers : i \notin Range(queue'[v])
    BY <1>3, <1>4, <2>2 DEF LinesApart
  <2> QED
    BY <1>1, <1>3, <1>4, <1>5, <2>1, <2>3 DEF LinesApart
<1>8. LinesHold' /\ NoneIsLost'
  BY <1>1, <1>3, <1>5 DEF LinesHold, NoneIsLost
<1> QED
  BY <1>2, <1>6, <1>7, <1>8 DEF Waits

(* A close, and reservations that come to nothing. *)
LEMMA CloseWaits == ASSUME WaitInv, Close PROVE Waits'
<1> USE DEF WaitInv
<1>1. /\ item' = [i \in Items |-> IF item[i] = "queued" THEN "cancelled" ELSE item[i]]
      /\ queue' = [v \in Workers |-> <<>>] /\ freshQueue' = <<>> /\ closed' = TRUE
      /\ UNCHANGED <<chain, spawning, batch, turn, fresh>>
  BY DEF Close
<1>2. /\ item' \in [Items -> Statuses]
      /\ \A i \in Items : item[i] = "queued" => item'[i] = "cancelled"
      /\ \A i \in Items : item[i] # "queued" => item'[i] = item[i]
  BY <1>1 DEF Types, Statuses
<1>3. /\ Range(freshQueue') = {} /\ IsInjective(freshQueue')
      /\ \A w \in Workers : Range(queue'[w]) = {} /\ IsInjective(queue'[w])
  BY <1>1, EmptyLine
<1>4. /\ \A j \in Items : InLine(j)' => InLine(j)
      /\ \A j \in Items : Reserved(j)' <=> Reserved(j)
  BY <1>1, <1>3 DEF InLine, Reserved
<1>5. Types'
  BY <1>1, <1>2 DEF Types
<1>6. LinesApart'
  BY <1>1, <1>3, <1>4 DEF LinesApart
<1>7. LinesHold' /\ NoneIsLost'
  BY <1>1, <1>2, <1>3, <1>4 DEF LinesHold, NoneIsLost
<1>8. BatchesRun'
  BY <1>1, <1>2 DEF BatchesRun, Types, Terminal
<1> QED
  BY <1>5, <1>6, <1>7, <1>8 DEF Waits

LEMMA SpawnGivenUpWaits ==
    ASSUME WaitInv, NEW i \in Items, NEW w \in Workers, SpawnTooLate(i, w) \/ SpawnFails(i, w)
    PROVE  Waits'
<1> USE DEF WaitInv
<1>1. /\ <<i, w>> \in spawning /\ spawning' = spawning \ {<<i, w>>}
      /\ UNCHANGED <<chain, freshQueue, queue, batch, turn, fresh, closed>>
      /\ item' = item \/ item' = [item EXCEPT ![i] = IF item[i] = "queued" THEN "failed" ELSE item[i]]
      /\ ~closed => item'[i] # "queued"
  BY DEF SpawnTooLate, SpawnFails, Types
<1>2. spawning = {<<i, w>>} /\ spawning' = {}
  BY <1>1 DEF IndexInv, LimitInv, RoomIsKept
<1>3. /\ item' \in [Items -> Statuses]
      /\ \A j \in Items : j # i => item'[j] = item[j]
      /\ item[i] # "queued" => item'[i] = item[i]
      /\ item'[i] \in {item[i], "failed"}
  BY <1>1 DEF Types, Statuses
<1>4. /\ \A j \in Items : InLine(j)' <=> InLine(j)
      /\ \A j \in Items : ~Reserved(j)'
      /\ \A j \in Items : Reserved(j) <=> j = i
  BY <1>1, <1>2 DEF InLine, Reserved
<1>5. ~InLine(i)
  BY <1>4 DEF LinesApart
<1>6. Types'
  BY <1>1, <1>2, <1>3 DEF Types
<1>7. LinesApart'
  BY <1>1, <1>4 DEF LinesApart
<1>8. LinesHold'
  BY <1>1, <1>3, <1>4, <1>5, LineTypes DEF LinesHold, InLine
<1>9. NoneIsLost'
  BY <1>1, <1>3, <1>4 DEF NoneIsLost
<1>10. BatchesRun'
  BY <1>1, <1>3 DEF BatchesRun, Types, Terminal
<1> QED
  BY <1>6, <1>7, <1>8, <1>9, <1>10 DEF Waits

LEMMA NextWaitInv == WaitInv /\ [Next]_vars => WaitInv'
<1> SUFFICES ASSUME WaitInv, [Next]_vars
             PROVE  Waits'
  BY NextIndexInv DEF WaitInv, Waits
<1>1. ASSUME NEW i \in Items, Push(i)
      PROVE  Waits'
  BY <1>1, PushWaits
<1>2. CASE Close
  BY <1>2, CloseWaits
<1>3. ASSUME NEW w \in Workers, NEW o \in Terminal, TurnEnds(w, o)
      PROVE  Waits'
  BY <1>3, TurnEndsWaits
<1>4. ASSUME NEW w \in Workers, WorkerSettles(w)
      PROVE  Waits'
  BY <1>4, FreshWorkerDoneWaits, WorkerIdlesWaits, WorkerContinuesWaits, WorkerDiesWaits
     DEF WorkerSettles
<1>5. CASE Chain
  BY <1>5, SkipWaits, QueueFreshWaits, ReserveWaits, DispatchToIdleWaits, DispatchToBusyWaits
     DEF Chain
<1>6. CASE SpawnSettles
  BY <1>6, SpawnWaits, SpawnGivenUpWaits DEF SpawnSettles
<1>7. CASE Aggregate
  <2>1. UNCHANGED <<item, chain, spawning, queue, freshQueue, batch, turn, fresh>> /\ closed'
    BY <1>7 DEF Aggregate
  <2>2. /\ LinesApart'
        /\ \A i \in Items : (InLine(i)' <=> InLine(i)) /\ (Reserved(i)' <=> Reserved(i))
    BY <2>1, SameLines DEF WaitInv
  <2> QED
    BY <2>1, <2>2 DEF WaitInv, Waits, Types, LinesHold, NoneIsLost, BatchesRun
<1>8. CASE Over \/ (\E l \in Limits : SetLimit(l)) \/ UNCHANGED vars
  <2>1. UNCHANGED <<item, chain, spawning, queue, freshQueue, batch, turn, fresh, closed>>
    BY <1>8 DEF Over, SetLimit, vars
  <2>2. /\ LinesApart'
        /\ \A i \in Items : (InLine(i)' <=> InLine(i)) /\ (Reserved(i)' <=> Reserved(i))
    BY <2>1, SameLines DEF WaitInv
  <2> QED
    BY <2>1, <2>2 DEF WaitInv, Waits, Types, LinesHold, NoneIsLost, BatchesRun
<1> QED
  BY <1>1, <1>2, <1>3, <1>4, <1>5, <1>6, <1>7, <1>8 DEF Next

(* An item whose lines do not repeat and are apart is in one place. *)
LEMMA OnePlace ==
    ASSUME WaitInv, NEW i \in Items, InLine(i) \/ Reserved(i)
    PROVE  \E p \in PlacesOf(i) : PlacesOf(i) = {p}
<1> USE DEF WaitInv
<1> DEFINE C == {<<"chain", n>> : n \in Occurrences(chain, i)}
           F == {<<"fresh", n>> : n \in Occurrences(freshQueue, i)}
           Q(w) == {<<"worker", w, n>> : n \in Occurrences(queue[w], i)}
           S == {<<"spawn", p[2]>> : p \in {q \in spawning : q[1] = i}}
<1>1. PlacesOf(i) = C \cup F \cup (UNION {Q(w) : w \in Workers}) \cup S
  BY DEF PlacesOf
<1>2. /\ i \notin Range(chain) => C = {}
      /\ i \notin Range(freshQueue) => F = {}
      /\ \A w \in Workers : i \notin Range(queue[w]) => Q(w) = {}
      /\ ~Reserved(i) => S = {}
  BY DEF Occurrences, Range, Reserved
<1>3. /\ i \in Range(chain) => \E p : C = {p}
      /\ i \in Range(freshQueue) => \E p : F = {p}
  <2>1. ASSUME NEW s, IsInjective(s), i \in Range(s)
        PROVE  \E n : Occurrences(s, i) = {n}
    BY <2>1 DEF Occurrences, Range, IsInjective
  <2>2. ASSUME i \in Range(chain)
        PROVE  \E p : C = {p}
    <3>1. PICK n : Occurrences(chain, i) = {n}
      BY <2>1, <2>2 DEF LinesApart
    <3>2. C = {<<"chain", n>>}
      BY <3>1
    <3> QED
      BY <3>2
  <2>3. ASSUME i \in Range(freshQueue)
        PROVE  \E p : F = {p}
    <3>1. PICK n : Occurrences(freshQueue, i) = {n}
      BY <2>1, <2>3 DEF LinesApart
    <3>2. F = {<<"fresh", n>>}
      BY <3>1
    <3> QED
      BY <3>2
  <2> QED
    BY <2>2, <2>3
<1>4. \A w \in Workers : i \in Range(queue[w]) => \E p : Q(w) = {p}
  <2> SUFFICES ASSUME NEW w \in Workers, i \in Range(queue[w])
               PROVE  \E p : Q(w) = {p}
    OBVIOUS
  <2>1. IsInjective(queue[w])
    BY DEF LinesApart
  <2>2. PICK n \in DOMAIN queue[w] : queue[w][n] = i
    BY DEF Range
  <2>3. Occurrences(queue[w], i) = {n}
    BY <2>1, <2>2 DEF Occurrences, IsInjective
  <2>4. Q(w) = {<<"worker", w, n>>}
    BY <2>3
  <2> QED
    BY <2>4
<1>5. Reserved(i) => \E p : S = {p}
  <2> SUFFICES ASSUME Reserved(i)
               PROVE  \E p : S = {p}
    OBVIOUS
  <2>1. PICK q \in spawning : q[1] = i
    BY DEF Reserved
  <2>2. spawning = {q}
    BY <2>1 DEF IndexInv, LimitInv, RoomIsKept
  <2>3. S = {<<"spawn", q[2]>>}
    BY <2>1, <2>2
  <2> QED
    BY <2>3
<1>6. /\ i \in Range(chain) => i \notin Range(freshQueue)
                               /\ \A w \in Workers : i \notin Range(queue[w])
      /\ i \in Range(freshQueue) => \A w \in Workers : i \notin Range(queue[w])
      /\ \A v, w \in Workers : i \in Range(queue[v]) /\ i \in Range(queue[w]) => v = w
      /\ Reserved(i) => ~InLine(i)
  <2>1. fresh \/ Range(freshQueue) = {}
    BY EmptyLine DEF LinesApart
  <2>2. fresh => \A w \in Workers : Range(queue[w]) = {}
    BY EmptyLine DEF IndexInv, LimitInv, TurnInv, FreshHasNoQueue
  <2> QED
    BY <2>1, <2>2 DEF LinesApart
<1> HIDE DEF C, F, Q, S
<1>7. CASE i \in Range(chain)
  <2>1. F = {} /\ S = {} /\ \A w \in Workers : Q(w) = {}
    BY <1>2, <1>6, <1>7 DEF InLine
  <2>2. PlacesOf(i) = C
    BY <1>1, <2>1
  <2> QED
    BY <1>3, <1>7, <2>2
<1>8. CASE i \in Range(freshQueue)
  <2>1. C = {} /\ S = {} /\ \A w \in Workers : Q(w) = {}
    BY <1>2, <1>6, <1>8 DEF InLine
  <2>2. PlacesOf(i) = F
    BY <1>1, <2>1
  <2> QED
    BY <1>3, <1>8, <2>2
<1>9. ASSUME NEW w \in Workers, i \in Range(queue[w])
      PROVE  \E p \in PlacesOf(i) : PlacesOf(i) = {p}
  <2>1. C = {} /\ F = {} /\ S = {} /\ \A v \in Workers : v # w => Q(v) = {}
    BY <1>2, <1>6, <1>9 DEF InLine
  <2>2. PlacesOf(i) = Q(w)
    BY <1>1, <2>1
  <2> QED
    BY <1>4, <1>9, <2>2
<1>10. CASE Reserved(i)
  <2>1. C = {} /\ F = {} /\ \A w \in Workers : Q(w) = {}
    BY <1>2, <1>6, <1>10 DEF InLine
  <2>2. PlacesOf(i) = S
    BY <1>1, <2>1
  <2> QED
    BY <1>5, <1>10, <2>2
<1> QED
  BY <1>7, <1>8, <1>9, <1>10 DEF InLine

(* No item of an open pool is lost on its way or given to two workers. *)
THEOREM ItemsAreInOnePlace == Spec => []ItemInOnePlace
<1>1. WaitInv => ItemInOnePlace
  <2> SUFFICES ASSUME WaitInv, NEW i \in Items
               PROVE  /\ item[i] = "queued" /\ ~closed => \E p \in PlacesOf(i) : PlacesOf(i) = {p}
                      /\ item[i] = "running" => \E w \in Agents : batch[w] \cap {i} # {}
                      /\ \A v, w \in Workers : i \in batch[v] \cap batch[w] => v = w
    BY DEF ItemInOnePlace
  <2>1. item[i] = "queued" /\ ~closed => \E p \in PlacesOf(i) : PlacesOf(i) = {p}
    BY OnePlace DEF WaitInv, NoneIsLost
  <2>2. item[i] = "running" => \E w \in Agents : batch[w] \cap {i} # {}
    <3> SUFFICES ASSUME item[i] = "running"
                 PROVE  \E w \in Agents : batch[w] \cap {i} # {}
      OBVIOUS
    <3>1. PICK w \in Workers : i \in batch[w]
      BY DEF WaitInv, BatchesRun
    <3>2. w \in Agents
      BY <3>1 DEF WaitInv, BatchesRun, IndexInv, LimitInv, TurnInv, BusyOrRefused, Agents
    <3> QED
      BY <3>1, <3>2
  <2>3. \A v, w \in Workers : i \in batch[v] \cap batch[w] => v = w
    BY DEF WaitInv, BatchesRun
  <2> QED
    BY <2>1, <2>2, <2>3
<1> QED
  BY <1>1, InitWaitInv, NextWaitInv, PTL DEF Spec

(* No turn is started over a running one. *)
THEOREM OneTurnAtATime == Spec => OneTurnPerWorker
<1> DEFINE A == \A w \in Workers :
        batch'[w] # {} /\ batch'[w] # batch[w] => \A i \in batch[w] : item[i] \in Terminal
<1>1. WaitInv /\ [Next]_vars => [A]_vars
  <2> SUFFICES ASSUME WaitInv, Next
               PROVE  A
    BY DEF vars
  <2> USE DEF WaitInv, IndexInv, LimitInv, TurnInv, Shape, Types, StartBatch, TurnOver
  <2>1. ASSUME NEW w \in Workers, WorkerSettles(w)
        PROVE  A
    <3>1. turn[w] = "settling"
      BY <2>1 DEF WorkerSettles, FreshWorkerDone, WorkerIdles, WorkerContinues, WorkerDies
    <3>2. \A v \in Workers : v # w => batch'[v] = batch[v]
      BY <2>1 DEF WorkerSettles, FreshWorkerDone, WorkerIdles, WorkerContinues, WorkerDies
    <3> QED
      BY <3>1, <3>2 DEF BatchesRun
  <2>2. ASSUME NEW w \in Workers, DispatchToIdle(w)
        PROVE  A
    <3>1. batch[w] = {}
      BY <2>2 DEF DispatchToIdle, IdleWorkers, BusyOrRefused, BatchesRun
    <3> QED
      BY <2>2, <3>1 DEF DispatchToIdle
  <2>3. ASSUME NEW i \in Items, NEW w \in Workers, Spawn(i, w)
        PROVE  A
    <3>1. batch[w] = {}
      BY <2>3 DEF Spawn, IndexIsNew, BusyOrRefused, BatchesRun
    <3> QED
      BY <2>3, <3>1 DEF Spawn
  <2>4. CASE UNCHANGED batch
    BY <2>4
  <2> QED
    BY <2>1, <2>2, <2>3, <2>4
    DEF Next, Push, Close, TurnEnds, Chain, Skip, QueueFresh, Reserve, DispatchToBusy,
        SpawnSettles, SpawnTooLate, SpawnFails, Aggregate, SetLimit, setting, Over, vars
<1> QED
  BY <1>1, InitWaitInv, NextWaitInv, PTL DEF Spec, OneTurnPerWorker

-----------------------------------------------------------------------------
(***************************************************************************)
(* The aggregate job.  What it saw settled stays so: an item is queued     *)
(* only by its push, and those that come later are known as late.          *)
(***************************************************************************)
Reported ==
    /\ poolJob \in {"none", "waiting", "collecting", "done"}
    /\ poolJob \in {"collecting", "done"} =>
          \A i \in Items \ late : item[i] \notin {"queued", "running"}
    /\ poolJob = "done" => closed

ReportInv == WaitInv /\ Reported

LEMMA InitReportInv == Init => ReportInv
<1> SUFFICES ASSUME Init
             PROVE  ReportInv
  OBVIOUS
<1>1. WaitInv
  BY InitWaitInv
<1> QED
  BY <1>1 DEF Init, ReportInv, Reported

(* A step that starts no item anew, and wakes the job only when drained. *)
LEMMA StaysReported ==
    ASSUME Reported, NEW active, NotifyDrained(item', active), late' = late,
           closed => closed',
           \A i \in Items : item'[i] \in {"queued", "running"} => item[i] \in {"queued", "running"}
    PROVE  Reported'
<1>1. CASE IsDrained(item') /\ poolJob = "waiting"
  BY <1>1 DEF NotifyDrained, Reported, IsDrained
<1>2. CASE ~(IsDrained(item') /\ poolJob = "waiting")
  BY <1>2 DEF NotifyDrained, Reported
<1> QED
  BY <1>1, <1>2

LEMMA NextReportInv == ReportInv /\ [Next]_vars => ReportInv'
<1> SUFFICES ASSUME ReportInv, [Next]_vars
             PROVE  Reported'
  BY NextWaitInv DEF ReportInv
<1> USE DEF ReportInv, WaitInv
<1>0. item \in [Items -> Statuses]
  BY DEF Types
<1>1. ASSUME NEW i \in Items, Push(i)
      PROVE  Reported'
  <2>1. /\ ~closed /\ closed' = closed /\ item' = [item EXCEPT ![i] = "queued"]
        /\ poolJob' = IF poolJob = "none" THEN "waiting" ELSE poolJob
        /\ late' = IF poolJob = "collecting" THEN late \cup {i} ELSE late
    BY <1>1 DEF Push
  <2>2. \A j \in Items : j # i => item'[j] = item[j]
    BY <1>0, <2>1
  <2> QED
    BY <2>1, <2>2 DEF Reported
<1>2. CASE Close
  <2>1. /\ NotifyDrained(item', ActiveJobs) /\ late' = late /\ closed'
        /\ \A j \in Items : item'[j] \in {"queued", "running"} => item[j] \in {"queued", "running"}
    BY <1>2 DEF Close
  <2> QED
    BY <2>1, StaysReported
<1>3. ASSUME NEW w \in Workers, NEW o \in Terminal, TurnEnds(w, o)
      PROVE  Reported'
  BY <1>3 DEF TurnEnds, Reported, Terminal
<1>4. ASSUME NEW w \in Workers, FreshWorkerDone(w) \/ WorkerIdles(w) \/ WorkerDies(w)
      PROVE  Reported'
  <2>1. item' = item /\ late' = late /\ closed' = closed
    BY <1>4 DEF FreshWorkerDone, WorkerIdles, WorkerDies
  <2>2. NotifyDrained(item', ActiveJobs \ {w})
    BY <1>4, <2>1 DEF FreshWorkerDone, WorkerIdles, WorkerDies
  <2> QED
    BY <2>1, <2>2, StaysReported
<1>5. ASSUME NEW w \in Workers, NEW its \in SUBSET Items, NEW n, StartBatch(w, its, n),
             \A i \in its : item[i] = "queued",
             UNCHANGED <<poolJob, late, closed>>
      PROVE  Reported'
  BY <1>5 DEF StartBatch, Reported
<1>6. ASSUME NEW w \in Workers, WorkerContinues(w)
      PROVE  Reported'
  <2>1. Range(queue[w]) \in SUBSET Items /\ \A i \in Range(queue[w]) : item[i] = "queued"
    BY LineTypes DEF LinesHold
  <2> QED
    BY <1>5, <1>6, <2>1 DEF WorkerContinues
<1>7. ASSUME NEW w \in Workers, DispatchToIdle(w)
      PROVE  Reported'
  <2>1. {Head(chain)} \in SUBSET Items /\ \A i \in {Head(chain)} : item[i] = "queued"
    BY <1>7, HeadOfChain DEF DispatchToIdle, ChainFree, Dispatchable
  <2> QED
    BY <1>5, <1>7, <2>1 DEF DispatchToIdle
<1>8. ASSUME NEW i \in Items, NEW w \in Workers, Spawn(i, w)
      PROVE  Reported'
  <2>1. {i} \in SUBSET Items /\ \A j \in {i} : item[j] = "queued"
    BY <1>8 DEF Spawn
  <2> QED
    BY <1>5, <1>8, <2>1 DEF Spawn
<1>9. ASSUME NEW i \in Items, NEW w \in Workers, SpawnFails(i, w)
      PROVE  Reported'
  <2>1. /\ item' = [item EXCEPT ![i] = IF item[i] = "queued" THEN "failed" ELSE item[i]]
        /\ NotifyDrained(item', ActiveJobs) /\ late' = late /\ closed' = closed
    BY <1>9 DEF SpawnFails
  <2>2. \A j \in Items : item'[j] \in {item[j], "failed"}
    BY <1>0, <2>1
  <2> QED
    BY <2>1, <2>2, StaysReported
<1>10. CASE Aggregate
  BY <1>10 DEF Aggregate, Reported
<1>11. CASE UNCHANGED <<item, poolJob, late, closed>>
  BY <1>11 DEF Reported
<1> QED
  BY <1>1, <1>2, <1>3, <1>4, <1>6, <1>7, <1>8, <1>9, <1>10, <1>11
  DEF Next, WorkerSettles, Chain, Skip, QueueFresh, Reserve, DispatchToBusy, SpawnSettles,
      SpawnTooLate, SetLimit, setting, Over, vars

(* What was accepted before the drain is settled when the job reports. *)
THEOREM AcceptedItemsAreReported == Spec => []AcceptedIsReported
<1>1. ReportInv => AcceptedIsReported
  BY DEF ReportInv, Reported, AcceptedIsReported
<1> QED
  BY <1>1, InitReportInv, NextReportInv, PTL DEF Spec

-----------------------------------------------------------------------------
(***************************************************************************)
(* Types.  A worker index is taken for an item that leaves the lines for   *)
(* good, so there are never more workers than items.                       *)
(***************************************************************************)
Served == {i \in Items : item[i] # "none" /\ ~InLine(i)}

IndexIsServed == nextIndex - 1 <= Cardinality(Served)

OtherTypes ==
    /\ spawning \subseteq Items \X Workers
    /\ awaited \subseteq Workers
    /\ closed \in BOOLEAN
    /\ late \subseteq Items

TypeInv == ReportInv /\ OtherTypes /\ IndexIsServed

LEMMA ServedFinite ==
    /\ IsFiniteSet(Served) /\ Served \subseteq Items
    /\ IsFiniteSet(Items) /\ Cardinality(Items) = MaxItems
    /\ Cardinality(Served) \in Nat
<1>1. IsFiniteSet(Items) /\ Cardinality(Items) = MaxItems
  BY WorkPoolAssumption, FS_Interval DEF Items
<1>2. IsFiniteSet(Served) /\ Served \subseteq Items
  BY <1>1, FS_Subset DEF Served
<1> QED
  BY <1>1, <1>2, FS_CardinalityType

LEMMA TypeInvGivesTypes == TypeInv => TypeOK
<1> SUFFICES ASSUME TypeInv
             PROVE  TypeOK
  OBVIOUS
<1> USE DEF TypeInv, ReportInv, WaitInv, IndexInv, LimitInv, TurnInv
<1>1. Cardinality(Served) <= MaxItems
  BY ServedFinite, FS_Subset
<1>2. nextIndex \in 1..(MaxItems + 1)
  BY <1>1, ServedFinite, WorkPoolAssumption DEF IndexIsNew, IndexIsServed
<1>3. limit \in Limits /\ seen \in Limits
  BY DEF RoomIsKept
<1> QED
  BY <1>2, <1>3 DEF TypeOK, OtherTypes, Types, Shape, Reported

LEMMA InitTypeInv == Init => TypeInv
<1> SUFFICES ASSUME Init
             PROVE  TypeInv
  OBVIOUS
<1>1. ReportInv
  BY InitReportInv
<1>2. IndexIsServed
  BY ServedFinite DEF Init, IndexIsServed
<1> QED
  BY <1>1, <1>2 DEF Init, TypeInv, OtherTypes

(* No item that was served is put in a line again. *)
LEMMA StaysServed ==
    ASSUME TypeInv, nextIndex' = nextIndex,
           \A i \in Items : item[i] # "none" => item'[i] # "none",
           \A i \in Items : item[i] # "none" /\ InLine(i)' => InLine(i)
    PROVE  IndexIsServed'
<1>1. Served \subseteq Served'
  BY DEF Served
<1>2. IsFiniteSet(Served') /\ Cardinality(Served') \in Nat
  <2>1. Served' \subseteq Items
    BY DEF Served
  <2> QED
    BY <2>1, ServedFinite, FS_Subset, FS_CardinalityType
<1>3. Cardinality(Served) <= Cardinality(Served')
  BY <1>1, <1>2, FS_Subset
<1> QED
  BY <1>2, <1>3, ServedFinite
     DEF IndexIsServed, TypeInv, ReportInv, WaitInv, IndexInv, IndexIsNew

LEMMA NextTypeInv == TypeInv /\ [Next]_vars => TypeInv'
<1> SUFFICES ASSUME TypeInv, [Next]_vars
             PROVE  OtherTypes' /\ IndexIsServed'
  BY NextReportInv DEF TypeInv
<1> USE DEF TypeInv, ReportInv, WaitInv
<1>0. /\ item \in [Items -> Statuses] /\ TypeOK
      /\ ActiveJobs \subseteq Workers
  BY TypeInvGivesTypes DEF Types, ActiveJobs
<1>1. OtherTypes'
  <2> USE DEF OtherTypes
  <2>1. ASSUME NEW i \in Items, Push(i)
        PROVE  OtherTypes'
    BY <2>1 DEF Push
  <2>2. ASSUME NEW active \in SUBSET Workers, NEW its, NotifyDrained(its, active)
        PROVE  awaited' \subseteq Workers
    BY <2>2 DEF NotifyDrained
  <2>3. CASE Close
    BY <1>0, <2>2, <2>3 DEF Close
  <2>4. ASSUME NEW w \in Workers, WorkerSettles(w)
        PROVE  OtherTypes'
    <3>1. UNCHANGED <<spawning, closed, late>>
      BY <2>4 DEF WorkerSettles, FreshWorkerDone, WorkerIdles, WorkerContinues, WorkerDies
    <3>2. NotifyDrained(item, ActiveJobs \ {w}) \/ awaited' = awaited \ {w}
      BY <2>4 DEF WorkerSettles, FreshWorkerDone, WorkerIdles, WorkerContinues, WorkerDies
    <3>3. awaited' \subseteq Workers
      BY <1>0, <2>2, <3>2
    <3> QED
      BY <3>1, <3>3
  <2>5. CASE Reserve
    <3>1. /\ spawning' = {<<Head(chain), nextIndex>>}
          /\ UNCHANGED <<awaited, closed, late>>
      BY <2>5 DEF Reserve, ChainFree
    <3>2. Head(chain) \in Items /\ InLine(Head(chain))
      BY <2>5, HeadOfChain DEF Reserve, ChainFree, InLine
    <3>3. nextIndex \in Workers
      <4>1. Served \subseteq Items \ {Head(chain)}
        BY <3>2 DEF Served
      <4>2. /\ Cardinality(Items \ {Head(chain)}) = MaxItems - 1
            /\ IsFiniteSet(Items \ {Head(chain)})
        BY <3>2, ServedFinite, FS_RemoveElement
      <4>3. Cardinality(Served) <= MaxItems - 1
        BY <4>1, <4>2, FS_Subset
      <4> QED
        BY <4>3, ServedFinite, WorkPoolAssumption
           DEF IndexIsServed, IndexInv, IndexIsNew, Workers
    <3> QED
      BY <3>1, <3>2, <3>3
  <2>6. ASSUME NEW i \in Items, NEW w \in Workers, Spawn(i, w) \/ SpawnTooLate(i, w)
        PROVE  OtherTypes'
    BY <2>6 DEF Spawn, SpawnTooLate
  <2>7. ASSUME NEW i \in Items, NEW w \in Workers, SpawnFails(i, w)
        PROVE  OtherTypes'
    BY <1>0, <2>2, <2>7 DEF SpawnFails
  <2>8. CASE Aggregate
    BY <2>8 DEF Aggregate
  <2>9. CASE UNCHANGED <<spawning, awaited, closed, late>>
    BY <2>9
  <2> QED
    BY <2>1, <2>3, <2>4, <2>5, <2>6, <2>7, <2>8, <2>9
    DEF Next, TurnEnds, Chain, Skip, QueueFresh, DispatchToIdle, DispatchToBusy, SpawnSettles,
        SetLimit, setting, Over, vars
<1>2. CASE nextIndex' # nextIndex
  <2>1. Reserve
    BY <1>2
    DEF Next, Push, Close, TurnEnds, WorkerSettles, FreshWorkerDone, WorkerIdles,
        WorkerContinues, WorkerDies, Chain, Skip, QueueFresh, DispatchToIdle, DispatchToBusy,
        SpawnSettles, Spawn, SpawnTooLate, SpawnFails, Aggregate, SetLimit, setting, Over, vars
  <2> DEFINE h == Head(chain)
  <2>2. /\ nextIndex' = nextIndex + 1 /\ item' = item /\ chain' = Tail(chain)
        /\ UNCHANGED <<freshQueue, queue>> /\ item[h] = "queued"
    BY <2>1 DEF Reserve, Dispatchable
  <2>3. /\ h \in Items /\ h \in Range(chain) /\ Range(Tail(chain)) = Range(chain) \ {h}
        /\ h \notin Range(freshQueue) /\ \A w \in Workers : h \notin Range(queue[w])
    BY <2>1, HeadOfChain DEF Reserve, ChainFree
  <2> HIDE DEF h
  <2>4. Served' = Served \cup {h} /\ h \notin Served
    BY <2>2, <2>3 DEF Served, InLine
  <2>5. Cardinality(Served') = Cardinality(Served) + 1
    BY <2>4, ServedFinite, FS_AddElement
  <2> QED
    BY <1>1, <2>2, <2>5, ServedFinite DEF IndexIsServed, IndexInv, IndexIsNew
<1>3. CASE nextIndex' = nextIndex
  <2>1. \A i \in Items : item[i] # "none" => item'[i] # "none"
    BY <1>0
    DEF Next, Push, Close, TurnEnds, WorkerSettles, FreshWorkerDone, WorkerIdles,
        WorkerContinues, WorkerDies, Chain, Skip, QueueFresh, Reserve, DispatchToIdle,
        DispatchToBusy, SpawnSettles, Spawn, SpawnTooLate, SpawnFails, Aggregate,
        SetLimit, setting, Over, vars, StartBatch, Terminal
  <2>2. ASSUME NEW i \in Items, item[i] # "none", InLine(i)'
        PROVE  InLine(i)
    <3>1. ASSUME NEW j \in Items, Push(j)
          PROVE  InLine(i)
      <4>1. /\ chain' = Append(chain, j) /\ item[j] = "none"
            /\ UNCHANGED <<freshQueue, queue>>
        BY <3>1 DEF Push
      <4>2. Range(chain') = Range(chain) \cup {j}
        BY <4>1, AppendToLine DEF Types
      <4> QED
        BY <2>2, <4>1, <4>2 DEF InLine
    <3>2. CASE Close
      <4>1. /\ Range(freshQueue') = {} /\ \A w \in Workers : Range(queue'[w]) = {}
            /\ chain' = chain
        BY <3>2, EmptyLine DEF Close
      <4> QED
        BY <2>2, <4>1 DEF InLine
    <3>3. ASSUME NEW w \in Workers, FreshWorkerDone(w), freshQueue # <<>>
          PROVE  InLine(i)
      <4>1. /\ Range(chain') = Range(chain) \cup {Head(freshQueue)}
            /\ Range(freshQueue') \subseteq Range(freshQueue)
            /\ Head(freshQueue) \in Range(freshQueue)
            /\ queue' = queue
        <5>1. /\ chain' = Append(chain, Head(freshQueue)) /\ freshQueue' = Tail(freshQueue)
              /\ queue' = queue
          BY <3>3 DEF FreshWorkerDone
        <5>2. /\ Head(freshQueue) \in Range(freshQueue)
              /\ Range(Tail(freshQueue)) = Range(freshQueue) \ {Head(freshQueue)}
          BY <3>3, HeadOfLine DEF Types, LinesApart
        <5>3. Head(freshQueue) \in Items
          BY <5>2, LineTypes
        <5>4. Range(Append(chain, Head(freshQueue))) = Range(chain) \cup {Head(freshQueue)}
          BY <5>3, AppendToLine DEF Types
        <5> QED
          BY <5>1, <5>2, <5>4
      <4> QED
        BY <2>2, <4>1 DEF InLine
    <3>4. ASSUME NEW w \in Workers, WorkerContinues(w)
          PROVE  InLine(i)
      <4>1. /\ chain' = chain /\ freshQueue' = freshQueue
            /\ Range(queue'[w]) = {} /\ \A v \in Workers : v # w => queue'[v] = queue[v]
        BY <3>4, EmptyLine DEF WorkerContinues, Types
      <4> QED
        BY <2>2, <4>1 DEF InLine
    <3>5. ASSUME NEW w \in Workers, WorkerDies(w)
          PROVE  InLine(i)
      <4>1. /\ chain' = chain \o queue[w] /\ freshQueue' = freshQueue
            /\ Range(queue'[w]) = {} /\ \A v \in Workers : v # w => queue'[v] = queue[v]
        BY <3>5, EmptyLine DEF WorkerDies, Requeue, Types
      <4>2. Range(chain \o queue[w]) = Range(chain) \cup Range(queue[w])
        BY LineTypes, JoinLines DEF Types
      <4> QED
        BY <2>2, <4>1, <4>2 DEF InLine
    <3>6. ASSUME Chain
          PROVE  InLine(i)
      <4>1. /\ chain # <<>> /\ chain' = Tail(chain)
        BY <3>6 DEF Chain, Skip, QueueFresh, Reserve, DispatchToIdle, DispatchToBusy, ChainFree
      <4>2. Head(chain) \in Items /\ Head(chain) \in Range(chain)
            /\ Range(Tail(chain)) = Range(chain) \ {Head(chain)}
        BY <4>1, HeadOfChain
      <4>3. Range(freshQueue') \subseteq Range(freshQueue) \cup {Head(chain)}
        <5>1. freshQueue' = freshQueue \/ freshQueue' = Append(freshQueue, Head(chain))
          BY <3>6 DEF Chain, Skip, QueueFresh, Reserve, DispatchToIdle, DispatchToBusy
        <5>2. Range(Append(freshQueue, Head(chain))) = Range(freshQueue) \cup {Head(chain)}
          BY <4>2, AppendToLine DEF Types
        <5> QED
          BY <5>1, <5>2
      <4>4. \A v \in Workers : Range(queue'[v]) \subseteq Range(queue[v]) \cup {Head(chain)}
        <5> SUFFICES ASSUME NEW v \in Workers
                     PROVE  Range(queue'[v]) \subseteq Range(queue[v]) \cup {Head(chain)}
          OBVIOUS
        <5>1. queue'[v] = queue[v] \/ queue'[v] = Append(queue[v], Head(chain))
          BY <3>6 DEF Chain, Skip, QueueFresh, Reserve, DispatchToIdle, DispatchToBusy, Types
        <5>2. Range(Append(queue[v], Head(chain))) = Range(queue[v]) \cup {Head(chain)}
          BY <4>2, LineTypes, AppendToLine
        <5> QED
          BY <5>1, <5>2
      <4> QED
        BY <2>2, <4>1, <4>2, <4>3, <4>4 DEF InLine
    <3>7. CASE UNCHANGED <<chain, freshQueue, queue>>
      BY <2>2, <3>7 DEF InLine
    <3> QED
      BY <3>1, <3>2, <3>3, <3>4, <3>5, <3>6, <3>7
      DEF Next, TurnEnds, WorkerSettles, FreshWorkerDone, WorkerIdles, SpawnSettles, Spawn,
          SpawnTooLate, SpawnFails, Aggregate, SetLimit, setting, Over, vars
  <2> QED
    BY <1>1, <1>3, <2>1, <2>2, StaysServed
<1> QED
  BY <1>2, <1>3

(* Type correctness, with as many workers as items at most. *)
THEOREM WorkPoolType == Spec => []TypeOK
  BY TypeInvGivesTypes, InitTypeInv, NextTypeInv, PTL DEF Spec
=============================================================================
