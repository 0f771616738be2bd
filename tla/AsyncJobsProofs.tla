-------------------------- MODULE AsyncJobsProofs ---------------------------
(***************************************************************************)
(* Theorems about the background jobs of a session, for any jobs, runs,    *)
(* conversations and retries.                                              *)
(***************************************************************************)
EXTENDS AsyncJobs, FiniteSetTheorems, WellFoundedInduction, TLAPS

-----------------------------------------------------------------------------
(* Folds.  Two functions that satisfy the equation of a fold agree: a      *)
(* least set on which they differ would not be least.                      *)

LEMMA FoldIsUnique ==
  ASSUME NEW S, IsFiniteSet(S), NEW f, NEW g, f[{}] = g[{}],
         \A s \in SUBSET S : s # {} =>
            \E x \in s : f[s \ {x}] = g[s \ {x}] => f[s] = g[s]
  PROVE  f[S] = g[S]
<1> DEFINE T == {Cardinality(s) : s \in {t \in SUBSET S : f[t] # g[t]}}
<1>1. \A s \in SUBSET S : IsFiniteSet(s) /\ Cardinality(s) \in Nat
  BY FS_Subset, FS_CardinalityType
<1>2. ASSUME T # {}
      PROVE  FALSE
  <2>1. T \in SUBSET Nat
    BY <1>1
  <2>2. PICK n \in T : \A k \in T : ~(<<k, n>> \in OpToRel(<, Nat))
    BY Zenon, <1>2, <2>1, WFMin, NatLessThanWellFounded
  <2>3. \A k \in T : ~(k < n)
    BY Zenon, <2>1, <2>2 DEF OpToRel
  <2>4. PICK s \in SUBSET S : f[s] # g[s] /\ n = Cardinality(s)
    OBVIOUS
  <2>5. s # {}
    BY <2>4
  <2>6. PICK x \in s : f[s \ {x}] = g[s \ {x}] => f[s] = g[s]
    BY <2>5
  <2>7. Cardinality(s \ {x}) = Cardinality(s) - 1
    BY <1>1, FS_RemoveElement
  <2>8. Cardinality(s \ {x}) < n /\ s \ {x} \in SUBSET S
    BY <1>1, <2>4, <2>7
  <2>9. f[s \ {x}] = g[s \ {x}]
    BY <2>3, <2>8
  <2> QED
    BY <2>4, <2>6, <2>9
<1> QED
  BY <1>2

-----------------------------------------------------------------------------
(* The operations of the manager, field by field.                          *)

Fields == {"row", "suppressed", "watched", "consumed", "deliveries", "loop"}

IsRec(m) == m = [f \in Fields |-> m[f]]

LEMMA ManagerIs ==
  ASSUME NEW m
  PROVE  m \in Managers <=>
           /\ IsRec(m) /\ m.row \in [Jobs -> Rows] /\ m.suppressed \subseteq Jobs
           /\ m.watched \subseteq Jobs /\ m.consumed \subseteq Jobs
           /\ m.deliveries \subseteq Deliveries /\ m.loop \in {"off", "on", "ending"}
BY DEF Managers, IsRec, Fields

LEMMA SameManager ==
  ASSUME NEW m, NEW n, IsRec(m), IsRec(n), m.row = n.row, m.suppressed = n.suppressed,
         m.watched = n.watched, m.consumed = n.consumed, m.deliveries = n.deliveries,
         m.loop = n.loop
  PROVE  m = n
BY DEF IsRec, Fields

LoopFor(loop, ds) == IF loop = "off" /\ \E d \in ds : d.st \in InManager THEN "on" ELSE loop

LEMMA EnsureIs ==
  ASSUME NEW m, IsRec(m)
  PROVE  /\ IsRec(EnsureLoop(m))
         /\ EnsureLoop(m).row = m.row /\ EnsureLoop(m).suppressed = m.suppressed
         /\ EnsureLoop(m).watched = m.watched /\ EnsureLoop(m).consumed = m.consumed
         /\ EnsureLoop(m).deliveries = m.deliveries
         /\ EnsureLoop(m).loop = LoopFor(m.loop, m.deliveries)
<1>1. Waiting(m) # {} <=> \E d \in m.deliveries : d.st \in InManager
  BY DEF Waiting
<1> QED
  BY <1>1 DEF EnsureLoop, LoopFor, IsRec, Fields

NewDelivery(m, j) == [job |-> j, run |-> m.row[j].run, born |-> m.row[j].born,
                      epoch |-> 0, st |-> "queued", tries |-> 0]

LEMMA EnqueueIs ==
  ASSUME NEW m, IsRec(m), NEW j
  PROVE  LET n == EnqueueDelivery(m, j) IN
         /\ IsRec(n) /\ n.row = m.row /\ n.suppressed = m.suppressed
         /\ n.watched = m.watched /\ n.consumed = m.consumed
         /\ n.deliveries = IF Suppressed(m, j) THEN m.deliveries
                           ELSE m.deliveries \cup {NewDelivery(m, j)}
         /\ Suppressed(m, j) => n.loop = m.loop
         /\ n.loop \in {m.loop, "on"}
<1> DEFINE k == [m EXCEPT !.deliveries = @ \cup {NewDelivery(m, j)}]
<1>1. /\ k.row = m.row /\ k.suppressed = m.suppressed /\ k.watched = m.watched
      /\ k.consumed = m.consumed /\ k.deliveries = m.deliveries \cup {NewDelivery(m, j)}
      /\ k.loop = m.loop
  BY DEF IsRec, Fields
<1>2. IsRec(k)
  BY DEF IsRec, Fields
<1>3. EnqueueDelivery(m, j) = IF Suppressed(m, j) THEN m ELSE EnsureLoop(k)
  BY DEF EnqueueDelivery, NewDelivery
<1> HIDE DEF k
<1>4. CASE Suppressed(m, j)
  BY <1>3, <1>4
<1>5. CASE ~Suppressed(m, j)
  <2>1. EnqueueDelivery(m, j) = EnsureLoop(k)
    BY <1>3, <1>5
  <2>2. /\ IsRec(EnsureLoop(k))
        /\ EnsureLoop(k).row = k.row /\ EnsureLoop(k).suppressed = k.suppressed
        /\ EnsureLoop(k).watched = k.watched /\ EnsureLoop(k).consumed = k.consumed
        /\ EnsureLoop(k).deliveries = k.deliveries
        /\ EnsureLoop(k).loop = LoopFor(k.loop, k.deliveries)
    BY <1>2, EnsureIs
  <2> QED
    BY <1>1, <1>5, <2>1, <2>2 DEF LoopFor
<1> QED
  BY <1>4, <1>5

LEMMA RegisterIs ==
  ASSUME NEW m, IsRec(m), NEW j \in Jobs, m.row \in [Jobs -> Rows], NEW e
  PROVE  LET n == RegisterJob(m, j, e) IN
         /\ IsRec(n)
         /\ n.row = [m.row EXCEPT ![j] = [status |-> "running", run |-> m.row[j].run + 1,
                                          born |-> e, busy |-> TRUE, timer |-> "off"]]
         /\ n.suppressed = m.suppressed \ {j} /\ n.consumed = m.consumed \ {j}
         /\ n.watched = m.watched /\ n.deliveries = m.deliveries /\ n.loop = m.loop
BY DEF RegisterJob, IsRec, Fields

LEMMA CancelIs ==
  ASSUME NEW m, IsRec(m), NEW js
  PROVE  LET n == CancelJobs(m, js) IN
         /\ IsRec(n)
         /\ n.row = [j \in Jobs |-> IF j \in js /\ m.row[j].status = "running"
                                    THEN [m.row[j] EXCEPT !.status = "cancelled"] ELSE m.row[j]]
         /\ n.suppressed = m.suppressed /\ n.consumed = m.consumed
         /\ n.watched = m.watched /\ n.deliveries = m.deliveries /\ n.loop = m.loop
BY DEF CancelJobs, IsRec, Fields

LEMMA AcknowledgeIs ==
  ASSUME NEW m, IsRec(m), NEW js
  PROVE  LET n == Acknowledge(m, js) IN
         /\ IsRec(n) /\ n.row = m.row /\ n.consumed = m.consumed
         /\ n.suppressed = m.suppressed \cup js
         /\ n.watched = m.watched /\ n.loop = m.loop
         /\ n.deliveries = {d \in m.deliveries :
               d.st \in InManager => d.job \notin m.suppressed \cup js \cup m.watched}
<1> DEFINE k == [m EXCEPT !.suppressed = @ \cup js]
<1>1. /\ IsRec(k) /\ k.row = m.row /\ k.suppressed = m.suppressed \cup js
      /\ k.watched = m.watched /\ k.consumed = m.consumed
      /\ k.deliveries = m.deliveries /\ k.loop = m.loop
  BY DEF IsRec, Fields
<1>2. \A j : Suppressed(k, j) <=> j \in m.suppressed \cup js \cup m.watched
  BY <1>1 DEF Suppressed
<1>3. Acknowledge(m, js) = [k EXCEPT !.deliveries = {d \in @ : d.st \in InManager => ~Suppressed(k, d.job)}]
  BY DEF Acknowledge
<1> HIDE DEF k
<1> QED
  BY <1>1, <1>2, <1>3 DEF IsRec, Fields

LEMMA ConsumeIs ==
  ASSUME NEW m, IsRec(m), NEW js
  PROVE  LET n     == Consume(m, js)
             newly == {j \in js \ m.consumed : HasResult(m, j)}
         IN
         /\ IsRec(n) /\ n.consumed = m.consumed \cup newly
         /\ n.row = [j \in Jobs |-> IF j \in newly /\ OfJob(m, j) = {}
                                    THEN [m.row[j] EXCEPT !.timer = "short"] ELSE m.row[j]]
         /\ n.suppressed = m.suppressed /\ n.watched = m.watched
         /\ n.deliveries = m.deliveries /\ n.loop = m.loop
BY DEF Consume, IsRec, Fields

(* A row that is evicted. *)
Gone(row) == [row EXCEPT !.status = "none", !.timer = "off"]

LEMMA EvictIs ==
  ASSUME NEW m, IsRec(m), NEW js
  PROVE  LET n == Evict(m, js) IN
         /\ IsRec(n)
         /\ n.row = [j \in Jobs |-> IF j \in js
                        THEN Gone(m.row[j]) ELSE m.row[j]]
         /\ n.suppressed = m.suppressed \ js /\ n.watched = m.watched \ js
         /\ n.consumed = m.consumed \ js /\ n.deliveries = m.deliveries /\ n.loop = m.loop
BY DEF Evict, IsRec, Fields, Gone

(* A row whose body has ended. *)
Done(row) == [row EXCEPT !.busy = FALSE, !.timer = "retention",
                         !.status = IF row.status = "cancelled" THEN "cancelled" ELSE "completed"]

LEMMA SettlesIs ==
  ASSUME NEW m, IsRec(m), NEW j \in Jobs, m.row \in [Jobs -> Rows]
  PROVE  LET n == BodySettles(m, j)
             silent == m.row[j].status = "cancelled" \/ Suppressed(m, j)
         IN
         /\ IsRec(n) /\ n.row = [m.row EXCEPT ![j] = Done(m.row[j])]
         /\ n.suppressed = m.suppressed /\ n.watched = m.watched /\ n.consumed = m.consumed
         /\ n.deliveries = IF silent THEN m.deliveries
                           ELSE m.deliveries \cup {NewDelivery(m, j)}
         /\ silent => n.loop = m.loop
         /\ n.loop \in {m.loop, "on"}
<1> DEFINE ended == [m EXCEPT !.row[j].busy = FALSE]
           done  == [ended EXCEPT !.row[j].status = "completed"]
<1>1. m.row[j] \in Rows
  OBVIOUS
<1>2. /\ IsRec(ended) /\ ended.row = [m.row EXCEPT ![j] = [m.row[j] EXCEPT !.busy = FALSE]]
      /\ ended.suppressed = m.suppressed /\ ended.watched = m.watched /\ ended.consumed = m.consumed
      /\ ended.deliveries = m.deliveries /\ ended.loop = m.loop
  BY DEF IsRec, Fields
<1> HIDE DEF ended
<1>3. CASE m.row[j].status = "cancelled"
  <2>1. BodySettles(m, j) = [ended EXCEPT !.row[j].timer = "retention"]
    BY <1>3 DEF BodySettles, ended
  <2>2. [ended EXCEPT !.row[j].timer = "retention"].row = [m.row EXCEPT ![j] = Done(m.row[j])]
    <3>1. /\ ended.row \in [Jobs -> Rows]
          /\ ended.row[j] = [m.row[j] EXCEPT !.busy = FALSE]
      BY <1>1, <1>2 DEF Rows
    <3>2. [ended EXCEPT !.row[j].timer = "retention"].row
             = [ended.row EXCEPT ![j] = [ended.row[j] EXCEPT !.timer = "retention"]]
      BY <1>2, <3>1 DEF IsRec, Fields
    <3>3. [ended.row[j] EXCEPT !.timer = "retention"] = Done(m.row[j])
      BY <1>1, <1>3, <3>1 DEF Done, Rows
    <3> QED
      BY <1>2, <3>1, <3>2, <3>3
  <2> QED
    BY <1>2, <1>3, <2>1, <2>2 DEF IsRec, Fields
<1>4. CASE m.row[j].status # "cancelled"
  <2>1. BodySettles(m, j) = [EnqueueDelivery(done, j) EXCEPT !.row[j].timer = "retention"]
    BY <1>4 DEF BodySettles, ended
  <2>2. /\ IsRec(done)
        /\ done.row = [m.row EXCEPT ![j] = [m.row[j] EXCEPT !.busy = FALSE, !.status = "completed"]]
        /\ done.suppressed = m.suppressed /\ done.watched = m.watched /\ done.consumed = m.consumed
        /\ done.deliveries = m.deliveries /\ done.loop = m.loop
    BY <1>1, <1>2 DEF IsRec, Fields, Rows
  <2> HIDE DEF done
  <2>3. (Suppressed(done, j) <=> Suppressed(m, j)) /\ NewDelivery(done, j) = NewDelivery(m, j)
    BY <1>1, <2>2 DEF Suppressed, NewDelivery, Rows
  <2> DEFINE q == EnqueueDelivery(done, j)
  <2>4. /\ IsRec(q) /\ q.row = done.row /\ q.suppressed = done.suppressed
        /\ q.watched = done.watched /\ q.consumed = done.consumed
        /\ q.deliveries = IF Suppressed(done, j) THEN done.deliveries
                          ELSE done.deliveries \cup {NewDelivery(done, j)}
        /\ Suppressed(done, j) => q.loop = done.loop
        /\ q.loop \in {done.loop, "on"}
    BY <2>2, EnqueueIs
  <2> HIDE DEF q
  <2>5. [q EXCEPT !.row[j].timer = "retention"].row = [m.row EXCEPT ![j] = Done(m.row[j])]
    <3>1. /\ q.row \in [Jobs -> Rows]
          /\ q.row[j] = [m.row[j] EXCEPT !.busy = FALSE, !.status = "completed"]
      <4>1. [m.row[j] EXCEPT !.busy = FALSE, !.status = "completed"] \in Rows
        BY <1>1 DEF Rows
      <4> QED
        BY <2>2, <2>4, <4>1
    <3>2. [q EXCEPT !.row[j].timer = "retention"].row
             = [q.row EXCEPT ![j] = [q.row[j] EXCEPT !.timer = "retention"]]
      BY <2>4, <3>1 DEF IsRec, Fields
    <3>3. [q.row[j] EXCEPT !.timer = "retention"] = Done(m.row[j])
      BY <1>1, <1>4, <3>1 DEF Done, Rows
    <3> QED
      BY <2>2, <2>4, <3>1, <3>2, <3>3
  <2>6. BodySettles(m, j) = [q EXCEPT !.row[j].timer = "retention"]
    BY <2>1 DEF q
  <2> QED
    BY <1>4, <2>2, <2>3, <2>4, <2>5, <2>6 DEF IsRec, Fields
<1> QED
  BY <1>3, <1>4

-----------------------------------------------------------------------------
(* The sink throws many deliveries, or returns from many.                  *)

ThrownBack(d) == [d EXCEPT !.st = "backoff", !.epoch = 0, !.tries = @ + 1]

Wanted(m, j) == ~Suppressed(m, j) /\ HasRow(m, j)

LEMMA SinkThrewIs ==
  ASSUME NEW m, IsRec(m), NEW d
  PROVE  LET n == SinkThrew(m, d) IN
         /\ IsRec(n) /\ n.row = m.row /\ n.suppressed = m.suppressed
         /\ n.watched = m.watched /\ n.consumed = m.consumed
         /\ n.deliveries = (m.deliveries \ {d}) \cup
                           (IF Wanted(m, d.job) THEN {ThrownBack(d)} ELSE {})
         /\ n.loop = LoopFor(m.loop, n.deliveries)
<1> DEFINE gone == [m EXCEPT !.deliveries = @ \ {d}]
           kept == IF Wanted(m, d.job)
                   THEN [gone EXCEPT !.deliveries = @ \cup {ThrownBack(d)}] ELSE gone
<1>1. SinkThrew(m, d) = EnsureLoop(kept)
  BY DEF SinkThrew, Wanted, ThrownBack
<1>2. /\ IsRec(kept) /\ kept.row = m.row /\ kept.suppressed = m.suppressed
      /\ kept.watched = m.watched /\ kept.consumed = m.consumed /\ kept.loop = m.loop
      /\ kept.deliveries = (m.deliveries \ {d}) \cup
                           (IF Wanted(m, d.job) THEN {ThrownBack(d)} ELSE {})
  <2>1. CASE Wanted(m, d.job)
    BY <2>1 DEF IsRec, Fields
  <2>2. CASE ~Wanted(m, d.job)
    BY <2>2 DEF IsRec, Fields
  <2> QED
    BY <2>1, <2>2
<1> HIDE DEF kept
<1>3. /\ IsRec(EnsureLoop(kept))
      /\ EnsureLoop(kept).row = kept.row /\ EnsureLoop(kept).suppressed = kept.suppressed
      /\ EnsureLoop(kept).watched = kept.watched /\ EnsureLoop(kept).consumed = kept.consumed
      /\ EnsureLoop(kept).deliveries = kept.deliveries
      /\ EnsureLoop(kept).loop = LoopFor(kept.loop, kept.deliveries)
  BY <1>2, EnsureIs
<1> QED
  BY <1>1, <1>2, <1>3

LEMMA SinkReturnedIs ==
  ASSUME NEW m, IsRec(m), NEW d, d.job \in Jobs, m.row \in [Jobs -> Rows]
  PROVE  LET n     == SinkReturned(m, d)
             fresh == HasResult(m, d.job) /\ d.job \notin m.consumed
         IN
         /\ IsRec(n) /\ n.suppressed = m.suppressed /\ n.watched = m.watched
         /\ n.consumed = m.consumed \cup (IF fresh THEN {d.job} ELSE {})
         /\ n.row = [j \in Jobs |->
               IF /\ j = d.job
                  /\ \/ j \in m.consumed /\ HasRow(m, j)
                     \/ fresh /\ OfJob(m, j) \ {d} = {}
               THEN [m.row[j] EXCEPT !.timer = "short"] ELSE m.row[j]]
         /\ n.deliveries = m.deliveries \ {d}
         /\ n.loop = LoopFor(m.loop, n.deliveries)
<1> DEFINE gone == [m EXCEPT !.deliveries = @ \ {d}]
           fresh == HasResult(m, d.job) /\ d.job \notin m.consumed
           row(j) == IF /\ j = d.job
                        /\ \/ j \in m.consumed /\ HasRow(m, j)
                           \/ fresh /\ OfJob(m, j) \ {d} = {}
                     THEN [m.row[j] EXCEPT !.timer = "short"] ELSE m.row[j]
           next == IF d.job \in m.consumed
                   THEN IF HasRow(m, d.job)
                        THEN [gone EXCEPT !.row[d.job].timer = "short"] ELSE gone
                   ELSE Consume(gone, {d.job})
<1>1. SinkReturned(m, d) = EnsureLoop(next)
  BY DEF SinkReturned
<1>2. /\ IsRec(gone) /\ gone.row = m.row /\ gone.suppressed = m.suppressed
      /\ gone.watched = m.watched /\ gone.consumed = m.consumed /\ gone.loop = m.loop
      /\ gone.deliveries = m.deliveries \ {d}
  BY DEF IsRec, Fields
<1>3. /\ IsRec(next) /\ next.suppressed = m.suppressed
      /\ next.watched = m.watched /\ next.loop = m.loop
      /\ next.deliveries = m.deliveries \ {d}
      /\ next.consumed = m.consumed \cup (IF fresh THEN {d.job} ELSE {})
      /\ next.row = [j \in Jobs |-> row(j)]
  <2> HIDE DEF gone
  <2>1. CASE d.job \in m.consumed
    <3>1. CASE HasRow(m, d.job)
      <4>1. next = [gone EXCEPT !.row[d.job].timer = "short"]
        BY <2>1, <3>1
      <4>2. [gone EXCEPT !.row[d.job].timer = "short"].row = [j \in Jobs |-> row(j)]
        BY <1>2, <2>1, <3>1 DEF IsRec, Fields
      <4> HIDE DEF next, row
      <4> QED
        BY <1>2, <2>1, <4>1, <4>2 DEF IsRec, Fields
    <3>2. CASE ~HasRow(m, d.job)
      <4>1. next = gone
        BY <2>1, <3>2
      <4>2. m.row = [j \in Jobs |-> row(j)]
        BY <2>1, <3>2
      <4> HIDE DEF next, row
      <4> QED
        BY <1>2, <2>1, <4>1, <4>2
    <3> QED
      BY <3>1, <3>2
  <2>2. CASE d.job \notin m.consumed
    <3>1. next = Consume(gone, {d.job})
      BY <2>2
    <3>2. OfJob(gone, d.job) = OfJob(m, d.job) \ {d}
      BY <1>2 DEF OfJob
    <3>3. HasResult(gone, d.job) <=> HasResult(m, d.job)
      BY <1>2 DEF HasResult
    <3> DEFINE c     == Consume(gone, {d.job})
               newly == {j \in {d.job} \ gone.consumed : HasResult(gone, j)}
    <3>4. /\ IsRec(c) /\ c.consumed = gone.consumed \cup newly
          /\ c.row = [j \in Jobs |-> IF j \in newly /\ OfJob(gone, j) = {}
                                    THEN [gone.row[j] EXCEPT !.timer = "short"] ELSE gone.row[j]]
          /\ c.suppressed = gone.suppressed /\ c.watched = gone.watched
          /\ c.deliveries = gone.deliveries /\ c.loop = gone.loop
      BY <1>2, ConsumeIs
    <3>5. newly = IF fresh THEN {d.job} ELSE {}
      BY <1>2, <2>2, <3>3
    <3>6. \A j : j = d.job => OfJob(gone, j) = OfJob(m, j) \ {d}
      BY <3>2
    <3> HIDE DEF c, newly, next, fresh
    <3>7. c.row = [j \in Jobs |-> row(j)]
      BY <1>2, <2>2, <3>4, <3>5, <3>6
    <3> QED
      BY <1>2, <3>1, <3>4, <3>5, <3>7 DEF c
  <2> QED
    BY <2>1, <2>2
<1> HIDE DEF next, row, fresh
<1>4. /\ IsRec(EnsureLoop(next))
      /\ EnsureLoop(next).row = next.row /\ EnsureLoop(next).suppressed = next.suppressed
      /\ EnsureLoop(next).watched = next.watched /\ EnsureLoop(next).consumed = next.consumed
      /\ EnsureLoop(next).deliveries = next.deliveries
      /\ EnsureLoop(next).loop = LoopFor(next.loop, next.deliveries)
  BY <1>3, EnsureIs
<1> QED
  BY <1>1, <1>3, <1>4 DEF row, fresh

(* A fold over ds is the value at ds of a function that satisfies its       *)
(* equation, if there is one.                                               *)
Throwing(g, m, ds) ==
  g = [s \in SUBSET ds |->
         IF s = {} THEN m ELSE LET d == CHOOSE x \in s : TRUE IN SinkThrew(g[s \ {d}], d)]

LEMMA ThrowFolds ==
  ASSUME NEW m, NEW ds, IsFiniteSet(ds), NEW f, Throwing(f, m, ds)
  PROVE  Throw(m, ds) = f[ds]
<1>1. Throwing(CHOOSE g : Throwing(g, m, ds), m, ds)
  OBVIOUS
<1>2. PICK g : Throwing(g, m, ds) /\ Throw(m, ds) = g[ds]
  BY <1>1 DEF Throw, FoldSet, MapThenFoldSet, Throwing
<1>3. f[{}] = m /\ g[{}] = m
  BY <1>2 DEF Throwing
<1>4. ASSUME NEW s \in SUBSET ds, s # {}
      PROVE  \E x \in s : f[s \ {x}] = g[s \ {x}] => f[s] = g[s]
  <2> DEFINE d == CHOOSE x \in s : TRUE
  <2>1. d \in s
    BY <1>4
  <2>2. f[s] = SinkThrew(f[s \ {d}], d) /\ g[s] = SinkThrew(g[s \ {d}], d)
    BY <1>2, <1>4 DEF Throwing
  <2> HIDE DEF d
  <2> QED
    BY <2>1, <2>2
<1>5. f[{}] = g[{}]
  BY <1>3
<1>6. \A s \in SUBSET ds : s # {} =>
        \E x \in s : f[s \ {x}] = g[s \ {x}] => f[s] = g[s]
  BY <1>4
<1>7. f[ds] = g[ds]
  BY <1>5, <1>6, FoldIsUnique
<1> QED
  BY <1>2, <1>7

(* What is left to deliver when the sink has thrown all of ds. *)
LeftAfterThrow(m, ds) ==
  (m.deliveries \ ds) \cup {ThrownBack(d) : d \in {e \in ds : Wanted(m, e.job)}}

ThrowAll(m, ds) ==
  IF ds = {} THEN m
  ELSE [m EXCEPT !.deliveries = LeftAfterThrow(m, ds),
                 !.loop = LoopFor(m.loop, LeftAfterThrow(m, ds))]

LEMMA ThrowAllFields ==
  ASSUME NEW m, IsRec(m), NEW ds
  PROVE  LET n == ThrowAll(m, ds) IN
         /\ IsRec(n) /\ n.row = m.row /\ n.suppressed = m.suppressed
         /\ n.watched = m.watched /\ n.consumed = m.consumed
         /\ n.deliveries = LeftAfterThrow(m, ds)
         /\ n.loop = IF ds = {} THEN m.loop ELSE LoopFor(m.loop, LeftAfterThrow(m, ds))
<1>1. CASE ds = {}
  <2>1. LeftAfterThrow(m, ds) = m.deliveries
    BY <1>1 DEF LeftAfterThrow
  <2> QED
    BY <1>1, <2>1 DEF ThrowAll
<1>2. CASE ds # {}
  BY <1>2 DEF ThrowAll, IsRec, Fields
<1> QED
  BY <1>1, <1>2

InSink(ds) == \A d \in ds : d.st \in {"parked", "pulled"} /\ ThrownBack(d).st = "backoff"

LEMMA ThrowStep ==
  ASSUME NEW m, IsRec(m), NEW s, NEW d \in s, InSink(s)
  PROVE  ThrowAll(m, s) = SinkThrew(ThrowAll(m, s \ {d}), d)
<1> DEFINE x == ThrowAll(m, s \ {d})
           n == ThrowAll(m, s)
           t == SinkThrew(x, d)
           left == LeftAfterThrow(m, s)
<1>1. /\ IsRec(x) /\ x.row = m.row /\ x.suppressed = m.suppressed
      /\ x.watched = m.watched /\ x.consumed = m.consumed
      /\ x.deliveries = LeftAfterThrow(m, s \ {d})
      /\ x.loop = IF s \ {d} = {} THEN m.loop ELSE LoopFor(m.loop, LeftAfterThrow(m, s \ {d}))
  BY ThrowAllFields
<1>2. /\ IsRec(n) /\ n.row = m.row /\ n.suppressed = m.suppressed
      /\ n.watched = m.watched /\ n.consumed = m.consumed
      /\ n.deliveries = left
      /\ n.loop = IF s = {} THEN m.loop ELSE LoopFor(m.loop, left)
  BY ThrowAllFields
<1> HIDE DEF x, n, left
<1>3. /\ IsRec(t) /\ t.row = x.row /\ t.suppressed = x.suppressed
      /\ t.watched = x.watched /\ t.consumed = x.consumed
      /\ t.deliveries = (x.deliveries \ {d}) \cup
                        (IF Wanted(x, d.job) THEN {ThrownBack(d)} ELSE {})
      /\ t.loop = LoopFor(x.loop, t.deliveries)
  BY <1>1, SinkThrewIs
<1> HIDE DEF t
<1>4. Wanted(x, d.job) <=> Wanted(m, d.job)
  BY <1>1 DEF Wanted, Suppressed, HasRow
<1>5. \A e \in s : ThrownBack(e) # d
  BY DEF InSink
<1>6. t.deliveries = left
  BY <1>1, <1>3, <1>4, <1>5 DEF LeftAfterThrow, left
<1>7. \A e \in LeftAfterThrow(m, s \ {d}) : e.st \in InManager => e \in left
  BY DEF LeftAfterThrow, left, InSink, InManager
<1>8. t.loop = n.loop
  BY <1>1, <1>2, <1>3, <1>6, <1>7 DEF LoopFor
<1>9. t = n
  BY <1>1, <1>2, <1>3, <1>6, <1>8, SameManager
<1> QED
  BY <1>9 DEF x, n, t

LEMMA ThrowIs ==
  ASSUME NEW m, IsRec(m), NEW ds, IsFiniteSet(ds), InSink(ds)
  PROVE  Throw(m, ds) = ThrowAll(m, ds)
<1> DEFINE f == [s \in SUBSET ds |-> ThrowAll(m, s)]
<1>1. ThrowAll(m, {}) = m
  BY DEF ThrowAll
<1>2. ASSUME NEW s \in SUBSET ds, s # {}
      PROVE  f[s] = LET d == CHOOSE x \in s : TRUE IN SinkThrew(f[s \ {d}], d)
  <2> DEFINE d == CHOOSE x \in s : TRUE
  <2>1. d \in s
    BY <1>2
  <2>2. InSink(s)
    BY DEF InSink
  <2>3. s \ {d} \in SUBSET ds
    OBVIOUS
  <2> HIDE DEF d
  <2>4. ThrowAll(m, s) = SinkThrew(ThrowAll(m, s \ {d}), d)
    BY <2>1, <2>2, ThrowStep
  <2> QED
    BY <2>3, <2>4 DEF d
<1>3. Throwing(f, m, ds)
  <2>1. f[{}] = m
    BY <1>1
  <2>2. \A s \in SUBSET ds :
          f[s] = IF s = {} THEN m ELSE LET d == CHOOSE x \in s : TRUE IN SinkThrew(f[s \ {d}], d)
    BY <1>2, <2>1
  <2>3. f = [s \in SUBSET ds |-> f[s]]
    OBVIOUS
  <2> HIDE DEF f
  <2> QED
    BY <2>2, <2>3 DEF Throwing
<1>4. Throw(m, ds) = f[ds]
  <2> HIDE DEF f
  <2> QED
    BY <1>3, ThrowFolds
<1> QED
  BY <1>4

Returning(g, m, ds) ==
  g = [s \in SUBSET ds |->
         IF s = {} THEN m ELSE LET d == CHOOSE x \in s : TRUE IN SinkReturned(g[s \ {d}], d)]

LEMMA ReturnFolds ==
  ASSUME NEW m, NEW ds, IsFiniteSet(ds), NEW f, Returning(f, m, ds)
  PROVE  Return(m, ds) = f[ds]
<1>1. Returning(CHOOSE g : Returning(g, m, ds), m, ds)
  OBVIOUS
<1>2. PICK g : Returning(g, m, ds) /\ Return(m, ds) = g[ds]
  BY <1>1 DEF Return, FoldSet, MapThenFoldSet, Returning
<1>3. f[{}] = m /\ g[{}] = m
  BY <1>2 DEF Returning
<1>4. ASSUME NEW s \in SUBSET ds, s # {}
      PROVE  \E x \in s : f[s \ {x}] = g[s \ {x}] => f[s] = g[s]
  <2> DEFINE d == CHOOSE x \in s : TRUE
  <2>1. d \in s
    BY <1>4
  <2>2. f[s] = SinkReturned(f[s \ {d}], d) /\ g[s] = SinkReturned(g[s \ {d}], d)
    BY <1>2, <1>4 DEF Returning
  <2> HIDE DEF d
  <2> QED
    BY <2>1, <2>2
<1>5. f[{}] = g[{}]
  BY <1>3
<1>6. \A s \in SUBSET ds : s # {} =>
        \E x \in s : f[s \ {x}] = g[s \ {x}] => f[s] = g[s]
  BY <1>4
<1>7. f[ds] = g[ds]
  BY <1>5, <1>6, FoldIsUnique
<1> QED
  BY <1>2, <1>7

(* The ids whose result the return of the sink consumes. *)
ShownBy(m, ds) == {j \in Jobs : HasResult(m, j) /\ \E d \in ds : d.job = j}

(* The rows it puts on the short timer. *)
Hastened(m, ds, j) ==
  /\ HasRow(m, j)
  /\ \E d \in ds : d.job = j
  /\ \/ j \in m.consumed
     \/ /\ HasResult(m, j)
        /\ \/ OfJob(m, j) \ ds = {}
           \/ \E d, e \in ds : d # e /\ d.job = j /\ e.job = j

RowsAfterReturn(m, ds) ==
  [j \in Jobs |-> IF Hastened(m, ds, j) THEN [m.row[j] EXCEPT !.timer = "short"] ELSE m.row[j]]

ReturnAll(m, ds) ==
  IF ds = {} THEN m
  ELSE [m EXCEPT !.deliveries = @ \ ds, !.consumed = @ \cup ShownBy(m, ds),
                 !.row = RowsAfterReturn(m, ds),
                 !.loop = LoopFor(m.loop, m.deliveries \ ds)]

LEMMA ReturnAllFields ==
  ASSUME NEW m, IsRec(m), m.row \in [Jobs -> Rows], NEW ds
  PROVE  LET n == ReturnAll(m, ds) IN
         /\ IsRec(n) /\ n.suppressed = m.suppressed /\ n.watched = m.watched
         /\ n.row = RowsAfterReturn(m, ds) /\ n.consumed = m.consumed \cup ShownBy(m, ds)
         /\ n.deliveries = m.deliveries \ ds
         /\ n.loop = IF ds = {} THEN m.loop ELSE LoopFor(m.loop, m.deliveries \ ds)
<1>1. CASE ds = {}
  <2>1. RowsAfterReturn(m, ds) = m.row /\ ShownBy(m, ds) = {}
    BY <1>1 DEF RowsAfterReturn, ShownBy, Hastened
  <2> QED
    BY <1>1, <2>1 DEF ReturnAll
<1>2. CASE ds # {}
  BY <1>2 DEF ReturnAll, IsRec, Fields
<1> QED
  BY <1>1, <1>2

InHand(ds) == \A d \in ds : d.st \in InSession /\ d.job \in Jobs

LEMMA ReturnStep ==
  ASSUME NEW m, IsRec(m), m.row \in [Jobs -> Rows], NEW s, NEW d \in s, InHand(s),
         s \subseteq m.deliveries
  PROVE  ReturnAll(m, s) = SinkReturned(ReturnAll(m, s \ {d}), d)
<1> DEFINE r == s \ {d}
           x == ReturnAll(m, r)
           n == ReturnAll(m, s)
           t == SinkReturned(x, d)
           fresh == HasResult(x, d.job) /\ d.job \notin x.consumed
<1>1. /\ IsRec(x) /\ x.suppressed = m.suppressed /\ x.watched = m.watched
      /\ x.row = RowsAfterReturn(m, r) /\ x.consumed = m.consumed \cup ShownBy(m, r)
      /\ x.deliveries = m.deliveries \ r
      /\ x.loop = IF r = {} THEN m.loop ELSE LoopFor(m.loop, m.deliveries \ r)
  <2> HIDE DEF r
  <2> QED
    BY ReturnAllFields
<1>2. /\ IsRec(n) /\ n.suppressed = m.suppressed /\ n.watched = m.watched
      /\ n.row = RowsAfterReturn(m, s) /\ n.consumed = m.consumed \cup ShownBy(m, s)
      /\ n.deliveries = m.deliveries \ s
      /\ n.loop = IF s = {} THEN m.loop ELSE LoopFor(m.loop, m.deliveries \ s)
  BY ReturnAllFields
<1> HIDE DEF x, n
<1>3. d.job \in Jobs /\ x.row \in [Jobs -> Rows]
  <2>1. ASSUME NEW j \in Jobs
        PROVE  RowsAfterReturn(m, r)[j] \in Rows
    <3>1. m.row[j] \in Rows /\ [m.row[j] EXCEPT !.timer = "short"] \in Rows
      BY DEF Rows
    <3> QED
      BY <3>1 DEF RowsAfterReturn
  <2> QED
    BY <1>1, <2>1 DEF InHand, RowsAfterReturn
<1>4. /\ IsRec(t) /\ t.suppressed = x.suppressed /\ t.watched = x.watched
      /\ t.consumed = x.consumed \cup (IF fresh THEN {d.job} ELSE {})
      /\ t.row = [j \in Jobs |->
            IF /\ j = d.job
               /\ \/ j \in x.consumed /\ HasRow(x, j)
                  \/ fresh /\ OfJob(x, j) \ {d} = {}
            THEN [x.row[j] EXCEPT !.timer = "short"] ELSE x.row[j]]
      /\ t.deliveries = x.deliveries \ {d}
      /\ t.loop = LoopFor(x.loop, t.deliveries)
  BY <1>1, <1>3, SinkReturnedIs
<1> HIDE DEF t
<1>5. t.deliveries = m.deliveries \ s
  BY <1>1, <1>4
<1>6. t.loop = n.loop
  BY <1>1, <1>2, <1>4, <1>5 DEF LoopFor, InHand, InSession, InManager
<1>7. \A j \in Jobs : (HasRow(x, j) <=> HasRow(m, j)) /\ (HasResult(x, j) <=> HasResult(m, j))
  <2> TAKE j \in Jobs
  <2>1. x.row[j].status = m.row[j].status /\ x.row[j].busy = m.row[j].busy
    BY <1>1 DEF RowsAfterReturn, Rows
  <2> QED
    BY <2>1 DEF HasRow, HasResult
<1>8. t.consumed = m.consumed \cup ShownBy(m, s)
  BY <1>1, <1>3, <1>4, <1>7 DEF ShownBy
<1>9. t.row = RowsAfterReturn(m, s)
  <2>1. ASSUME NEW j \in Jobs
        PROVE  t.row[j] = RowsAfterReturn(m, s)[j]
    <3>1. x.row[j] = IF Hastened(m, r, j) THEN [m.row[j] EXCEPT !.timer = "short"] ELSE m.row[j]
      BY <1>1 DEF RowsAfterReturn
    <3>2. CASE j # d.job
      <4>1. Hastened(m, r, j) <=> Hastened(m, s, j)
        <5>1. OfJob(m, j) \ r = OfJob(m, j) \ s
          BY <3>2 DEF OfJob
        <5> QED
          BY <3>2, <5>1 DEF Hastened
      <4> QED
        BY <1>4, <3>1, <3>2, <4>1 DEF RowsAfterReturn
    <3>3. CASE j = d.job
      <4> DEFINE now == \/ j \in x.consumed /\ HasRow(x, j)
                        \/ fresh /\ OfJob(x, j) \ {d} = {}
      <4>1. OfJob(x, j) \ {d} = OfJob(m, j) \ s
        BY <1>1 DEF OfJob
      <4>2. HasResult(m, j) => HasRow(m, j)
        BY DEF HasResult, HasRow
      <4>3. j \in x.consumed <=> j \in m.consumed \/ (HasResult(m, j) /\ \E e \in r : e.job = j)
        BY <1>1 DEF ShownBy
      <4>4. Hastened(m, s, j) <=> now
        BY <1>7, <3>3, <4>1, <4>2, <4>3 DEF Hastened
      <4>5. Hastened(m, r, j) => now
        BY <1>7, <3>3, <4>2, <4>3 DEF Hastened
      <4>6. t.row[j] = IF now THEN [x.row[j] EXCEPT !.timer = "short"] ELSE x.row[j]
        BY <1>4, <3>3
      <4>7. [x.row[j] EXCEPT !.timer = "short"] = [m.row[j] EXCEPT !.timer = "short"]
        BY <3>1 DEF Rows
      <4> HIDE DEF now
      <4> QED
        BY <3>1, <4>4, <4>5, <4>6, <4>7 DEF RowsAfterReturn
    <3> QED
      BY <3>2, <3>3
  <2> QED
    BY <1>4, <2>1 DEF RowsAfterReturn
<1>10. t = n
  BY <1>1, <1>2, <1>4, <1>5, <1>6, <1>8, <1>9, SameManager
<1> QED
  BY <1>10 DEF x, n, t

LEMMA ReturnIs ==
  ASSUME NEW m, IsRec(m), m.row \in [Jobs -> Rows], NEW ds, IsFiniteSet(ds), InHand(ds),
         ds \subseteq m.deliveries
  PROVE  Return(m, ds) = ReturnAll(m, ds)
<1> DEFINE f == [s \in SUBSET ds |-> ReturnAll(m, s)]
<1>1. ReturnAll(m, {}) = m
  BY DEF ReturnAll
<1>2. ASSUME NEW s \in SUBSET ds, s # {}
      PROVE  f[s] = LET d == CHOOSE x \in s : TRUE IN SinkReturned(f[s \ {d}], d)
  <2> DEFINE d == CHOOSE x \in s : TRUE
  <2>1. d \in s
    BY <1>2
  <2>2. InHand(s) /\ s \subseteq m.deliveries
    BY DEF InHand
  <2>3. s \ {d} \in SUBSET ds
    OBVIOUS
  <2> HIDE DEF d
  <2>4. ReturnAll(m, s) = SinkReturned(ReturnAll(m, s \ {d}), d)
    BY <2>1, <2>2, ReturnStep
  <2> QED
    BY <2>3, <2>4 DEF d
<1>3. Returning(f, m, ds)
  <2>1. f[{}] = m
    BY <1>1
  <2>2. \A s \in SUBSET ds :
          f[s] = IF s = {} THEN m ELSE LET d == CHOOSE x \in s : TRUE IN SinkReturned(f[s \ {d}], d)
    BY <1>2, <2>1
  <2>3. f = [s \in SUBSET ds |-> f[s]]
    OBVIOUS
  <2> HIDE DEF f
  <2> QED
    BY <2>2, <2>3 DEF Returning
<1>4. Return(m, ds) = f[ds]
  <2> HIDE DEF f
  <2> QED
    BY <1>3, ReturnFolds
<1> QED
  BY <1>4

-----------------------------------------------------------------------------
(* Jobs that a reader suppresses settle in a photo finish.                 *)

LEMMA DoneTyped ==
  ASSUME NEW row \in Rows
  PROVE  /\ Done(row) \in Rows /\ ~Done(row).busy
         /\ Done(row).timer = "retention" /\ Done(row).run = row.run /\ Done(row).born = row.born
         /\ Done(row).status = IF row.status = "cancelled" THEN "cancelled" ELSE "completed"
BY DEF Done, Rows

Settle(m, js) == FoldSet(LAMBDA j, acc : BodySettles(acc, j), m, js)

Settling(g, m, js) ==
  g = [s \in SUBSET js |->
         IF s = {} THEN m ELSE LET j == CHOOSE x \in s : TRUE IN BodySettles(g[s \ {j}], j)]

LEMMA SettleFolds ==
  ASSUME NEW m, NEW js, IsFiniteSet(js), NEW f, Settling(f, m, js)
  PROVE  Settle(m, js) = f[js]
<1>1. Settling(CHOOSE g : Settling(g, m, js), m, js)
  OBVIOUS
<1>2. PICK g : Settling(g, m, js) /\ Settle(m, js) = g[js]
  BY <1>1 DEF Settle, FoldSet, MapThenFoldSet, Settling
<1>3. f[{}] = m /\ g[{}] = m
  BY <1>2 DEF Settling
<1>4. ASSUME NEW s \in SUBSET js, s # {}
      PROVE  \E x \in s : f[s \ {x}] = g[s \ {x}] => f[s] = g[s]
  <2> DEFINE d == CHOOSE x \in s : TRUE
  <2>1. d \in s
    BY <1>4
  <2>2. f[s] = BodySettles(f[s \ {d}], d) /\ g[s] = BodySettles(g[s \ {d}], d)
    BY <1>2, <1>4 DEF Settling
  <2> HIDE DEF d
  <2> QED
    BY <2>1, <2>2
<1>5. f[{}] = g[{}]
  BY <1>3
<1>6. \A s \in SUBSET js : s # {} =>
        \E x \in s : f[s \ {x}] = g[s \ {x}] => f[s] = g[s]
  BY <1>4
<1>7. f[js] = g[js]
  BY <1>5, <1>6, FoldIsUnique
<1> QED
  BY <1>2, <1>7

SettleAll(m, js) ==
  [m EXCEPT !.row = [j \in Jobs |-> IF j \in js THEN Done(m.row[j]) ELSE m.row[j]]]

LEMMA SettleAllFields ==
  ASSUME NEW m, IsRec(m), NEW js
  PROVE  LET n == SettleAll(m, js) IN
         /\ IsRec(n) /\ n.suppressed = m.suppressed /\ n.watched = m.watched
         /\ n.row = [j \in Jobs |-> IF j \in js THEN Done(m.row[j]) ELSE m.row[j]]
         /\ n.consumed = m.consumed /\ n.deliveries = m.deliveries /\ n.loop = m.loop
BY DEF SettleAll, IsRec, Fields

LEMMA SettleStep ==
  ASSUME NEW m, IsRec(m), m.row \in [Jobs -> Rows], NEW s \in SUBSET Jobs, NEW j \in s,
         Suppressed(m, j)
  PROVE  SettleAll(m, s) = BodySettles(SettleAll(m, s \ {j}), j)
<1> DEFINE r == s \ {j}
           x == SettleAll(m, r)
           n == SettleAll(m, s)
           t == BodySettles(x, j)
           silent == x.row[j].status = "cancelled" \/ Suppressed(x, j)
<1>1. /\ IsRec(x) /\ x.suppressed = m.suppressed /\ x.watched = m.watched
      /\ x.row = [k \in Jobs |-> IF k \in r THEN Done(m.row[k]) ELSE m.row[k]]
      /\ x.consumed = m.consumed /\ x.deliveries = m.deliveries /\ x.loop = m.loop
  <2> HIDE DEF r
  <2> QED
    BY SettleAllFields
<1>2. /\ IsRec(n) /\ n.suppressed = m.suppressed /\ n.watched = m.watched
      /\ n.row = [k \in Jobs |-> IF k \in s THEN Done(m.row[k]) ELSE m.row[k]]
      /\ n.consumed = m.consumed /\ n.deliveries = m.deliveries /\ n.loop = m.loop
  BY SettleAllFields
<1> HIDE DEF x, n
<1>3. x.row \in [Jobs -> Rows] /\ silent
  <2>1. \A k \in Jobs : Done(m.row[k]) \in Rows
    BY DoneTyped
  <2> QED
    BY <1>1, <2>1 DEF Suppressed
<1>4. /\ IsRec(t) /\ t.row = [x.row EXCEPT ![j] = Done(x.row[j])]
      /\ t.suppressed = x.suppressed /\ t.watched = x.watched /\ t.consumed = x.consumed
      /\ t.deliveries = (IF silent THEN x.deliveries ELSE x.deliveries \cup {NewDelivery(x, j)})
      /\ silent => t.loop = x.loop
  BY <1>1, <1>3, SettlesIs
<1> HIDE DEF t, silent
<1>5. t.row = n.row
  BY <1>1, <1>2, <1>3, <1>4
<1>6. t = n
  BY <1>1, <1>2, <1>3, <1>4, <1>5, SameManager
<1> QED
  BY <1>6 DEF x, n, t

LEMMA SettleIs ==
  ASSUME NEW m, IsRec(m), m.row \in [Jobs -> Rows], NEW js \in SUBSET Jobs, IsFiniteSet(js),
         \A j \in js : Suppressed(m, j)
  PROVE  Settle(m, js) = SettleAll(m, js)
<1> DEFINE f == [s \in SUBSET js |-> SettleAll(m, s)]
<1>1. SettleAll(m, {}) = m
  <2>1. [j \in Jobs |-> IF j \in {} THEN Done(m.row[j]) ELSE m.row[j]] = m.row
    OBVIOUS
  <2> QED
    BY <2>1 DEF SettleAll, IsRec, Fields
<1>2. ASSUME NEW s \in SUBSET js, s # {}
      PROVE  f[s] = LET d == CHOOSE x \in s : TRUE IN BodySettles(f[s \ {d}], d)
  <2> DEFINE d == CHOOSE x \in s : TRUE
  <2>1. d \in s
    BY <1>2
  <2>2. s \in SUBSET Jobs /\ Suppressed(m, d)
    BY <2>1
  <2>3. s \ {d} \in SUBSET js
    OBVIOUS
  <2> HIDE DEF d
  <2>4. SettleAll(m, s) = BodySettles(SettleAll(m, s \ {d}), d)
    BY <2>1, <2>2, SettleStep
  <2> QED
    BY <2>3, <2>4 DEF d
<1>3. Settling(f, m, js)
  <2>1. f[{}] = m
    BY <1>1
  <2>2. \A s \in SUBSET js :
          f[s] = IF s = {} THEN m ELSE LET d == CHOOSE x \in s : TRUE IN BodySettles(f[s \ {d}], d)
    BY <1>2, <2>1
  <2>3. f = [s \in SUBSET js |-> f[s]]
    OBVIOUS
  <2> HIDE DEF f
  <2> QED
    BY <2>2, <2>3 DEF Settling
<1>4. Settle(m, js) = f[js]
  <2> HIDE DEF f
  <2> QED
    BY <1>3, SettleFolds
<1> QED
  BY <1>4

(* The rows after the jobs of late have settled. *)
RowsDone(m, late) == [j \in Jobs |-> IF j \in late THEN Done(m.row[j]) ELSE m.row[j]]

LEMMA PhotoFinishIs ==
  ASSUME NEW m, IsRec(m), m.row \in [Jobs -> Rows], NEW js \in SUBSET Jobs, IsFiniteSet(Jobs),
         \A j \in js : Suppressed(m, j), NEW n \in PhotoFinishes(m, js)
  PROVE  \E late \in SUBSET {j \in js : m.row[j].busy} :
            /\ IsRec(n) /\ n.suppressed = m.suppressed /\ n.watched = m.watched
            /\ n.row = RowsDone(m, late)
            /\ n.consumed = m.consumed /\ n.deliveries = m.deliveries /\ n.loop = m.loop
<1>1. PICK late \in SUBSET {j \in js : m.row[j].busy} : n = Settle(m, late)
  BY Zenon DEF PhotoFinishes, Settle
<1>2. IsFiniteSet(late) /\ late \in SUBSET Jobs
  BY FS_Subset
<1>3. n = SettleAll(m, late)
  BY <1>1, <1>2, SettleIs
<1> QED
  BY <1>3, SettleAllFields DEF RowsDone

-----------------------------------------------------------------------------
(* What holds of the manager by itself, and every operation keeps.         *)

Unacknowledged(m) ==
  \A d \in m.deliveries : d.st \in InManager => d.job \notin m.suppressed

RowsOK(m) ==
  \A j \in Jobs :
    /\ HasRow(m, j) => m.row[j].run > 0 /\ m.row[j].born > 0
    /\ m.row[j].busy => /\ m.row[j].status \in {"running", "cancelled"}
                        /\ m.row[j].timer = "off" /\ j \notin m.consumed
    /\ m.row[j].status = "running" => m.row[j].busy

ManagerOK(m) ==
  m \in Managers /\ IsFiniteSet(m.deliveries) /\ Unacknowledged(m) /\ RowsOK(m)

LEMMA DeliveryIs ==
  ASSUME NEW d \in Deliveries
  PROVE  /\ d.job \in Jobs /\ d.run \in Runs /\ d.born \in Epochs /\ d.tries \in 0..MaxTries
         /\ d.st \in InManager \cup InSession
         /\ d.st \in InManager <=> d.st \notin InSession
         /\ d.st \in InManager => d.epoch = 0
         /\ d.st \in InSession => d.epoch \in Epochs
BY DEF Deliveries, InManager, InSession

LEMMA ThrownBackIs ==
  ASSUME NEW d \in Deliveries
  PROVE  LET b == ThrownBack(d) IN
         /\ b.job = d.job /\ b.run = d.run /\ b.born = d.born /\ b.st = "backoff" /\ b.epoch = 0
         /\ d.tries < MaxTries => b \in Deliveries
<1>1. MaxTries \in Nat
  BY JobManagerAssumption
<1>2. d.tries \in 0..MaxTries /\ d.job \in Jobs /\ d.run \in Runs /\ d.born \in Epochs
  BY DeliveryIs
<1>3. d \in [job : Jobs, run : Runs, born : Epochs, tries : 0..MaxTries, epoch : {0}, st : InManager]
        \/ d \in [job : Jobs, run : Runs, born : Epochs, tries : 0..MaxTries, epoch : Epochs, st : InSession]
  BY DEF Deliveries
<1>4. /\ ThrownBack(d).job = d.job /\ ThrownBack(d).run = d.run /\ ThrownBack(d).born = d.born
      /\ ThrownBack(d).st = "backoff" /\ ThrownBack(d).epoch = 0
  BY <1>3 DEF ThrownBack
<1>5. ASSUME d.tries < MaxTries
      PROVE  ThrownBack(d) \in Deliveries
  <2>1. d.tries + 1 \in 0..MaxTries
    BY <1>1, <1>2, <1>5
  <2>2. ThrownBack(d) \in [job : Jobs, run : Runs, born : Epochs, tries : 0..MaxTries,
                           epoch : {0}, st : InManager]
    BY <1>3, <2>1 DEF ThrownBack, InManager
  <2> QED
    BY <2>2 DEF Deliveries
<1> QED
  BY <1>4, <1>5

LEMMA NewDeliveryIs ==
  ASSUME NEW m, m.row \in [Jobs -> Rows], NEW j \in Jobs, m.row[j].run > 0, m.row[j].born > 0
  PROVE  /\ NewDelivery(m, j) \in Deliveries /\ NewDelivery(m, j).st = "queued"
         /\ NewDelivery(m, j).job = j /\ NewDelivery(m, j).run = m.row[j].run
         /\ NewDelivery(m, j).born = m.row[j].born /\ NewDelivery(m, j).epoch = 0
<1>1. MaxTries \in Nat /\ MaxRuns \in Nat /\ MaxSessions \in Nat
  BY JobManagerAssumption
<1>2. m.row[j].run \in Runs /\ m.row[j].born \in Epochs
  BY <1>1 DEF Rows, Runs, Epochs
<1>3. NewDelivery(m, j) \in [job : Jobs, run : Runs, born : Epochs, tries : 0..MaxTries,
                             epoch : {0}, st : InManager]
  BY <1>1, <1>2 DEF NewDelivery, InManager
<1> QED
  BY <1>3 DEF Deliveries, NewDelivery

(* The loop hands a delivery to the sink. *)
Handed(d, e) == [d EXCEPT !.st = "formatting", !.epoch = e]

LEMMA HandedIs ==
  ASSUME NEW d \in Deliveries, NEW e \in Epochs
  PROVE  LET h == Handed(d, e) IN
         /\ h \in Deliveries
         /\ h.job = d.job /\ h.run = d.run /\ h.born = d.born /\ h.st = "formatting" /\ h.epoch = e
BY DEF Handed, Deliveries, InManager, InSession

(* A delivery moves on within the sink, or to the queue. *)
LEMMA MovedIs ==
  ASSUME NEW d \in Deliveries, NEW st
  PROVE  LET n == [d EXCEPT !.st = st] IN
         /\ st \in InSession /\ d.st \in InSession => n \in Deliveries
         /\ st \in InManager /\ d.st \in InManager => n \in Deliveries
         /\ n.job = d.job /\ n.run = d.run /\ n.born = d.born /\ n.st = st /\ n.epoch = d.epoch
BY DEF Deliveries, InManager, InSession

LEMMA NewManagerOK == ManagerOK(NewManager)
<1>1. IsRec(NewManager)
  BY DEF NewManager, IsRec, Fields
<1>2. MaxRuns \in Nat /\ MaxSessions \in Nat
  BY JobManagerAssumption
<1>3. NewManager.row \in [Jobs -> Rows]
  BY <1>2 DEF NewManager, Rows
<1>4. /\ NewManager.suppressed = {} /\ NewManager.watched = {} /\ NewManager.consumed = {}
      /\ NewManager.deliveries = {} /\ NewManager.loop = "off"
  BY DEF NewManager
<1>5. NewManager \in Managers
  BY <1>1, <1>3, <1>4, ManagerIs
<1>6. RowsOK(NewManager)
  BY DEF RowsOK, HasRow, NewManager
<1>7. IsFiniteSet(NewManager.deliveries)
  BY <1>4, FS_EmptySet
<1> QED
  BY <1>4, <1>5, <1>6, <1>7 DEF ManagerOK, Unacknowledged

LEMMA RegisterOK ==
  ASSUME NEW m, ManagerOK(m), NEW j \in Jobs, NEW e \in Epochs, m.row[j].run < MaxRuns
  PROVE  ManagerOK(RegisterJob(m, j, e))
<1> DEFINE n == RegisterJob(m, j, e)
           new == [status |-> "running", run |-> m.row[j].run + 1, born |-> e,
                   busy |-> TRUE, timer |-> "off"]
<1>1. /\ IsRec(m) /\ m.row \in [Jobs -> Rows] /\ m.suppressed \subseteq Jobs
      /\ m.watched \subseteq Jobs /\ m.consumed \subseteq Jobs
      /\ m.deliveries \subseteq Deliveries /\ m.loop \in {"off", "on", "ending"}
  BY ManagerIs DEF ManagerOK
<1>2. /\ IsRec(n) /\ n.row = [m.row EXCEPT ![j] = new]
      /\ n.suppressed = m.suppressed \ {j} /\ n.consumed = m.consumed \ {j}
      /\ n.watched = m.watched /\ n.deliveries = m.deliveries /\ n.loop = m.loop
  BY <1>1, RegisterIs
<1> HIDE DEF n
<1>3. new \in Rows
  <2>1. MaxRuns \in Nat /\ MaxSessions \in Nat
    BY JobManagerAssumption
  <2>2. m.row[j].run + 1 \in 0..MaxRuns /\ e \in 0..MaxSessions
    BY <1>1, <2>1 DEF Rows, Epochs
  <2> QED
    BY <2>2 DEF Rows
<1>4. n \in Managers
  <2>1. n.row \in [Jobs -> Rows]
    BY <1>1, <1>2, <1>3
  <2> QED
    BY <1>1, <1>2, <2>1, ManagerIs
<1>5. RowsOK(n)
  <2>1. new.run > 0 /\ new.born > 0
    BY <1>1, JobManagerAssumption DEF Rows, Epochs
  <2> QED
    BY <1>1, <1>2, <2>1 DEF RowsOK, ManagerOK, HasRow
<1>6. Unacknowledged(n)
  BY <1>2 DEF ManagerOK, Unacknowledged
<1> QED
  BY <1>2, <1>4, <1>5, <1>6 DEF ManagerOK, n

LEMMA SettlesOK ==
  ASSUME NEW m, ManagerOK(m), NEW j \in Jobs, m.row[j].busy
  PROVE  ManagerOK(BodySettles(m, j))
<1> DEFINE n == BodySettles(m, j)
           silent == m.row[j].status = "cancelled" \/ Suppressed(m, j)
<1>1. /\ IsRec(m) /\ m.row \in [Jobs -> Rows] /\ m.suppressed \subseteq Jobs
      /\ m.watched \subseteq Jobs /\ m.consumed \subseteq Jobs
      /\ m.deliveries \subseteq Deliveries /\ m.loop \in {"off", "on", "ending"}
  BY ManagerIs DEF ManagerOK
<1>2. /\ IsRec(n) /\ n.row = [m.row EXCEPT ![j] = Done(m.row[j])]
      /\ n.suppressed = m.suppressed /\ n.watched = m.watched /\ n.consumed = m.consumed
      /\ n.deliveries = (IF silent THEN m.deliveries ELSE m.deliveries \cup {NewDelivery(m, j)})
      /\ n.loop \in {m.loop, "on"}
  BY <1>1, SettlesIs
<1> HIDE DEF n
<1>3. m.row[j].run > 0 /\ m.row[j].born > 0
  BY DEF ManagerOK, RowsOK, HasRow
<1>4. NewDelivery(m, j) \in Deliveries /\ NewDelivery(m, j).job = j
  BY <1>1, <1>3, NewDeliveryIs
<1>5. /\ Done(m.row[j]) \in Rows /\ ~Done(m.row[j]).busy /\ Done(m.row[j]).run = m.row[j].run
      /\ Done(m.row[j]).born = m.row[j].born
      /\ Done(m.row[j]).status = IF m.row[j].status = "cancelled" THEN "cancelled" ELSE "completed"
  BY <1>1, DoneTyped
<1>6. n \in Managers
  <2>1. n.row \in [Jobs -> Rows] /\ n.deliveries \subseteq Deliveries
    BY <1>1, <1>2, <1>4, <1>5
  <2> QED
    BY <1>1, <1>2, <2>1, ManagerIs
<1>7. RowsOK(n)
  BY <1>1, <1>2, <1>3, <1>5 DEF RowsOK, ManagerOK, HasRow
<1>8. Unacknowledged(n)
  BY <1>2, <1>4 DEF ManagerOK, Unacknowledged, Suppressed
<1>9. IsFiniteSet(n.deliveries)
  BY <1>2, FS_AddElement DEF ManagerOK
<1> QED
  BY <1>6, <1>7, <1>8, <1>9 DEF ManagerOK, n

LEMMA PartsOf ==
  ASSUME NEW m, ManagerOK(m)
  PROVE  /\ IsRec(m) /\ m.row \in [Jobs -> Rows] /\ m.suppressed \subseteq Jobs
         /\ m.watched \subseteq Jobs /\ m.consumed \subseteq Jobs
         /\ m.deliveries \subseteq Deliveries /\ m.loop \in {"off", "on", "ending"}
         /\ IsFiniteSet(m.deliveries) /\ Unacknowledged(m) /\ RowsOK(m)
BY ManagerIs DEF ManagerOK

LEMMA WholeIs ==
  ASSUME NEW m, IsRec(m), m.row \in [Jobs -> Rows], m.suppressed \subseteq Jobs,
         m.watched \subseteq Jobs, m.consumed \subseteq Jobs,
         m.deliveries \subseteq Deliveries, m.loop \in {"off", "on", "ending"},
         IsFiniteSet(m.deliveries), Unacknowledged(m), RowsOK(m)
  PROVE  ManagerOK(m)
BY ManagerIs DEF ManagerOK

LEMMA PhotoOK ==
  ASSUME NEW m, ManagerOK(m), NEW late \in SUBSET Jobs, \A j \in late : m.row[j].busy,
         NEW n, IsRec(n), n.suppressed = m.suppressed, n.watched = m.watched,
         n.row = RowsDone(m, late),
         n.consumed = m.consumed, n.deliveries = m.deliveries, n.loop = m.loop
  PROVE  ManagerOK(n)
<1>1. \A j \in Jobs :
        /\ Done(m.row[j]) \in Rows /\ ~Done(m.row[j]).busy /\ Done(m.row[j]).run = m.row[j].run
        /\ Done(m.row[j]).born = m.row[j].born
        /\ Done(m.row[j]).status = IF m.row[j].status = "cancelled" THEN "cancelled" ELSE "completed"
  BY PartsOf, DoneTyped
<1>2. n.row \in [Jobs -> Rows]
  BY <1>1, PartsOf DEF RowsDone
<1>3. RowsOK(n)
  BY <1>1, PartsOf DEF RowsOK, HasRow, RowsDone
<1>4. Unacknowledged(n)
  BY PartsOf DEF Unacknowledged
<1> QED
  BY <1>2, <1>3, <1>4, PartsOf, WholeIs

LEMMA PhotoFinishOK ==
  ASSUME NEW m, ManagerOK(m), NEW js \in SUBSET Jobs,
         \A j \in js : Suppressed(m, j), NEW n \in PhotoFinishes(m, js)
  PROVE  \E late \in SUBSET {j \in js : m.row[j].busy} :
            /\ ManagerOK(n) /\ n.suppressed = m.suppressed /\ n.watched = m.watched
            /\ n.row = RowsDone(m, late)
            /\ n.consumed = m.consumed /\ n.deliveries = m.deliveries
<1>1. IsFiniteSet(Jobs)
  BY JobManagerAssumption
<1>2. PICK late \in SUBSET {j \in js : m.row[j].busy} :
         /\ IsRec(n) /\ n.suppressed = m.suppressed /\ n.watched = m.watched
         /\ n.row = RowsDone(m, late)
         /\ n.consumed = m.consumed /\ n.deliveries = m.deliveries /\ n.loop = m.loop
  BY <1>1, PartsOf, PhotoFinishIs
<1>3. late \in SUBSET Jobs /\ \A k \in late : m.row[k].busy
  OBVIOUS
<1>4. ManagerOK(n)
  BY <1>2, <1>3, PhotoOK
<1> QED
  BY <1>2, <1>4

LEMMA WatchIs ==
  ASSUME NEW m, IsRec(m), NEW w
  PROVE  LET n == [m EXCEPT !.watched = w] IN
         /\ IsRec(n) /\ n.row = m.row /\ n.suppressed = m.suppressed /\ n.watched = w
         /\ n.consumed = m.consumed /\ n.deliveries = m.deliveries /\ n.loop = m.loop
BY DEF IsRec, Fields

LEMMA WatchOK ==
  ASSUME NEW m, ManagerOK(m), NEW w \in SUBSET Jobs
  PROVE  ManagerOK([m EXCEPT !.watched = w])
<1> DEFINE n == [m EXCEPT !.watched = w]
<1>1. /\ IsRec(n) /\ n.row = m.row /\ n.suppressed = m.suppressed /\ n.watched = w
      /\ n.consumed = m.consumed /\ n.deliveries = m.deliveries /\ n.loop = m.loop
  BY PartsOf, WatchIs
<1> HIDE DEF n
<1>2. Unacknowledged(n) /\ RowsOK(n)
  BY <1>1, PartsOf DEF Unacknowledged, RowsOK, HasRow
<1>3. ManagerOK(n)
  BY <1>1, <1>2, PartsOf, WholeIs
<1> QED
  BY <1>3 DEF n

LEMMA CancelOK ==
  ASSUME NEW m, ManagerOK(m), NEW js
  PROVE  ManagerOK(CancelJobs(m, js))
<1> DEFINE n == CancelJobs(m, js)
<1>1. /\ IsRec(n)
      /\ n.row = [j \in Jobs |-> IF j \in js /\ m.row[j].status = "running"
                                 THEN [m.row[j] EXCEPT !.status = "cancelled"] ELSE m.row[j]]
      /\ n.suppressed = m.suppressed /\ n.consumed = m.consumed
      /\ n.watched = m.watched /\ n.deliveries = m.deliveries /\ n.loop = m.loop
  BY PartsOf, CancelIs
<1> HIDE DEF n
<1>2. \A j \in Jobs : LET c == [m.row[j] EXCEPT !.status = "cancelled"] IN
         c \in Rows /\ c.status = "cancelled" /\ c.run = m.row[j].run /\ c.born = m.row[j].born
           /\ c.busy = m.row[j].busy /\ c.timer = m.row[j].timer
  BY PartsOf DEF Rows
<1>3. n.row \in [Jobs -> Rows]
  BY <1>1, <1>2, PartsOf
<1>4. RowsOK(n)
  BY <1>1, <1>2, PartsOf DEF RowsOK, HasRow
<1>5. Unacknowledged(n)
  BY <1>1, PartsOf DEF Unacknowledged
<1>6. ManagerOK(n)
  BY <1>1, <1>3, <1>4, <1>5, PartsOf, WholeIs
<1> QED
  BY <1>6 DEF n

LEMMA AcknowledgeOK ==
  ASSUME NEW m, ManagerOK(m), NEW js \in SUBSET Jobs
  PROVE  ManagerOK(Acknowledge(m, js))
<1> DEFINE n == Acknowledge(m, js)
<1>1. /\ IsRec(n) /\ n.row = m.row /\ n.consumed = m.consumed
      /\ n.suppressed = m.suppressed \cup js
      /\ n.watched = m.watched /\ n.loop = m.loop
      /\ n.deliveries = {d \in m.deliveries :
            d.st \in InManager => d.job \notin m.suppressed \cup js \cup m.watched}
  BY PartsOf, AcknowledgeIs
<1> HIDE DEF n
<1>2. Unacknowledged(n) /\ RowsOK(n)
  BY <1>1, PartsOf DEF Unacknowledged, RowsOK, HasRow
<1>3. IsFiniteSet(n.deliveries)
  BY <1>1, PartsOf, FS_Subset
<1>4. ManagerOK(n)
  BY <1>1, <1>2, <1>3, PartsOf, WholeIs
<1> QED
  BY <1>4 DEF n

LEMMA ConsumeOK ==
  ASSUME NEW m, ManagerOK(m), NEW js \in SUBSET Jobs
  PROVE  ManagerOK(Consume(m, js))
<1> DEFINE n     == Consume(m, js)
           newly == {j \in js \ m.consumed : HasResult(m, j)}
<1>1. /\ IsRec(n) /\ n.consumed = m.consumed \cup newly
      /\ n.row = [j \in Jobs |-> IF j \in newly /\ OfJob(m, j) = {}
                                 THEN [m.row[j] EXCEPT !.timer = "short"] ELSE m.row[j]]
      /\ n.suppressed = m.suppressed /\ n.watched = m.watched
      /\ n.deliveries = m.deliveries /\ n.loop = m.loop
  BY PartsOf, ConsumeIs
<1> HIDE DEF n
<1>2. \A j \in Jobs : LET c == [m.row[j] EXCEPT !.timer = "short"] IN
         c \in Rows /\ c.status = m.row[j].status /\ c.run = m.row[j].run
           /\ c.born = m.row[j].born /\ c.busy = m.row[j].busy
  BY PartsOf DEF Rows
<1>3. n.row \in [Jobs -> Rows]
  <2> HIDE DEF newly
  <2> QED
    BY <1>1, <1>2, PartsOf
<1>4. RowsOK(n)
  <2>1. \A j \in newly : ~m.row[j].busy
    BY DEF HasResult
  <2> HIDE DEF newly
  <2> QED
    BY <1>1, <1>2, <2>1, PartsOf DEF RowsOK, HasRow
<1>5. Unacknowledged(n)
  BY <1>1, PartsOf DEF Unacknowledged
<1>6. ManagerOK(n)
  BY <1>1, <1>3, <1>4, <1>5, PartsOf, WholeIs
<1> QED
  BY <1>6 DEF n

LEMMA SnapshotOK ==
  ASSUME NEW m, ManagerOK(m), NEW js \in SUBSET Jobs
  PROVE  ManagerOK(ConsumeJobResults(m, js)) /\ ManagerOK(SnapshotOf(m, js))
<1>1. \A ks \in SUBSET Jobs : ManagerOK(ConsumeJobResults(m, ks))
  <2> TAKE ks \in SUBSET Jobs
  <2>1. ManagerOK(Acknowledge(m, ks))
    BY AcknowledgeOK
  <2>2. ManagerOK(Consume(Acknowledge(m, ks), ks))
    BY <2>1, ConsumeOK
  <2> QED
    BY <2>2 DEF ConsumeJobResults
<1> QED
  BY <1>1 DEF SnapshotOf

(* The delivery that was suppressed is queued after all. *)
Resumed(m, j) ==
  /\ j \in m.suppressed /\ j \notin m.watched
  /\ m.row[j].status = "completed" /\ OfJob(m, j) = {}

LEMMA ResumeIs ==
  ASSUME NEW m, IsRec(m), NEW j
  PROVE  LET n == ResumeDelivery(m, j) IN
         /\ IsRec(n) /\ n.row = m.row /\ n.suppressed = m.suppressed \ {j}
         /\ n.watched = m.watched /\ n.consumed = m.consumed
         /\ Resumed(m, j) => n.deliveries = m.deliveries \cup {NewDelivery(m, j)}
         /\ ~Resumed(m, j) => n.deliveries = m.deliveries
         /\ n.loop \in {m.loop, "on"}
<1> DEFINE x == [m EXCEPT !.suppressed = @ \ {j}]
           q == EnqueueDelivery(x, j)
           due == j \in m.suppressed /\ m.row[j].status = "completed" /\ OfJob(m, j) = {}
<1>1. /\ IsRec(x) /\ x.row = m.row /\ x.suppressed = m.suppressed \ {j} /\ x.watched = m.watched
      /\ x.consumed = m.consumed /\ x.deliveries = m.deliveries /\ x.loop = m.loop
  BY DEF IsRec, Fields
<1>2. ResumeDelivery(m, j) = IF due THEN q ELSE x
  BY DEF ResumeDelivery
<1> HIDE DEF x, due
<1>3. /\ IsRec(q) /\ q.row = x.row /\ q.suppressed = x.suppressed
      /\ q.watched = x.watched /\ q.consumed = x.consumed
      /\ q.deliveries = (IF Suppressed(x, j) THEN x.deliveries
                         ELSE x.deliveries \cup {NewDelivery(x, j)})
      /\ q.loop \in {x.loop, "on"}
  BY <1>1, EnqueueIs
<1>4. Suppressed(x, j) <=> j \in m.watched
  BY <1>1 DEF Suppressed
<1>5. NewDelivery(x, j) = NewDelivery(m, j)
  BY <1>1 DEF NewDelivery
<1> HIDE DEF q
<1>6. CASE due
  BY <1>1, <1>2, <1>3, <1>4, <1>5, <1>6 DEF due, Resumed
<1>7. CASE ~due
  BY <1>1, <1>2, <1>7 DEF due, Resumed
<1> QED
  BY <1>6, <1>7

LEMMA ResumeOK ==
  ASSUME NEW m, ManagerOK(m), NEW j \in Jobs
  PROVE  ManagerOK(ResumeDelivery(m, j))
<1> DEFINE n == ResumeDelivery(m, j)
<1>1. /\ IsRec(n) /\ n.row = m.row /\ n.suppressed = m.suppressed \ {j}
      /\ n.watched = m.watched /\ n.consumed = m.consumed
      /\ Resumed(m, j) => n.deliveries = m.deliveries \cup {NewDelivery(m, j)}
      /\ ~Resumed(m, j) => n.deliveries = m.deliveries
      /\ n.loop \in {m.loop, "on"}
  BY PartsOf, ResumeIs
<1> HIDE DEF n
<1>2. Resumed(m, j) => /\ m.row[j].run > 0 /\ m.row[j].born > 0
                       /\ NewDelivery(m, j) \in Deliveries /\ NewDelivery(m, j).job = j
  <2>1. Resumed(m, j) => m.row[j].run > 0 /\ m.row[j].born > 0
    BY PartsOf DEF RowsOK, HasRow, Resumed
  <2> QED
    BY <2>1, PartsOf, NewDeliveryIs
<1>3. Unacknowledged(n) /\ RowsOK(n)
  <2>1. RowsOK(n)
    BY <1>1, PartsOf DEF RowsOK, HasRow
  <2>2. Unacknowledged(n)
    BY <1>1, <1>2, PartsOf DEF Unacknowledged
  <2> QED
    BY <2>1, <2>2
<1>4. IsFiniteSet(n.deliveries)
  BY <1>1, PartsOf, FS_AddElement
<1>5. n.deliveries \subseteq Deliveries /\ n.suppressed \subseteq Jobs
  BY <1>1, <1>2, PartsOf
<1>6. ManagerOK(n)
  BY <1>1, <1>3, <1>4, <1>5, PartsOf, WholeIs
<1> QED
  BY <1>6 DEF n

LEMMA GoneTyped ==
  ASSUME NEW row \in Rows
  PROVE  /\ Gone(row) \in Rows /\ Gone(row).status = "none" /\ Gone(row).run = row.run
         /\ Gone(row).born = row.born /\ Gone(row).busy = row.busy /\ Gone(row).timer = "off"
BY DEF Gone, Rows

LEMMA EvictOK ==
  ASSUME NEW m, ManagerOK(m), NEW js \in SUBSET Jobs, \A j \in js : ~m.row[j].busy
  PROVE  ManagerOK(Evict(m, js))
<1> DEFINE n == Evict(m, js)
<1>1. /\ IsRec(n)
      /\ n.row = [j \in Jobs |-> IF j \in js
                     THEN Gone(m.row[j]) ELSE m.row[j]]
      /\ n.suppressed = m.suppressed \ js /\ n.watched = m.watched \ js
      /\ n.consumed = m.consumed \ js /\ n.deliveries = m.deliveries /\ n.loop = m.loop
  BY PartsOf, EvictIs
<1> HIDE DEF n
<1>2. \A j \in Jobs : LET c == Gone(m.row[j]) IN
         c \in Rows /\ c.status = "none" /\ c.run = m.row[j].run /\ c.born = m.row[j].born
           /\ c.busy = m.row[j].busy /\ c.timer = "off"
  BY PartsOf, GoneTyped
<1>3. n.row \in [Jobs -> Rows]
  BY <1>1, <1>2, PartsOf
<1>4. RowsOK(n)
  <2>1. \A j \in Jobs : ~(j \in js /\ m.row[j].busy)
    OBVIOUS
  <2> QED
    BY <1>1, <1>2, <2>1, PartsOf DEF RowsOK, HasRow
<1>5. Unacknowledged(n)
  BY <1>1, PartsOf DEF Unacknowledged
<1>6. ManagerOK(n)
  BY <1>1, <1>3, <1>4, <1>5, PartsOf, WholeIs
<1> QED
  BY <1>6 DEF n

LEMMA EvictCompletedIs ==
  ASSUME NEW m, ManagerOK(m)
  PROVE  LET n  == EvictCompletedJobs(m)
             js == {j \in Jobs : m.row[j].status = "completed"}
         IN
         /\ ManagerOK(n)
         /\ n.row = [j \in Jobs |-> IF j \in js
                        THEN Gone(m.row[j]) ELSE m.row[j]]
         /\ n.suppressed = m.suppressed \ js /\ n.watched = m.watched \ js
         /\ n.consumed = m.consumed \ js /\ n.loop = m.loop
         /\ n.deliveries = {d \in m.deliveries :
               d.st \in InManager => d.job \notin m.suppressed \cup js \cup m.watched}
<1> DEFINE js == {j \in Jobs : m.row[j].status = "completed"}
           a  == Acknowledge(m, js)
<1>1. /\ IsRec(a) /\ a.row = m.row /\ a.consumed = m.consumed
      /\ a.suppressed = m.suppressed \cup js
      /\ a.watched = m.watched /\ a.loop = m.loop
      /\ a.deliveries = {d \in m.deliveries :
            d.st \in InManager => d.job \notin m.suppressed \cup js \cup m.watched}
  <2> HIDE DEF js
  <2> QED
    BY PartsOf, AcknowledgeIs
<1>2. \A j \in js : ~m.row[j].busy
  BY PartsOf DEF RowsOK
<1>3. ManagerOK(a)
  <2>1. js \in SUBSET Jobs
    OBVIOUS
  <2> HIDE DEF js
  <2> QED
    BY <2>1, AcknowledgeOK
<1>4. EvictCompletedJobs(m) = Evict(a, js)
  BY DEF EvictCompletedJobs
<1> DEFINE n == Evict(a, js)
<1>5. js \in SUBSET Jobs
  OBVIOUS
<1> HIDE DEF a, js
<1>6. ManagerOK(n)
  BY <1>1, <1>2, <1>3, <1>5, EvictOK
<1>7. /\ n.row = [j \in Jobs |-> IF j \in js
                     THEN Gone(a.row[j]) ELSE a.row[j]]
      /\ n.suppressed = a.suppressed \ js /\ n.watched = a.watched \ js
      /\ n.consumed = a.consumed \ js /\ n.deliveries = a.deliveries /\ n.loop = a.loop
  BY <1>1, EvictIs
<1> HIDE DEF n
<1> QED
  BY <1>1, <1>4, <1>6, <1>7 DEF js, n

LEMMA TypesInSink ==
  ASSUME NEW ds, ds \subseteq Deliveries
  PROVE  /\ (\A d \in ds : d.st \in {"parked", "pulled"}) => InSink(ds)
         /\ (\A d \in ds : d.st \in InSession) => InHand(ds)
<1>1. \A d \in ds : d.job \in Jobs /\ ThrownBack(d).st = "backoff"
  BY DeliveryIs, ThrownBackIs
<1> QED
  BY <1>1 DEF InSink, InHand

LEMMA ThrowOK ==
  ASSUME NEW m, ManagerOK(m), NEW ds \in SUBSET m.deliveries,
         \A d \in ds : d.st \in {"parked", "pulled"},
         \A d \in ds : Wanted(m, d.job) => d.tries < MaxTries
  PROVE  LET n == Throw(m, ds) IN
         /\ ManagerOK(n) /\ n.row = m.row /\ n.suppressed = m.suppressed
         /\ n.watched = m.watched /\ n.consumed = m.consumed
         /\ n.deliveries = LeftAfterThrow(m, ds)
<1> DEFINE n == ThrowAll(m, ds)
<1>1. Throw(m, ds) = n
  <2>1. IsFiniteSet(ds) /\ InSink(ds)
    BY PartsOf, TypesInSink, FS_Subset
  <2> QED
    BY <2>1, PartsOf, ThrowIs
<1>2. /\ IsRec(n) /\ n.row = m.row /\ n.suppressed = m.suppressed
      /\ n.watched = m.watched /\ n.consumed = m.consumed
      /\ n.deliveries = LeftAfterThrow(m, ds)
      /\ n.loop = IF ds = {} THEN m.loop ELSE LoopFor(m.loop, LeftAfterThrow(m, ds))
  BY PartsOf, ThrowAllFields
<1> HIDE DEF n
<1> DEFINE back == {ThrownBack(d) : d \in {e \in ds : Wanted(m, e.job)}}
<1>3. \A b \in back : b \in Deliveries /\ b.job \notin m.suppressed
  <2>1. \A d \in ds : Wanted(m, d.job) =>
          ThrownBack(d) \in Deliveries /\ ThrownBack(d).job = d.job
    BY PartsOf, ThrownBackIs
  <2>2. \A d \in ds : Wanted(m, d.job) => d.job \notin m.suppressed
    BY DEF Wanted, Suppressed
  <2> QED
    BY <2>1, <2>2
<1>4. IsFiniteSet(back)
  <2> DEFINE S == {e \in ds : Wanted(m, e.job)}
             f == [d \in S |-> ThrownBack(d)]
  <2>1. IsFiniteSet(S)
    BY PartsOf, FS_Subset
  <2>2. f \in Surjection(S, back)
    BY DEF Surjection
  <2> HIDE DEF S, f, back
  <2> QED
    BY <2>1, <2>2, FS_Surjection
<1>5. n.deliveries = (m.deliveries \ ds) \cup back
  BY <1>2 DEF LeftAfterThrow
<1> HIDE DEF back
<1>6. IsFiniteSet(n.deliveries)
  <2>1. IsFiniteSet(m.deliveries \ ds)
    BY PartsOf, FS_Subset
  <2> QED
    BY <1>4, <1>5, <2>1, FS_Union
<1>7. n.deliveries \subseteq Deliveries /\ n.loop \in {"off", "on", "ending"}
  BY <1>2, <1>3, <1>5, PartsOf DEF LoopFor
<1>8. RowsOK(n)
  BY <1>2, PartsOf DEF RowsOK, HasRow
<1>9. Unacknowledged(n)
  BY <1>2, <1>3, <1>5, PartsOf DEF Unacknowledged
<1>10. ManagerOK(n)
  BY <1>2, <1>6, <1>7, <1>8, <1>9, PartsOf, WholeIs
<1> QED
  BY <1>1, <1>2, <1>10

LEMMA ReturnOK ==
  ASSUME NEW m, ManagerOK(m), NEW ds \in SUBSET m.deliveries,
         \A d \in ds : d.st \in InSession
  PROVE  LET n == Return(m, ds) IN
         /\ ManagerOK(n) /\ n.row = RowsAfterReturn(m, ds) /\ n.suppressed = m.suppressed
         /\ n.watched = m.watched /\ n.consumed = m.consumed \cup ShownBy(m, ds)
         /\ n.deliveries = m.deliveries \ ds
<1> DEFINE n == ReturnAll(m, ds)
<1>1. Return(m, ds) = n
  <2>1. IsFiniteSet(ds) /\ InHand(ds)
    BY PartsOf, TypesInSink, FS_Subset
  <2> QED
    BY <2>1, PartsOf, ReturnIs
<1>2. /\ IsRec(n) /\ n.suppressed = m.suppressed /\ n.watched = m.watched
      /\ n.row = RowsAfterReturn(m, ds) /\ n.consumed = m.consumed \cup ShownBy(m, ds)
      /\ n.deliveries = m.deliveries \ ds
      /\ n.loop = IF ds = {} THEN m.loop ELSE LoopFor(m.loop, m.deliveries \ ds)
  BY PartsOf, ReturnAllFields
<1> HIDE DEF n
<1>3. \A j \in Jobs : LET c == [m.row[j] EXCEPT !.timer = "short"] IN
         c \in Rows /\ c.status = m.row[j].status /\ c.run = m.row[j].run
           /\ c.born = m.row[j].born /\ c.busy = m.row[j].busy
  BY PartsOf DEF Rows
<1>4. n.row \in [Jobs -> Rows]
  BY <1>2, <1>3, PartsOf DEF RowsAfterReturn
<1>5. RowsOK(n)
  <2>1. \A j \in Jobs : Hastened(m, ds, j) => ~m.row[j].busy
    BY PartsOf DEF Hastened, HasResult, RowsOK
  <2>2. \A j \in Jobs : j \in ShownBy(m, ds) => ~m.row[j].busy
    BY DEF ShownBy, HasResult
  <2> QED
    BY <1>2, <1>3, <2>1, <2>2, PartsOf DEF RowsOK, HasRow, RowsAfterReturn
<1>6. Unacknowledged(n)
  BY <1>2, PartsOf DEF Unacknowledged
<1>7. IsFiniteSet(n.deliveries)
  BY <1>2, PartsOf, FS_Subset
<1>8. n.consumed \subseteq Jobs /\ n.loop \in {"off", "on", "ending"}
  BY <1>2, PartsOf DEF ShownBy, LoopFor
<1>9. ManagerOK(n)
  BY <1>2, <1>4, <1>5, <1>6, <1>7, <1>8, PartsOf, WholeIs
<1> QED
  BY <1>1, <1>2, <1>9

(* The deliveries or the loop change, and nothing else. *)
LEMMA MoveOK ==
  ASSUME NEW m, ManagerOK(m), NEW ds \in SUBSET Deliveries, IsFiniteSet(ds),
         \A d \in ds : d.st \in InManager => d.job \notin m.suppressed
  PROVE  LET n == [m EXCEPT !.deliveries = ds] IN
         /\ ManagerOK(n) /\ n.row = m.row /\ n.suppressed = m.suppressed
         /\ n.watched = m.watched /\ n.consumed = m.consumed
         /\ n.deliveries = ds /\ n.loop = m.loop
<1> DEFINE n == [m EXCEPT !.deliveries = ds]
<1>1. /\ IsRec(n) /\ n.row = m.row /\ n.suppressed = m.suppressed /\ n.watched = m.watched
      /\ n.consumed = m.consumed /\ n.deliveries = ds /\ n.loop = m.loop
  <2>1. IsRec(m)
    BY PartsOf
  <2> QED
    BY <2>1 DEF IsRec, Fields
<1> HIDE DEF n
<1>2. Unacknowledged(n) /\ RowsOK(n)
  BY <1>1, PartsOf DEF Unacknowledged, RowsOK, HasRow
<1>3. ManagerOK(n)
  BY <1>1, <1>2, PartsOf, WholeIs
<1> QED
  BY <1>1, <1>3 DEF n

LEMMA LoopOK ==
  ASSUME NEW m, ManagerOK(m), NEW loop \in {"off", "on", "ending"}
  PROVE  LET n == [m EXCEPT !.loop = loop] IN
         /\ ManagerOK(n) /\ n.row = m.row /\ n.suppressed = m.suppressed
         /\ n.watched = m.watched /\ n.consumed = m.consumed
         /\ n.deliveries = m.deliveries /\ n.loop = loop
<1> DEFINE n == [m EXCEPT !.loop = loop]
<1>1. /\ IsRec(n) /\ n.row = m.row /\ n.suppressed = m.suppressed /\ n.watched = m.watched
      /\ n.consumed = m.consumed /\ n.deliveries = m.deliveries /\ n.loop = loop
  <2>1. IsRec(m)
    BY PartsOf
  <2> QED
    BY <2>1 DEF IsRec, Fields
<1> HIDE DEF n
<1>2. Unacknowledged(n) /\ RowsOK(n)
  BY <1>1, PartsOf DEF Unacknowledged, RowsOK, HasRow
<1>3. ManagerOK(n)
  BY <1>1, <1>2, PartsOf, WholeIs
<1> QED
  BY <1>1, <1>3 DEF n

LEMMA EnsureOK ==
  ASSUME NEW m, ManagerOK(m)
  PROVE  LET n == EnsureLoop(m) IN
         /\ ManagerOK(n) /\ n.row = m.row /\ n.suppressed = m.suppressed
         /\ n.watched = m.watched /\ n.consumed = m.consumed /\ n.deliveries = m.deliveries
<1> DEFINE n == EnsureLoop(m)
<1>1. /\ IsRec(n)
      /\ n.row = m.row /\ n.suppressed = m.suppressed
      /\ n.watched = m.watched /\ n.consumed = m.consumed
      /\ n.deliveries = m.deliveries
      /\ n.loop = LoopFor(m.loop, m.deliveries)
  BY PartsOf, EnsureIs
<1> HIDE DEF n
<1>2. Unacknowledged(n) /\ RowsOK(n) /\ n.loop \in {"off", "on", "ending"}
  BY <1>1, PartsOf DEF Unacknowledged, RowsOK, HasRow, LoopFor
<1>3. ManagerOK(n)
  BY <1>1, <1>2, PartsOf, WholeIs
<1> QED
  BY <1>1, <1>3 DEF n

LEMMA SinkReturnedOK ==
  ASSUME NEW m, ManagerOK(m), NEW d \in m.deliveries, d.st \in InSession
  PROVE  LET n == SinkReturned(m, d) IN
         /\ ManagerOK(n) /\ n.row = RowsAfterReturn(m, {d}) /\ n.suppressed = m.suppressed
         /\ n.watched = m.watched /\ n.consumed = m.consumed \cup ShownBy(m, {d})
         /\ n.deliveries = m.deliveries \ {d}
<1>1. InHand({d}) /\ IsFiniteSet({d}) /\ {d} \subseteq m.deliveries
  BY PartsOf, TypesInSink, FS_Singleton
<1>2. Return(m, {d}) = ReturnAll(m, {d})
  BY <1>1, PartsOf, ReturnIs
<1>3. ReturnAll(m, {d}) = SinkReturned(ReturnAll(m, {d} \ {d}), d)
  <2> DEFINE s == {d}
  <2>1. d \in s /\ InHand(s) /\ s \subseteq m.deliveries
    BY <1>1
  <2> HIDE DEF s
  <2>2. ReturnAll(m, s) = SinkReturned(ReturnAll(m, s \ {d}), d)
    BY <2>1, PartsOf, ReturnStep
  <2> QED
    BY <2>2 DEF s
<1>4. {d} \ {d} = {} /\ ReturnAll(m, {}) = m
  BY DEF ReturnAll
<1>5. SinkReturned(m, d) = Return(m, {d})
  BY <1>2, <1>3, <1>4
<1> QED
  BY <1>1, <1>5, ReturnOK

-----------------------------------------------------------------------------
(* The inductive invariant: the manager and the session agree on who holds *)
(* what.                                                                   *)

Sessions ==
  /\ Pulled # {} => session = "boundary"
  /\ hub \cup fg # {} => session = "tools"
  /\ mgr.watched = hub
  /\ fg \subseteq mgr.suppressed
  /\ \A j \in fg : HasRow(mgr, j)

BInv == TypeOK /\ ManagerOK(mgr) /\ Sessions

LEMMA BInvInit == Init => BInv
<1> SUFFICES ASSUME Init PROVE BInv
  OBVIOUS
<1>1. ManagerOK(mgr)
  BY NewManagerOK DEF Init
<1>2. TypeOK
  <2>1. 1 \in Epochs
    BY JobManagerAssumption DEF Epochs
  <2>2. mgr \in Managers
    BY <1>1 DEF ManagerOK
  <2> QED
    BY <2>1, <2>2 DEF TypeOK, Init
<1>3. Sessions
  BY DEF Sessions, Init, Pulled, NewManager
<1> QED
  BY <1>1, <1>2, <1>3 DEF BInv

LEMMA RunIs ==
  ASSUME BInv, NEW j \in Jobs, HasRow(mgr, j)
  PROVE  CurrentRun(j) \in Jobs \X Runs
<1>1. mgr.row[j].run \in Runs
  BY PartsOf, JobManagerAssumption DEF BInv, RowsOK, Rows, Runs
<1> QED
  BY <1>1 DEF CurrentRun

LEMMA InjectTyped ==
  ASSUME BInv, NEW ds \in SUBSET mgr.deliveries, Inject(ds)
  PROVE  /\ injected' \in [Jobs \X Runs -> Nat]
         /\ \A r \in Jobs \X Runs :
              injected'[r] = injected[r] + Cardinality({d \in ds : <<d.job, d.run>> = r})
         /\ \A r : Cardinality({d \in ds : <<d.job, d.run>> = r}) \in Nat
<1>1. IsFiniteSet(ds)
  BY PartsOf, FS_Subset DEF BInv
<1>2. \A r : Cardinality({d \in ds : <<d.job, d.run>> = r}) \in Nat
  <2> TAKE r
  <2>1. IsFiniteSet({d \in ds : <<d.job, d.run>> = r})
    BY <1>1, FS_Subset
  <2> QED
    BY <2>1, FS_CardinalityType
<1>3. injected \in [Jobs \X Runs -> Nat]
  BY DEF BInv, TypeOK
<1>4. \A r \in Jobs \X Runs :
        injected'[r] = injected[r] + Cardinality({d \in ds : <<d.job, d.run>> = r})
  BY DEF Inject
<1>5. injected' = [r \in Jobs \X Runs |-> injected'[r]]
  BY DEF Inject
<1>6. \A r \in Jobs \X Runs : injected'[r] \in Nat
  <2> TAKE r \in Jobs \X Runs
  <2> DEFINE c == Cardinality({d \in ds : <<d.job, d.run>> = r})
  <2>1. c \in Nat /\ injected[r] \in Nat /\ injected'[r] = injected[r] + c
    BY <1>2, <1>3, <1>4
  <2> HIDE DEF c
  <2> QED
    BY <2>1
<1> QED
  BY <1>2, <1>4, <1>5, <1>6

LEMMA RecoverTyped ==
  ASSUME BInv, NEW js \in SUBSET Jobs
  PROVE  {CurrentRun(j) : j \in {k \in js : HasResult(mgr, k)}} \subseteq Jobs \X Runs
BY RunIs DEF HasResult, HasRow

(* The invariant after a step, from what becomes of the manager.           *)
LEMMA BInvHolds ==
  ASSUME BInv, ManagerOK(mgr'),
         session' \in {"idle", "tools", "boundary"}, epoch' \in Epochs,
         hub' \subseteq Jobs, fg' \subseteq Jobs,
         injected' \in [Jobs \X Runs -> Nat], recovered' \subseteq Jobs \X Runs,
         \A d \in mgr'.deliveries : d.st = "pulled" => session' = "boundary",
         hub' \cup fg' # {} => session' = "tools",
         mgr'.watched = hub', fg' \subseteq mgr'.suppressed,
         \A j \in fg' : HasRow(mgr', j)
  PROVE  BInv'
BY DEF BInv, TypeOK, Sessions, ManagerOK, Pulled

LEMMA HasRowIs ==
  ASSUME NEW m, NEW n, NEW j, n.row[j].status # "none" <=> m.row[j].status # "none"
  PROVE  HasRow(n, j) <=> HasRow(m, j)
BY DEF HasRow

LEMMA BInvParts ==
  ASSUME BInv
  PROVE  /\ ManagerOK(mgr) /\ session \in {"idle", "tools", "boundary"} /\ epoch \in Epochs
         /\ hub \subseteq Jobs /\ fg \subseteq Jobs
         /\ injected \in [Jobs \X Runs -> Nat] /\ recovered \subseteq Jobs \X Runs
         /\ \A d \in mgr.deliveries : d.st = "pulled" => session = "boundary"
         /\ hub \cup fg # {} => session = "tools"
         /\ mgr.watched = hub /\ fg \subseteq mgr.suppressed
         /\ \A j \in fg : HasRow(mgr, j)
BY DEF BInv, TypeOK, Sessions, Pulled

LEMMA BStartJob ==
  ASSUME BInv, NEW j \in Jobs, StartJob(j)
  PROVE  BInv'
<1>1. /\ session = "tools" /\ ~HasRow(mgr, j) /\ mgr.row[j].run < MaxRuns
      /\ mgr' = RegisterJob(mgr, j, epoch)
      /\ UNCHANGED <<session, epoch, hub, fg, injected, recovered>>
  BY DEF StartJob
<1>2. ManagerOK(mgr')
  BY <1>1, BInvParts, RegisterOK
<1>3. /\ mgr'.row = [mgr.row EXCEPT ![j] = [status |-> "running", run |-> mgr.row[j].run + 1,
                                            born |-> epoch, busy |-> TRUE, timer |-> "off"]]
      /\ mgr'.suppressed = mgr.suppressed \ {j}
      /\ mgr'.watched = mgr.watched /\ mgr'.deliveries = mgr.deliveries
  BY <1>1, BInvParts, PartsOf, RegisterIs
<1>4. \A k \in fg : HasRow(mgr', k) /\ k # j
  BY <1>1, <1>3, BInvParts, PartsOf DEF HasRow
<1> QED
  BY <1>1, <1>2, <1>3, <1>4, BInvParts, BInvHolds

LEMMA BStartForeground ==
  ASSUME BInv, NEW j \in Jobs, StartForeground(j)
  PROVE  BInv'
<1> DEFINE x == RegisterJob(mgr, j, epoch)
<1>1. /\ session = "tools" /\ ~HasRow(mgr, j) /\ mgr.row[j].run < MaxRuns
      /\ mgr' = Acknowledge(x, {j}) /\ fg' = fg \cup {j}
      /\ UNCHANGED <<session, epoch, hub, injected, recovered>>
  BY DEF StartForeground
<1>2. ManagerOK(x)
  BY <1>1, BInvParts, RegisterOK
<1>3. /\ x.row = [mgr.row EXCEPT ![j] = [status |-> "running", run |-> mgr.row[j].run + 1,
                                         born |-> epoch, busy |-> TRUE, timer |-> "off"]]
      /\ x.suppressed = mgr.suppressed \ {j}
      /\ x.watched = mgr.watched /\ x.deliveries = mgr.deliveries
  BY <1>1, BInvParts, PartsOf, RegisterIs
<1> HIDE DEF x
<1>4. ManagerOK(mgr')
  BY <1>1, <1>2, AcknowledgeOK
<1>5. /\ mgr'.row = x.row /\ mgr'.suppressed = x.suppressed \cup {j}
      /\ mgr'.watched = x.watched /\ mgr'.deliveries \subseteq x.deliveries
  BY <1>1, <1>2, PartsOf, AcknowledgeIs
<1>6. \A k \in fg' : HasRow(mgr', k)
  BY <1>1, <1>3, <1>5, BInvParts, PartsOf DEF HasRow
<1> QED
  BY <1>1, <1>3, <1>4, <1>5, <1>6, BInvParts, BInvHolds

LEMMA BJobSettles ==
  ASSUME BInv, NEW j \in Jobs, JobSettles(j)
  PROVE  BInv'
<1>1. /\ mgr.row[j].busy /\ mgr' = BodySettles(mgr, j)
      /\ UNCHANGED <<session, epoch, hub, fg, injected, recovered>>
  BY DEF JobSettles
<1>2. ManagerOK(mgr')
  BY <1>1, BInvParts, SettlesOK
<1>3. /\ mgr'.row = [mgr.row EXCEPT ![j] = Done(mgr.row[j])]
      /\ mgr'.suppressed = mgr.suppressed /\ mgr'.watched = mgr.watched
      /\ mgr'.deliveries \subseteq mgr.deliveries \cup {NewDelivery(mgr, j)}
  BY <1>1, BInvParts, PartsOf, SettlesIs
<1>4. NewDelivery(mgr, j).st = "queued"
  BY DEF NewDelivery
<1>5. Done(mgr.row[j]).status # "none"
  BY BInvParts, PartsOf, DoneTyped
<1>6. \A k \in fg : HasRow(mgr', k)
  BY <1>3, <1>5, BInvParts, PartsOf DEF HasRow
<1> QED
  BY <1>1, <1>2, <1>3, <1>4, <1>6, BInvParts, BInvHolds

LEMMA BForegroundReturns ==
  ASSUME BInv, NEW j \in Jobs, ForegroundReturns(j)
  PROVE  BInv'
<1>1. CurrentRun(j) \in Jobs \X Runs
  BY BInvParts, RunIs DEF ForegroundReturns
<1> QED
  BY <1>1, BInvParts, BInvHolds DEF ForegroundReturns

LEMMA BForegroundLetsGo ==
  ASSUME BInv, NEW j \in Jobs, ForegroundLetsGo(j)
  PROVE  BInv'
<1>1. PICK m \in PhotoFinishes(mgr, {j}) : mgr' = ResumeDelivery(m, j)
  BY DEF ForegroundLetsGo
<1>2. /\ j \in fg /\ mgr.row[j].busy /\ fg' = fg \ {j}
      /\ UNCHANGED <<session, epoch, hub, injected, recovered>>
  BY DEF ForegroundLetsGo
<1>3. \A k \in {j} : Suppressed(mgr, k)
  BY <1>2, BInvParts DEF Suppressed
<1>4. PICK late \in SUBSET {k \in {j} : mgr.row[k].busy} :
         /\ ManagerOK(m) /\ m.suppressed = mgr.suppressed /\ m.watched = mgr.watched
         /\ m.row = RowsDone(mgr, late)
         /\ m.consumed = mgr.consumed /\ m.deliveries = mgr.deliveries
  <2> DEFINE js == {j}
  <2>1. js \in SUBSET Jobs /\ m \in PhotoFinishes(mgr, js) /\ \A k \in js : Suppressed(mgr, k)
    BY <1>3
  <2>2. ManagerOK(mgr)
    BY BInvParts
  <2> HIDE DEF js
  <2>3. \E late \in SUBSET {k \in js : mgr.row[k].busy} :
         /\ ManagerOK(m) /\ m.suppressed = mgr.suppressed /\ m.watched = mgr.watched
         /\ m.row = RowsDone(mgr, late)
         /\ m.consumed = mgr.consumed /\ m.deliveries = mgr.deliveries
    BY <2>1, <2>2, PhotoFinishOK
  <2> QED
    BY <2>3 DEF js
<1>6. ManagerOK(mgr')
  BY <1>1, <1>4, ResumeOK
<1>7. /\ mgr'.row = m.row /\ mgr'.suppressed = m.suppressed \ {j}
      /\ mgr'.watched = m.watched
      /\ Resumed(m, j) => mgr'.deliveries = m.deliveries \cup {NewDelivery(m, j)}
      /\ ~Resumed(m, j) => mgr'.deliveries = m.deliveries
  BY <1>1, <1>4, PartsOf, ResumeIs
<1>8. NewDelivery(m, j).st = "queued"
  BY DEF NewDelivery
<1>9. \A k \in fg : HasRow(mgr', k)
  <2>1. \A k \in Jobs : Done(mgr.row[k]).status # "none"
    BY BInvParts, PartsOf, DoneTyped
  <2> QED
    BY <1>4, <1>7, <2>1, BInvParts DEF HasRow, RowsDone
<1> QED
  BY <1>2, <1>4, <1>6, <1>7, <1>8, <1>9, BInvParts, BInvHolds

LEMMA SwapFinite ==
  ASSUME NEW S, IsFiniteSet(S), NEW A, NEW B, IsFiniteSet(B)
  PROVE  IsFiniteSet((S \ A) \cup B)
<1>1. IsFiniteSet(S \ A)
  BY FS_Subset
<1> QED
  BY <1>1, FS_Union

LEMMA ImageFinite ==
  ASSUME NEW S, IsFiniteSet(S), NEW f
  PROVE  IsFiniteSet({f[d] : d \in S})
<1> DEFINE T == {f[d] : d \in S}
           g == [d \in S |-> f[d]]
<1>1. g \in Surjection(S, T)
  BY DEF Surjection
<1> HIDE DEF T, g
<1>2. IsFiniteSet(T)
  BY <1>1, FS_Surjection
<1> QED
  BY <1>2 DEF T

LEMMA DeliveryLoopIs ==
  ASSUME BInv, DeliveryLoop
  PROVE  /\ ManagerOK(mgr') /\ mgr'.row = mgr.row /\ mgr'.suppressed = mgr.suppressed
         /\ mgr'.watched = mgr.watched /\ mgr'.consumed = mgr.consumed
         /\ \/ \E d \in mgr.deliveries :
                  /\ d.st \in InManager /\ Suppressed(mgr, d.job)
                  /\ mgr'.deliveries = mgr.deliveries \ {d}
            \/ \E d \in mgr.deliveries :
                  /\ d.st = "queued" /\ ~Suppressed(mgr, d.job)
                  /\ mgr'.deliveries = (mgr.deliveries \ {d}) \cup {Handed(d, epoch)}
            \/ mgr'.deliveries = mgr.deliveries
<1>1. ManagerOK(mgr) /\ epoch \in Epochs
  BY BInvParts
<1>2. ASSUME NEW d \in Waiting(mgr), Suppressed(mgr, d.job),
             mgr' = [mgr EXCEPT !.deliveries = @ \ {d}]
      PROVE  /\ ManagerOK(mgr') /\ mgr'.row = mgr.row /\ mgr'.suppressed = mgr.suppressed
             /\ mgr'.watched = mgr.watched /\ mgr'.consumed = mgr.consumed
             /\ mgr'.deliveries = mgr.deliveries \ {d}
             /\ d \in mgr.deliveries /\ d.st \in InManager
  <2> DEFINE ds == mgr.deliveries \ {d}
  <2>1. /\ ds \in SUBSET Deliveries /\ IsFiniteSet(ds)
        /\ \A x \in ds : x.st \in InManager => x.job \notin mgr.suppressed
    BY <1>1, PartsOf, FS_Subset DEF Unacknowledged
  <2>2. mgr' = [mgr EXCEPT !.deliveries = ds]
    BY <1>2
  <2> HIDE DEF ds
  <2>3. /\ ManagerOK(mgr') /\ mgr'.row = mgr.row /\ mgr'.suppressed = mgr.suppressed
        /\ mgr'.watched = mgr.watched /\ mgr'.consumed = mgr.consumed
        /\ mgr'.deliveries = ds /\ mgr'.loop = mgr.loop
    BY <1>1, <2>1, <2>2, MoveOK
  <2> QED
    BY <2>3 DEF ds, Waiting
<1>3. ASSUME NEW d \in Waiting(mgr), d.st = "queued",
             mgr' = [mgr EXCEPT !.deliveries = (@ \ {d}) \cup {Handed(d, epoch)}]
      PROVE  /\ ManagerOK(mgr') /\ mgr'.row = mgr.row /\ mgr'.suppressed = mgr.suppressed
             /\ mgr'.watched = mgr.watched /\ mgr'.consumed = mgr.consumed
             /\ mgr'.deliveries = (mgr.deliveries \ {d}) \cup {Handed(d, epoch)}
             /\ d \in mgr.deliveries
  <2> DEFINE ds == (mgr.deliveries \ {d}) \cup {Handed(d, epoch)}
  <2>1. d \in mgr.deliveries /\ d \in Deliveries
    BY <1>1, PartsOf DEF Waiting
  <2>2. Handed(d, epoch) \in Deliveries /\ Handed(d, epoch).st = "formatting"
    BY <1>1, <2>1, HandedIs
  <2>3. IsFiniteSet(ds)
    BY <1>1, PartsOf, SwapFinite, FS_Singleton
  <2>4. /\ ds \in SUBSET Deliveries
        /\ \A x \in ds : x.st \in InManager => x.job \notin mgr.suppressed
    BY <1>1, <2>2, PartsOf DEF Unacknowledged, InManager
  <2>5. mgr' = [mgr EXCEPT !.deliveries = ds]
    BY <1>3
  <2> HIDE DEF ds
  <2>6. /\ ManagerOK(mgr') /\ mgr'.row = mgr.row /\ mgr'.suppressed = mgr.suppressed
        /\ mgr'.watched = mgr.watched /\ mgr'.consumed = mgr.consumed
        /\ mgr'.deliveries = ds /\ mgr'.loop = mgr.loop
    BY <1>1, <2>3, <2>4, <2>5, MoveOK
  <2> QED
    BY <2>1, <2>6 DEF ds
<1>4. ASSUME mgr' = [mgr EXCEPT !.loop = "ending"]
      PROVE  /\ ManagerOK(mgr') /\ mgr'.row = mgr.row /\ mgr'.suppressed = mgr.suppressed
             /\ mgr'.watched = mgr.watched /\ mgr'.consumed = mgr.consumed
             /\ mgr'.deliveries = mgr.deliveries
  BY <1>1, <1>4, LoopOK
<1>5. ASSUME LoopEnds
      PROVE  /\ ManagerOK(mgr') /\ mgr'.row = mgr.row /\ mgr'.suppressed = mgr.suppressed
             /\ mgr'.watched = mgr.watched /\ mgr'.consumed = mgr.consumed
             /\ mgr'.deliveries = mgr.deliveries
  <2> DEFINE x == [mgr EXCEPT !.loop = "off"]
  <2>1. /\ ManagerOK(x) /\ x.row = mgr.row /\ x.suppressed = mgr.suppressed
        /\ x.watched = mgr.watched /\ x.consumed = mgr.consumed
        /\ x.deliveries = mgr.deliveries /\ x.loop = "off"
    BY <1>1, LoopOK
  <2>2. mgr' = EnsureLoop(x)
    BY <1>5 DEF LoopEnds
  <2> HIDE DEF x
  <2>3. /\ ManagerOK(mgr') /\ mgr'.row = x.row /\ mgr'.suppressed = x.suppressed
        /\ mgr'.watched = x.watched /\ mgr'.consumed = x.consumed /\ mgr'.deliveries = x.deliveries
    BY <2>1, <2>2, EnsureOK
  <2> QED
    BY <2>1, <2>3
<1>6. CASE \E d \in Waiting(mgr) :
              /\ mgr.loop = "on"
              /\ IF Suppressed(mgr, d.job)
                 THEN mgr' = [mgr EXCEPT !.deliveries = @ \ {d}]
                 ELSE /\ d.st = "queued"
                      /\ mgr' = [mgr EXCEPT !.deliveries = (@ \ {d}) \cup {Handed(d, epoch)}]
  <2>1. PICK d \in Waiting(mgr) :
              /\ mgr.loop = "on"
              /\ IF Suppressed(mgr, d.job)
                 THEN mgr' = [mgr EXCEPT !.deliveries = @ \ {d}]
                 ELSE /\ d.st = "queued"
                      /\ mgr' = [mgr EXCEPT !.deliveries = (@ \ {d}) \cup {Handed(d, epoch)}]
    BY <1>6
  <2>2. CASE Suppressed(mgr, d.job)
    BY <1>2, <2>1, <2>2
  <2>3. CASE ~Suppressed(mgr, d.job)
    BY <1>3, <2>1, <2>3
  <2> QED
    BY <2>2, <2>3
<1> QED
  BY <1>4, <1>5, <1>6 DEF DeliveryLoop, Handed

LEMMA BDeliveryLoop ==
  ASSUME BInv, DeliveryLoop
  PROVE  BInv'
<1>1. UNCHANGED <<session, epoch, hub, fg, injected, recovered>>
  BY DEF DeliveryLoop
<1>2. \A d \in mgr.deliveries : Handed(d, epoch).st = "formatting"
  BY BInvParts, PartsOf, HandedIs
<1>3. /\ ManagerOK(mgr') /\ mgr'.row = mgr.row /\ mgr'.suppressed = mgr.suppressed
      /\ mgr'.watched = mgr.watched
      /\ \A d \in mgr'.deliveries : d.st = "pulled" => d \in mgr.deliveries
  BY <1>2, DeliveryLoopIs
<1>4. \A j \in fg : HasRow(mgr', j)
  BY <1>3, BInvParts DEF HasRow
<1> QED
  BY <1>1, <1>3, <1>4, BInvParts, BInvHolds

LEMMA BackoffIs ==
  ASSUME BInv, NEW d \in mgr.deliveries, BackoffElapses(d)
  PROVE  LET q == [d EXCEPT !.st = "queued"] IN
         /\ ManagerOK(mgr') /\ mgr'.row = mgr.row /\ mgr'.suppressed = mgr.suppressed
         /\ mgr'.watched = mgr.watched /\ mgr'.consumed = mgr.consumed
         /\ mgr'.deliveries = (mgr.deliveries \ {d}) \cup {q}
         /\ q.job = d.job /\ q.run = d.run /\ q.born = d.born /\ q.st = "queued"
         /\ q.epoch = d.epoch
<1> DEFINE q  == [d EXCEPT !.st = "queued"]
           ds == (mgr.deliveries \ {d}) \cup {q}
<1>1. ManagerOK(mgr) /\ d \in Deliveries /\ d.st = "backoff"
  BY BInvParts, PartsOf DEF BackoffElapses
<1>2. /\ q \in Deliveries /\ q.st = "queued" /\ q.job = d.job /\ q.run = d.run /\ q.born = d.born
      /\ q.epoch = d.epoch
  BY <1>1, MovedIs DEF InManager
<1>3. mgr' = [mgr EXCEPT !.deliveries = ds]
  BY DEF BackoffElapses
<1> HIDE DEF q
<1>4. d.job \notin mgr.suppressed
  BY <1>1, PartsOf DEF Unacknowledged, InManager
<1>5. IsFiniteSet(ds)
  BY <1>1, PartsOf, SwapFinite, FS_Singleton
<1>6. /\ ds \in SUBSET Deliveries
      /\ \A x \in ds : x.st \in InManager => x.job \notin mgr.suppressed
  BY <1>1, <1>2, <1>4, PartsOf DEF Unacknowledged
<1> HIDE DEF ds
<1>7. /\ ManagerOK(mgr') /\ mgr'.row = mgr.row /\ mgr'.suppressed = mgr.suppressed
      /\ mgr'.watched = mgr.watched /\ mgr'.consumed = mgr.consumed
      /\ mgr'.deliveries = ds /\ mgr'.loop = mgr.loop
  BY <1>1, <1>3, <1>5, <1>6, MoveOK
<1> QED
  BY <1>2, <1>7 DEF ds, q

LEMMA BBackoffElapses ==
  ASSUME BInv, NEW d \in mgr.deliveries, BackoffElapses(d)
  PROVE  BInv'
<1>1. UNCHANGED <<session, epoch, hub, fg, injected, recovered>>
  BY DEF BackoffElapses
<1> DEFINE q == [d EXCEPT !.st = "queued"]
<1>2. /\ ManagerOK(mgr') /\ mgr'.row = mgr.row /\ mgr'.suppressed = mgr.suppressed
      /\ mgr'.watched = mgr.watched /\ mgr'.consumed = mgr.consumed
      /\ mgr'.deliveries = (mgr.deliveries \ {d}) \cup {q}
      /\ q.job = d.job /\ q.run = d.run /\ q.born = d.born /\ q.st = "queued"
      /\ q.epoch = d.epoch
  BY BackoffIs
<1> HIDE DEF q
<1>3. \A j \in fg : HasRow(mgr', j)
  BY <1>2, BInvParts DEF HasRow
<1> QED
  BY <1>1, <1>2, <1>3, BInvParts, BInvHolds

LEMMA FormatIs ==
  ASSUME BInv, NEW d \in mgr.deliveries, FormatReturns(d)
  PROVE  LET q == [d EXCEPT !.st = "parked"] IN
         /\ ManagerOK(mgr') /\ mgr'.suppressed = mgr.suppressed /\ mgr'.watched = mgr.watched
         /\ NoLongerWanted(d) =>
               /\ mgr'.row = RowsAfterReturn(mgr, {d})
               /\ mgr'.consumed = mgr.consumed \cup ShownBy(mgr, {d})
               /\ mgr'.deliveries = mgr.deliveries \ {d}
         /\ ~NoLongerWanted(d) =>
               /\ mgr'.row = mgr.row /\ mgr'.consumed = mgr.consumed
               /\ mgr'.deliveries = (mgr.deliveries \ {d}) \cup {q}
         /\ q.job = d.job /\ q.run = d.run /\ q.born = d.born /\ q.st = "parked"
         /\ q.epoch = d.epoch /\ d.st = "formatting"
<1> DEFINE q  == [d EXCEPT !.st = "parked"]
           ds == (mgr.deliveries \ {d}) \cup {q}
<1>1. ManagerOK(mgr) /\ d \in Deliveries /\ d.st = "formatting"
  BY BInvParts, PartsOf DEF FormatReturns
<1>2. /\ q \in Deliveries /\ q.st = "parked" /\ q.job = d.job /\ q.run = d.run /\ q.born = d.born
      /\ q.epoch = d.epoch
  BY <1>1, MovedIs DEF InSession
<1>3. mgr' = IF NoLongerWanted(d) THEN SinkReturned(mgr, d) ELSE [mgr EXCEPT !.deliveries = ds]
  BY DEF FormatReturns
<1> HIDE DEF q
<1>4. CASE NoLongerWanted(d)
  <2>1. mgr' = SinkReturned(mgr, d)
    BY <1>3, <1>4
  <2>2. /\ ManagerOK(mgr') /\ mgr'.row = RowsAfterReturn(mgr, {d})
        /\ mgr'.suppressed = mgr.suppressed
        /\ mgr'.watched = mgr.watched /\ mgr'.consumed = mgr.consumed \cup ShownBy(mgr, {d})
        /\ mgr'.deliveries = mgr.deliveries \ {d}
    BY <1>1, <2>1, SinkReturnedOK DEF InSession
  <2> QED
    BY <1>1, <1>2, <1>4, <2>2 DEF q
<1>5. CASE ~NoLongerWanted(d)
  <2>1. mgr' = [mgr EXCEPT !.deliveries = ds]
    BY <1>3, <1>5
  <2>2. IsFiniteSet(ds)
    BY <1>1, PartsOf, SwapFinite, FS_Singleton
  <2>3. /\ ds \in SUBSET Deliveries
        /\ \A x \in ds : x.st \in InManager => x.job \notin mgr.suppressed
    BY <1>1, <1>2, PartsOf DEF Unacknowledged, InManager
  <2> HIDE DEF ds
  <2>4. /\ ManagerOK(mgr') /\ mgr'.row = mgr.row /\ mgr'.suppressed = mgr.suppressed
        /\ mgr'.watched = mgr.watched /\ mgr'.consumed = mgr.consumed
        /\ mgr'.deliveries = ds /\ mgr'.loop = mgr.loop
    BY <1>1, <2>1, <2>2, <2>3, MoveOK
  <2> QED
    BY <1>1, <1>2, <1>5, <2>4 DEF ds, q
<1> QED
  BY <1>4, <1>5

LEMMA ReturnKeepsRows ==
  ASSUME NEW m, m.row \in [Jobs -> Rows], NEW ds, NEW j \in Jobs
  PROVE  LET r == RowsAfterReturn(m, ds)[j] IN
         /\ r.status = m.row[j].status /\ r.run = m.row[j].run
         /\ r.born = m.row[j].born /\ r.busy = m.row[j].busy
         /\ r.timer = IF Hastened(m, ds, j) THEN "short" ELSE m.row[j].timer
BY DEF RowsAfterReturn, Rows

LEMMA BFormatReturns ==
  ASSUME BInv, NEW d \in mgr.deliveries, FormatReturns(d)
  PROVE  BInv'
<1>1. UNCHANGED <<session, epoch, hub, fg, injected, recovered>>
  BY DEF FormatReturns
<1> DEFINE q == [d EXCEPT !.st = "parked"]
<1>2. /\ ManagerOK(mgr') /\ mgr'.suppressed = mgr.suppressed /\ mgr'.watched = mgr.watched
      /\ NoLongerWanted(d) =>
            /\ mgr'.row = RowsAfterReturn(mgr, {d})
            /\ mgr'.consumed = mgr.consumed \cup ShownBy(mgr, {d})
            /\ mgr'.deliveries = mgr.deliveries \ {d}
      /\ ~NoLongerWanted(d) =>
            /\ mgr'.row = mgr.row /\ mgr'.consumed = mgr.consumed
            /\ mgr'.deliveries = (mgr.deliveries \ {d}) \cup {q}
      /\ q.job = d.job /\ q.run = d.run /\ q.born = d.born /\ q.st = "parked"
      /\ q.epoch = d.epoch /\ d.st = "formatting"
  BY FormatIs
<1> HIDE DEF q
<1>3. \A j \in fg : HasRow(mgr', j)
  BY <1>2, BInvParts, PartsOf, ReturnKeepsRows DEF HasRow
<1>4. \A x \in mgr'.deliveries : x.st = "pulled" => x \in mgr.deliveries
  BY <1>2
<1> QED
  BY <1>1, <1>2, <1>3, <1>4, BInvParts, BInvHolds

LEMMA MayThrowIs ==
  ASSUME NEW ds, MayThrow(ds)
  PROVE  \A d \in ds : Wanted(mgr, d.job) => d.tries < MaxTries
BY DEF MayThrow, Wanted

(* The idle flush, in two steps: what is stale is thrown out, and the sink  *)
(* returns from the rest.                                                   *)
LEMMA IdleFlushIs ==
  ASSUME BInv, IdleFlush
  PROVE  LET stale == {d \in Parked : Stale(d)}
             taken == Parked \ stale
             x     == Throw(mgr, stale)
         IN
         /\ ManagerOK(x) /\ x.row = mgr.row /\ x.suppressed = mgr.suppressed
         /\ x.watched = mgr.watched /\ x.consumed = mgr.consumed
         /\ x.deliveries = LeftAfterThrow(mgr, stale)
         /\ taken \subseteq x.deliveries /\ \A d \in taken : d.st = "parked"
         /\ ManagerOK(mgr') /\ mgr'.row = RowsAfterReturn(x, taken)
         /\ mgr'.suppressed = x.suppressed /\ mgr'.watched = x.watched
         /\ mgr'.consumed = x.consumed \cup ShownBy(x, taken)
         /\ mgr'.deliveries = x.deliveries \ taken
         /\ Inject(taken)
<1> DEFINE stale == {d \in Parked : Stale(d)}
           taken == Parked \ stale
           x     == Throw(mgr, stale)
<1>1. ManagerOK(mgr)
  BY BInvParts
<1>2. mgr' = Return(x, taken) /\ Inject(taken) /\ MayThrow(stale)
  BY DEF IdleFlush
<1>3. /\ stale \in SUBSET mgr.deliveries /\ taken \in SUBSET mgr.deliveries
      /\ \A d \in stale \cup taken : d.st = "parked"
      /\ taken \cap stale = {}
  BY DEF Parked
<1> HIDE DEF taken, stale
<1>4. /\ ManagerOK(x) /\ x.row = mgr.row /\ x.suppressed = mgr.suppressed
      /\ x.watched = mgr.watched /\ x.consumed = mgr.consumed
      /\ x.deliveries = LeftAfterThrow(mgr, stale)
  BY <1>1, <1>2, <1>3, MayThrowIs, ThrowOK
<1> HIDE DEF x
<1>5. taken \in SUBSET x.deliveries
  BY <1>3, <1>4 DEF LeftAfterThrow
<1>6. \A d \in taken : d.st \in InSession
  BY <1>3 DEF InSession
<1>7. /\ ManagerOK(mgr') /\ mgr'.row = RowsAfterReturn(x, taken)
      /\ mgr'.suppressed = x.suppressed /\ mgr'.watched = x.watched
      /\ mgr'.consumed = x.consumed \cup ShownBy(x, taken)
      /\ mgr'.deliveries = x.deliveries \ taken
  BY <1>2, <1>4, <1>5, <1>6, ReturnOK
<1> QED
  BY <1>2, <1>3, <1>4, <1>5, <1>7 DEF x, taken, stale

LEMMA LeftIs ==
  ASSUME NEW m, m.deliveries \subseteq Deliveries, NEW ds \in SUBSET m.deliveries,
         NEW x \in LeftAfterThrow(m, ds)
  PROVE  \/ x \in m.deliveries \ ds
         \/ \E d \in ds : /\ Wanted(m, d.job) /\ x = ThrownBack(d)
                          /\ x.job = d.job /\ x.run = d.run /\ x.born = d.born
                          /\ x.st = "backoff" /\ x.epoch = 0
<1>1. ASSUME x \notin m.deliveries \ ds
      PROVE  \E d \in ds : Wanted(m, d.job) /\ x = ThrownBack(d)
  BY <1>1 DEF LeftAfterThrow
<1>2. \A d \in ds : LET b == ThrownBack(d) IN
        b.job = d.job /\ b.run = d.run /\ b.born = d.born /\ b.st = "backoff" /\ b.epoch = 0
  BY ThrownBackIs
<1> QED
  BY <1>1, <1>2

LEMMA BIdleFlush ==
  ASSUME BInv, IdleFlush
  PROVE  BInv'
<1> DEFINE stale == {d \in Parked : Stale(d)}
           taken == Parked \ stale
           x     == Throw(mgr, stale)
<1>1. /\ session = "idle" /\ session' \in {"idle", "tools"}
      /\ UNCHANGED <<epoch, hub, fg, recovered>>
  BY DEF IdleFlush
<1>2. /\ ManagerOK(x) /\ x.row = mgr.row /\ x.suppressed = mgr.suppressed
      /\ x.watched = mgr.watched /\ x.consumed = mgr.consumed
      /\ x.deliveries = LeftAfterThrow(mgr, stale)
      /\ taken \subseteq x.deliveries /\ \A d \in taken : d.st = "parked"
      /\ ManagerOK(mgr') /\ mgr'.row = RowsAfterReturn(x, taken)
      /\ mgr'.suppressed = x.suppressed /\ mgr'.watched = x.watched
      /\ mgr'.consumed = x.consumed \cup ShownBy(x, taken)
      /\ mgr'.deliveries = x.deliveries \ taken
      /\ Inject(taken)
  BY IdleFlushIs
<1>3. taken \in SUBSET mgr.deliveries /\ stale \in SUBSET mgr.deliveries
  BY DEF Parked
<1> HIDE DEF stale, taken, x
<1>4. injected' \in [Jobs \X Runs -> Nat]
  BY <1>2, <1>3, InjectTyped
<1>5. \A d \in mgr'.deliveries : d.st # "pulled"
  <2>1. \A d \in mgr.deliveries : d.st # "pulled"
    BY <1>1, BInvParts
  <2>2. \A d \in LeftAfterThrow(mgr, stale) : d.st # "pulled"
    BY <1>3, <2>1, BInvParts, PartsOf, LeftIs
  <2> QED
    BY <1>2, <2>2
<1>6. hub \cup fg = {}
  BY <1>1, BInvParts
<1> QED
  BY <1>1, <1>2, <1>4, <1>5, <1>6, BInvParts, BInvHolds

Taken(d) == [d EXCEPT !.st = "pulled"]

LEMMA PullIs ==
  ASSUME BInv, PullAsides
  PROVE  LET stale == {d \in Parked : Stale(d)}
             taken == Parked \ stale
             ds    == (mgr.deliveries \ taken) \cup {Taken(d) : d \in taken}
             x     == [mgr EXCEPT !.deliveries = ds]
         IN
         /\ ManagerOK(x) /\ x.row = mgr.row /\ x.suppressed = mgr.suppressed
         /\ x.watched = mgr.watched /\ x.consumed = mgr.consumed
         /\ x.deliveries = ds /\ stale \in SUBSET x.deliveries
         /\ ManagerOK(mgr') /\ mgr'.row = x.row
         /\ mgr'.suppressed = x.suppressed /\ mgr'.watched = x.watched
         /\ mgr'.consumed = x.consumed
         /\ mgr'.deliveries = LeftAfterThrow(x, stale)
<1> DEFINE stale == {d \in Parked : Stale(d)}
           taken == Parked \ stale
           ds    == (mgr.deliveries \ taken) \cup {Taken(d) : d \in taken}
           x     == [mgr EXCEPT !.deliveries = ds]
<1>1. ManagerOK(mgr)
  BY BInvParts
<1>2. mgr' = Throw(x, stale) /\ MayThrow(stale)
  BY DEF PullAsides, Taken
<1>3. /\ stale \in SUBSET mgr.deliveries /\ taken \in SUBSET mgr.deliveries
      /\ \A d \in stale \cup taken : d.st = "parked"
      /\ taken \cap stale = {}
  BY DEF Parked
<1> HIDE DEF taken, stale
<1>4. \A d \in taken : Taken(d) \in Deliveries /\ Taken(d).st = "pulled"
  <2> TAKE d \in taken
  <2>1. d \in Deliveries /\ d.st = "parked"
    BY <1>1, <1>3, PartsOf
  <2> QED
    BY <2>1, MovedIs DEF Taken, InSession
<1>5. IsFiniteSet(ds)
  <2> DEFINE f == [d \in taken |-> Taken(d)]
  <2>1. IsFiniteSet(taken)
    BY <1>1, <1>3, PartsOf, FS_Subset
  <2>2. {Taken(d) : d \in taken} = {f[d] : d \in taken}
    OBVIOUS
  <2> HIDE DEF f
  <2>3. IsFiniteSet({Taken(d) : d \in taken})
    BY <2>1, <2>2, ImageFinite
  <2> QED
    BY <1>1, <2>3, PartsOf, SwapFinite
<1>6. /\ ds \in SUBSET Deliveries
      /\ \A d \in ds : d.st \in InManager => d.job \notin mgr.suppressed
  BY <1>1, <1>4, PartsOf DEF Unacknowledged, InManager
<1>7. stale \subseteq ds
  BY <1>3
<1> HIDE DEF ds
<1>8. /\ ManagerOK(x) /\ x.row = mgr.row /\ x.suppressed = mgr.suppressed
      /\ x.watched = mgr.watched /\ x.consumed = mgr.consumed
      /\ x.deliveries = ds /\ x.loop = mgr.loop
  BY <1>1, <1>5, <1>6, MoveOK
<1> HIDE DEF x
<1>9. stale \in SUBSET x.deliveries
  BY <1>7, <1>8
<1>10. \A d \in stale : Wanted(x, d.job) => d.tries < MaxTries
  BY <1>2, <1>8, MayThrowIs DEF Wanted, Suppressed, HasRow
<1>11. \A d \in stale : d.st \in {"parked", "pulled"}
  BY <1>3
<1>12. /\ ManagerOK(mgr') /\ mgr'.row = x.row /\ mgr'.suppressed = x.suppressed
       /\ mgr'.watched = x.watched /\ mgr'.consumed = x.consumed
       /\ mgr'.deliveries = LeftAfterThrow(x, stale)
  BY <1>2, <1>8, <1>9, <1>10, <1>11, ThrowOK
<1> QED
  BY <1>8, <1>9, <1>12 DEF x, ds, taken, stale

LEMMA BPullAsides ==
  ASSUME BInv, PullAsides
  PROVE  BInv'
<1> DEFINE stale == {d \in Parked : Stale(d)}
           taken == Parked \ stale
           ds    == (mgr.deliveries \ taken) \cup {Taken(d) : d \in taken}
           x     == [mgr EXCEPT !.deliveries = ds]
<1>1. /\ hub = {} /\ fg = {} /\ session' = "boundary"
      /\ UNCHANGED <<epoch, hub, fg, injected, recovered>>
  BY DEF PullAsides
<1>2. /\ ManagerOK(x) /\ x.row = mgr.row /\ x.suppressed = mgr.suppressed
      /\ x.watched = mgr.watched /\ x.consumed = mgr.consumed
      /\ x.deliveries = ds /\ stale \in SUBSET x.deliveries
      /\ ManagerOK(mgr') /\ mgr'.row = x.row
      /\ mgr'.suppressed = x.suppressed /\ mgr'.watched = x.watched
      /\ mgr'.consumed = x.consumed
      /\ mgr'.deliveries = LeftAfterThrow(x, stale)
  BY PullIs
<1> HIDE DEF x, ds, stale, taken
<1> QED
  BY <1>1, <1>2, BInvParts, BInvHolds

LEMMA CommitIs ==
  ASSUME BInv, CommitAsides
  PROVE  /\ ManagerOK(mgr') /\ mgr'.row = RowsAfterReturn(mgr, Pulled)
         /\ mgr'.suppressed = mgr.suppressed /\ mgr'.watched = mgr.watched
         /\ mgr'.consumed = mgr.consumed \cup ShownBy(mgr, Pulled)
         /\ mgr'.deliveries = mgr.deliveries \ Pulled
         /\ Pulled \in SUBSET mgr.deliveries /\ Inject(Pulled)
<1>1. ManagerOK(mgr)
  BY BInvParts
<1>2. mgr' = Return(mgr, Pulled) /\ Inject(Pulled)
  BY DEF CommitAsides
<1>3. Pulled \in SUBSET mgr.deliveries /\ \A d \in Pulled : d.st \in InSession
  BY DEF Pulled, InSession
<1> QED
  BY <1>1, <1>2, <1>3, ReturnOK

LEMMA BCommitAsides ==
  ASSUME BInv, CommitAsides
  PROVE  BInv'
<1>1. /\ session = "boundary" /\ session' \in {"tools", "idle"}
      /\ UNCHANGED <<epoch, hub, fg, recovered>>
  BY DEF CommitAsides
<1>2. /\ ManagerOK(mgr') /\ mgr'.row = RowsAfterReturn(mgr, Pulled)
      /\ mgr'.suppressed = mgr.suppressed /\ mgr'.watched = mgr.watched
      /\ mgr'.consumed = mgr.consumed \cup ShownBy(mgr, Pulled)
      /\ mgr'.deliveries = mgr.deliveries \ Pulled
      /\ Pulled \in SUBSET mgr.deliveries /\ Inject(Pulled)
  BY CommitIs
<1>3. injected' \in [Jobs \X Runs -> Nat]
  BY <1>2, InjectTyped
<1>4. \A d \in mgr'.deliveries : d.st # "pulled"
  BY <1>2 DEF Pulled
<1>5. hub \cup fg = {}
  BY <1>1, BInvParts
<1> QED
  BY <1>1, <1>2, <1>3, <1>4, <1>5, BInvParts, BInvHolds

(* A row as a reader leaves it. *)
SameButTimer(r, s) ==
  /\ s.status = r.status /\ s.run = r.run /\ s.born = r.born /\ s.busy = r.busy
  /\ s.timer \in {r.timer, "short"}

LEMMA ConsumeResultsIs ==
  ASSUME NEW m, ManagerOK(m), NEW js \in SUBSET Jobs
  PROVE  LET n == ConsumeJobResults(m, js) IN
         /\ ManagerOK(n)
         /\ n.suppressed = m.suppressed \cup js /\ n.watched = m.watched
         /\ n.deliveries = {d \in m.deliveries :
               d.st \in InManager => d.job \notin m.suppressed \cup js \cup m.watched}
         /\ \A j \in Jobs : /\ SameButTimer(m.row[j], n.row[j])
                            /\ n.row[j].timer = m.row[j].timer \/ OfJob(n, j) = {}
<1> DEFINE a == Acknowledge(m, js)
           n == Consume(a, js)
           newly == {j \in js \ a.consumed : HasResult(a, j)}
<1>1. ManagerOK(a)
  BY AcknowledgeOK
<1>2. /\ a.row = m.row /\ a.suppressed = m.suppressed \cup js /\ a.watched = m.watched
      /\ a.deliveries = {d \in m.deliveries :
            d.st \in InManager => d.job \notin m.suppressed \cup js \cup m.watched}
  BY PartsOf, AcknowledgeIs
<1> HIDE DEF a
<1>3. ManagerOK(n)
  BY <1>1, ConsumeOK
<1>4. /\ IsRec(n) /\ n.consumed = a.consumed \cup newly
      /\ n.row = [j \in Jobs |-> IF j \in newly /\ OfJob(a, j) = {}
                                 THEN [a.row[j] EXCEPT !.timer = "short"] ELSE a.row[j]]
      /\ n.suppressed = a.suppressed /\ n.watched = a.watched
      /\ n.deliveries = a.deliveries /\ n.loop = a.loop
  BY <1>1, PartsOf, ConsumeIs
<1> HIDE DEF n, newly
<1>5. ASSUME NEW j \in Jobs
      PROVE  /\ SameButTimer(m.row[j], n.row[j])
             /\ n.row[j].timer = m.row[j].timer \/ OfJob(n, j) = {}
  <2>1. OfJob(n, j) = OfJob(a, j)
    BY <1>4 DEF OfJob
  <2>2. m.row[j] \in Rows /\ n.row[j] = IF j \in newly /\ OfJob(a, j) = {}
                   THEN [m.row[j] EXCEPT !.timer = "short"] ELSE m.row[j]
    BY <1>2, <1>4, PartsOf
  <2> QED
    BY <2>1, <2>2 DEF SameButTimer, Rows
<1>6. ConsumeJobResults(m, js) = n
  BY DEF ConsumeJobResults, n, a
<1> QED
  BY <1>2, <1>3, <1>4, <1>5, <1>6

SettledOf(m, js) == {j \in js : m.row[j].status \in {"completed", "cancelled"}}

LEMMA SnapshotIs ==
  ASSUME NEW m, ManagerOK(m), NEW js \in SUBSET Jobs
  PROVE  LET n  == SnapshotOf(m, js)
             ks == SettledOf(m, js)
         IN
         /\ ManagerOK(n)
         /\ n.suppressed = m.suppressed \cup ks /\ n.watched = m.watched
         /\ n.deliveries = {d \in m.deliveries :
               d.st \in InManager => d.job \notin m.suppressed \cup ks \cup m.watched}
         /\ \A j \in Jobs : /\ SameButTimer(m.row[j], n.row[j])
                            /\ n.row[j].timer = m.row[j].timer \/ OfJob(n, j) = {}
<1> DEFINE ks == SettledOf(m, js)
<1>1. ks \in SUBSET Jobs
  BY DEF SettledOf
<1>2. SnapshotOf(m, js) = ConsumeJobResults(m, ks)
  BY DEF SnapshotOf, SettledOf
<1> HIDE DEF ks
<1> DEFINE n == ConsumeJobResults(m, ks)
<1>3. /\ ManagerOK(n)
      /\ n.suppressed = m.suppressed \cup ks /\ n.watched = m.watched
      /\ n.deliveries = {d \in m.deliveries :
            d.st \in InManager => d.job \notin m.suppressed \cup ks \cup m.watched}
      /\ \A j \in Jobs : /\ SameButTimer(m.row[j], n.row[j])
                         /\ n.row[j].timer = m.row[j].timer \/ OfJob(n, j) = {}
  BY <1>1, ConsumeResultsIs
<1> HIDE DEF n
<1> QED
  BY <1>2, <1>3 DEF n, ks

LEMMA CancelKeeps ==
  ASSUME NEW m, ManagerOK(m), NEW js, NEW j \in Jobs
  PROVE  LET r == CancelJobs(m, js).row[j] IN
         /\ r.run = m.row[j].run /\ r.born = m.row[j].born /\ r.busy = m.row[j].busy
         /\ r.timer = m.row[j].timer
         /\ r.status = IF j \in js /\ m.row[j].status = "running" THEN "cancelled"
                       ELSE m.row[j].status
<1> DEFINE n == CancelJobs(m, js)
<1>1. n.row = [k \in Jobs |-> IF k \in js /\ m.row[k].status = "running"
                              THEN [m.row[k] EXCEPT !.status = "cancelled"] ELSE m.row[k]]
  BY PartsOf, CancelIs
<1>2. m.row[j] \in Rows
  BY PartsOf
<1> HIDE DEF n
<1>3. n.row[j] = IF j \in js /\ m.row[j].status = "running"
                 THEN [m.row[j] EXCEPT !.status = "cancelled"] ELSE m.row[j]
  BY <1>1
<1>4. LET r == n.row[j] IN
      /\ r.run = m.row[j].run /\ r.born = m.row[j].born /\ r.busy = m.row[j].busy
      /\ r.timer = m.row[j].timer
      /\ r.status = IF j \in js /\ m.row[j].status = "running" THEN "cancelled"
                    ELSE m.row[j].status
  BY <1>2, <1>3 DEF Rows
<1> QED
  BY <1>4 DEF n

LEMMA BHubWait ==
  ASSUME BInv, NEW js \in SUBSET Jobs, HubWait(js)
  PROVE  BInv'
<1>1. /\ session = "tools" /\ hub = {} /\ hub' = js
      /\ mgr' = [mgr EXCEPT !.watched = @ \cup js]
      /\ UNCHANGED <<session, epoch, fg, injected, recovered>>
  BY DEF HubWait
<1> DEFINE w == mgr.watched \cup js
<1>2. w \in SUBSET Jobs /\ w = js
  BY <1>1, BInvParts
<1>3. mgr' = [mgr EXCEPT !.watched = w]
  BY <1>1
<1> HIDE DEF w
<1>4. ManagerOK(mgr')
  BY <1>2, <1>3, BInvParts, WatchOK
<1>5. /\ mgr'.row = mgr.row /\ mgr'.suppressed = mgr.suppressed /\ mgr'.watched = w
      /\ mgr'.deliveries = mgr.deliveries
  BY <1>3, BInvParts, PartsOf, WatchIs
<1>6. \A j \in fg : HasRow(mgr', j)
  BY <1>5, BInvParts DEF HasRow
<1> QED
  BY <1>1, <1>2, <1>4, <1>5, <1>6, BInvParts, BInvHolds

LEMMA HubWaitReturnsIs ==
  ASSUME BInv, HubWaitReturns
  PROVE  LET ks == SettledOf(mgr, hub) IN
         /\ ManagerOK(mgr')
         /\ mgr'.suppressed = mgr.suppressed \cup ks /\ mgr'.watched = {}
         /\ mgr'.deliveries = {d \in mgr.deliveries :
               d.st \in InManager => d.job \notin mgr.suppressed \cup ks}
         /\ \A j \in Jobs : /\ SameButTimer(mgr.row[j], mgr'.row[j])
                            /\ mgr'.row[j].timer = mgr.row[j].timer \/ OfJob(mgr', j) = {}
<1> DEFINE w == mgr.watched \ hub
           x == [mgr EXCEPT !.watched = w]
<1>1. ManagerOK(mgr) /\ w = {} /\ hub \in SUBSET Jobs
  BY BInvParts
<1>2. mgr' = SnapshotOf(x, hub)
  BY DEF HubWaitReturns
<1> HIDE DEF w
<1>3. ManagerOK(x)
  BY <1>1, WatchOK
<1>4. /\ x.row = mgr.row /\ x.suppressed = mgr.suppressed /\ x.watched = w
      /\ x.deliveries = mgr.deliveries
  BY <1>1, PartsOf, WatchIs
<1> HIDE DEF x
<1> DEFINE ks == SettledOf(x, hub)
<1>5. /\ ManagerOK(mgr')
      /\ mgr'.suppressed = x.suppressed \cup ks /\ mgr'.watched = x.watched
      /\ mgr'.deliveries = {d \in x.deliveries :
            d.st \in InManager => d.job \notin x.suppressed \cup ks \cup x.watched}
      /\ \A j \in Jobs : /\ SameButTimer(x.row[j], mgr'.row[j])
                         /\ mgr'.row[j].timer = x.row[j].timer \/ OfJob(mgr', j) = {}
  BY <1>1, <1>2, <1>3, SnapshotIs
<1>6. ks = SettledOf(mgr, hub)
  BY <1>4 DEF SettledOf
<1> HIDE DEF ks
<1> QED
  BY <1>1, <1>4, <1>5, <1>6

LEMMA BHubWaitReturns ==
  ASSUME BInv, HubWaitReturns
  PROVE  BInv'
<1>1. /\ hub # {} /\ hub' = {} /\ Recover(hub) /\ UNCHANGED <<session, epoch, fg, injected>>
  BY DEF HubWaitReturns
<1> DEFINE ks == SettledOf(mgr, hub)
<1>2. /\ ManagerOK(mgr')
      /\ mgr'.suppressed = mgr.suppressed \cup ks /\ mgr'.watched = {}
      /\ mgr'.deliveries = {d \in mgr.deliveries :
            d.st \in InManager => d.job \notin mgr.suppressed \cup ks}
      /\ \A j \in Jobs : /\ SameButTimer(mgr.row[j], mgr'.row[j])
                         /\ mgr'.row[j].timer = mgr.row[j].timer \/ OfJob(mgr', j) = {}
  BY HubWaitReturnsIs
<1>3. recovered' \subseteq Jobs \X Runs
  <2> DEFINE js == hub \ mgr.consumed
  <2>1. js \in SUBSET Jobs
    BY BInvParts
  <2>2. recovered' = recovered \cup {CurrentRun(j) : j \in {k \in js : HasResult(mgr, k)}}
    BY <1>1 DEF Recover
  <2> HIDE DEF js
  <2> QED
    BY <2>1, <2>2, BInvParts, RecoverTyped
<1>4. \A j \in fg : HasRow(mgr', j)
  BY <1>2, BInvParts DEF HasRow, SameButTimer
<1> HIDE DEF ks
<1>5. \A d \in mgr'.deliveries : d \in mgr.deliveries
  BY <1>2
<1>6. fg' \subseteq mgr'.suppressed /\ (hub' \cup fg' # {} => session' = "tools")
  BY <1>1, <1>2, BInvParts
<1> QED
  BY <1>1, <1>2, <1>3, <1>4, <1>5, <1>6, BInvParts, BInvHolds

LEMMA MessageIs ==
  ASSUME BInv, HubWaitGetsMessage
  PROVE  \E late \in SUBSET {j \in hub : mgr.row[j].busy} :
         /\ ManagerOK(mgr') /\ mgr'.suppressed = mgr.suppressed /\ mgr'.watched = {}
         /\ mgr'.row = RowsDone(mgr, late)
         /\ mgr'.consumed = mgr.consumed /\ mgr'.deliveries = mgr.deliveries
<1>1. PICK m \in PhotoFinishes(mgr, hub) : mgr' = [m EXCEPT !.watched = @ \ hub]
  BY DEF HubWaitGetsMessage
<1>2. ManagerOK(mgr) /\ hub \in SUBSET Jobs /\ mgr.watched = hub
  BY BInvParts
<1>3. \A k \in hub : Suppressed(mgr, k)
  BY <1>2 DEF Suppressed
<1>5. PICK late \in SUBSET {k \in hub : mgr.row[k].busy} :
         /\ ManagerOK(m) /\ m.suppressed = mgr.suppressed /\ m.watched = mgr.watched
         /\ m.row = RowsDone(mgr, late)
         /\ m.consumed = mgr.consumed /\ m.deliveries = mgr.deliveries
  BY <1>2, <1>3, PhotoFinishOK
<1> DEFINE w == m.watched \ hub
<1>7. w = {} /\ w \in SUBSET Jobs /\ mgr' = [m EXCEPT !.watched = w]
  BY <1>1, <1>2, <1>5
<1> HIDE DEF w
<1>8. /\ ManagerOK(mgr') /\ mgr'.row = m.row /\ mgr'.suppressed = m.suppressed
      /\ mgr'.watched = w /\ mgr'.consumed = m.consumed /\ mgr'.deliveries = m.deliveries
  BY <1>5, <1>7, PartsOf, WatchOK, WatchIs
<1> QED
  BY <1>5, <1>7, <1>8

LEMMA BHubWaitGetsMessage ==
  ASSUME BInv, HubWaitGetsMessage
  PROVE  BInv'
<1>1. hub' = {} /\ UNCHANGED <<session, epoch, fg, injected, recovered>>
  BY DEF HubWaitGetsMessage
<1>2. PICK late \in SUBSET {j \in hub : mgr.row[j].busy} :
         /\ ManagerOK(mgr') /\ mgr'.suppressed = mgr.suppressed /\ mgr'.watched = {}
         /\ mgr'.row = RowsDone(mgr, late)
         /\ mgr'.consumed = mgr.consumed /\ mgr'.deliveries = mgr.deliveries
  BY MessageIs
<1>3. \A j \in fg : HasRow(mgr', j)
  <2>1. \A j \in Jobs : Done(mgr.row[j]).status # "none"
    BY BInvParts, PartsOf, DoneTyped
  <2> QED
    BY <1>2, <2>1, BInvParts DEF HasRow, RowsDone
<1>4. hub' \cup fg' # {} => session' = "tools"
  BY <1>1, BInvParts
<1> QED
  BY <1>1, <1>2, <1>3, <1>4, BInvParts, BInvHolds

LEMMA BHubJobs ==
  ASSUME BInv, HubJobs
  PROVE  BInv'
<1>1. /\ session = "tools" /\ mgr' = SnapshotOf(mgr, Jobs) /\ Recover(Jobs)
      /\ UNCHANGED <<session, epoch, hub, fg, injected>>
  BY DEF HubJobs
<1> DEFINE ks == SettledOf(mgr, Jobs)
<1>2. /\ ManagerOK(mgr')
      /\ mgr'.suppressed = mgr.suppressed \cup ks /\ mgr'.watched = mgr.watched
      /\ mgr'.deliveries = {d \in mgr.deliveries :
            d.st \in InManager => d.job \notin mgr.suppressed \cup ks \cup mgr.watched}
      /\ \A j \in Jobs : /\ SameButTimer(mgr.row[j], mgr'.row[j])
                         /\ mgr'.row[j].timer = mgr.row[j].timer \/ OfJob(mgr', j) = {}
  BY <1>1, BInvParts, SnapshotIs
<1>3. recovered' \subseteq Jobs \X Runs
  <2> DEFINE js == Jobs \ mgr.consumed
  <2>1. js \in SUBSET Jobs
    OBVIOUS
  <2>2. recovered' = recovered \cup {CurrentRun(j) : j \in {k \in js : HasResult(mgr, k)}}
    BY <1>1 DEF Recover
  <2> HIDE DEF js
  <2> QED
    BY <2>1, <2>2, BInvParts, RecoverTyped
<1>4. \A j \in fg : HasRow(mgr', j)
  BY <1>2, BInvParts DEF HasRow, SameButTimer
<1> HIDE DEF ks
<1>5. \A d \in mgr'.deliveries : d \in mgr.deliveries
  BY <1>2
<1>6. fg' \subseteq mgr'.suppressed
  BY <1>1, <1>2, BInvParts
<1> QED
  BY <1>1, <1>2, <1>3, <1>4, <1>5, <1>6, BInvParts, BInvHolds

LEMMA HubCancelIs ==
  ASSUME BInv, NEW j \in Jobs, HubCancel(j)
  PROVE  LET x  == CancelJobs(mgr, {j})
             ks == SettledOf(x, {j})
         IN
         /\ ManagerOK(x) /\ x.suppressed = mgr.suppressed /\ x.watched = mgr.watched
         /\ x.deliveries = mgr.deliveries
         /\ ManagerOK(mgr')
         /\ mgr'.suppressed = x.suppressed \cup ks /\ mgr'.watched = x.watched
         /\ mgr'.deliveries = {d \in x.deliveries :
               d.st \in InManager => d.job \notin x.suppressed \cup ks \cup x.watched}
         /\ \A k \in Jobs : /\ SameButTimer(x.row[k], mgr'.row[k])
                            /\ mgr'.row[k].timer = x.row[k].timer \/ OfJob(mgr', k) = {}
<1> DEFINE js == {j}
           x  == CancelJobs(mgr, js)
           ks == SettledOf(x, js)
<1>1. ManagerOK(mgr) /\ mgr' = SnapshotOf(x, js) /\ js \in SUBSET Jobs
  BY BInvParts DEF HubCancel
<1> HIDE DEF js
<1>2. ManagerOK(x)
  BY <1>1, CancelOK
<1>3. /\ x.suppressed = mgr.suppressed /\ x.watched = mgr.watched /\ x.deliveries = mgr.deliveries
  BY <1>1, PartsOf, CancelIs
<1> HIDE DEF x
<1>4. /\ ManagerOK(mgr')
      /\ mgr'.suppressed = x.suppressed \cup ks /\ mgr'.watched = x.watched
      /\ mgr'.deliveries = {d \in x.deliveries :
            d.st \in InManager => d.job \notin x.suppressed \cup ks \cup x.watched}
      /\ \A k \in Jobs : /\ SameButTimer(x.row[k], mgr'.row[k])
                         /\ mgr'.row[k].timer = x.row[k].timer \/ OfJob(mgr', k) = {}
  BY <1>1, <1>2, SnapshotIs
<1> QED
  BY <1>2, <1>3, <1>4 DEF x, js

LEMMA BHubCancel ==
  ASSUME BInv, NEW j \in Jobs, HubCancel(j)
  PROVE  BInv'
<1> DEFINE x  == CancelJobs(mgr, {j})
           ks == SettledOf(x, {j})
<1>1. /\ session = "tools" /\ Recover({j}) /\ UNCHANGED <<session, epoch, hub, fg, injected>>
  BY DEF HubCancel
<1>2. /\ ManagerOK(x) /\ x.suppressed = mgr.suppressed /\ x.watched = mgr.watched
      /\ x.deliveries = mgr.deliveries
      /\ ManagerOK(mgr')
      /\ mgr'.suppressed = x.suppressed \cup ks /\ mgr'.watched = x.watched
      /\ mgr'.deliveries = {d \in x.deliveries :
            d.st \in InManager => d.job \notin x.suppressed \cup ks \cup x.watched}
      /\ \A k \in Jobs : /\ SameButTimer(x.row[k], mgr'.row[k])
                         /\ mgr'.row[k].timer = x.row[k].timer \/ OfJob(mgr', k) = {}
  BY HubCancelIs
<1>3. \A k \in Jobs : x.row[k].status # "none" <=> mgr.row[k].status # "none"
  <2> TAKE k \in Jobs
  <2>1. ManagerOK(mgr)
    BY BInvParts
  <2> QED
    BY <2>1, CancelKeeps
<1> HIDE DEF x, ks
<1>4. \A k \in fg : HasRow(mgr', k)
  BY <1>2, <1>3, BInvParts DEF HasRow, SameButTimer
<1>5. recovered' \subseteq Jobs \X Runs
  <2> DEFINE js == {j} \ mgr.consumed
  <2>1. js \in SUBSET Jobs
    OBVIOUS
  <2>2. recovered' = recovered \cup {CurrentRun(k) : k \in {l \in js : HasResult(mgr, l)}}
    BY <1>1 DEF Recover
  <2> HIDE DEF js
  <2> QED
    BY <2>1, <2>2, BInvParts, RecoverTyped
<1>6. \A d \in mgr'.deliveries : d \in mgr.deliveries
  BY <1>2
<1>7. fg' \subseteq mgr'.suppressed
  BY <1>1, <1>2, BInvParts
<1> QED
  BY <1>1, <1>2, <1>4, <1>5, <1>6, <1>7, BInvParts, BInvHolds

LEMMA EvictionIs ==
  ASSUME BInv, NEW j \in Jobs, EvictionTimerFires(j)
  PROVE  /\ ManagerOK(mgr')
         /\ mgr'.row = [k \in Jobs |-> IF k = j THEN Gone(mgr.row[k]) ELSE mgr.row[k]]
         /\ mgr'.suppressed = mgr.suppressed \ {j} /\ mgr'.watched = mgr.watched \ {j}
         /\ mgr'.deliveries = mgr.deliveries
<1>1. ManagerOK(mgr) /\ mgr' = Evict(mgr, {j}) /\ mgr.row[j].timer # "off"
  BY BInvParts DEF EvictionTimerFires
<1>2. \A k \in {j} : ~mgr.row[k].busy
  BY <1>1, PartsOf DEF RowsOK
<1>3. ManagerOK(mgr')
  BY <1>1, <1>2, EvictOK
<1>4. /\ mgr'.row = [k \in Jobs |-> IF k \in {j} THEN Gone(mgr.row[k]) ELSE mgr.row[k]]
      /\ mgr'.suppressed = mgr.suppressed \ {j} /\ mgr'.watched = mgr.watched \ {j}
      /\ mgr'.deliveries = mgr.deliveries
  <2> DEFINE n == Evict(mgr, {j})
  <2>1. /\ IsRec(n)
        /\ n.row = [k \in Jobs |-> IF k \in {j} THEN Gone(mgr.row[k]) ELSE mgr.row[k]]
        /\ n.suppressed = mgr.suppressed \ {j} /\ n.watched = mgr.watched \ {j}
        /\ n.consumed = mgr.consumed \ {j} /\ n.deliveries = mgr.deliveries /\ n.loop = mgr.loop
    BY <1>1, PartsOf, EvictIs
  <2> QED
    BY <1>1, <2>1
<1> QED
  BY <1>3, <1>4

LEMMA BEvictionTimerFires ==
  ASSUME BInv, NEW j \in Jobs, EvictionTimerFires(j)
  PROVE  BInv'
<1>1. j \notin hub \cup fg /\ UNCHANGED <<session, epoch, hub, fg, injected, recovered>>
  BY DEF EvictionTimerFires
<1>2. /\ ManagerOK(mgr')
      /\ mgr'.row = [k \in Jobs |-> IF k = j THEN Gone(mgr.row[k]) ELSE mgr.row[k]]
      /\ mgr'.suppressed = mgr.suppressed \ {j} /\ mgr'.watched = mgr.watched \ {j}
      /\ mgr'.deliveries = mgr.deliveries
  BY EvictionIs
<1>3. \A k \in fg : HasRow(mgr', k)
  BY <1>1, <1>2, BInvParts DEF HasRow
<1> QED
  BY <1>1, <1>2, <1>3, BInvParts, BInvHolds

(* An interrupted turn, before what was pulled is thrown back. *)
Interrupted ==
  LET unwatched == [CancelJobs(mgr, fg) EXCEPT !.watched = @ \ hub]
  IN  IF hub = {} THEN unwatched
      ELSE ConsumeJobResults(unwatched, {j \in hub : HasResult(mgr, j)})

LEMMA InterruptedIs ==
  ASSUME BInv, session \in {"tools", "boundary"}
  PROVE  LET x  == Interrupted
             ks == {j \in hub : HasResult(mgr, j)}
         IN
         /\ ManagerOK(x) /\ x.watched = {} /\ x.suppressed = mgr.suppressed \cup ks
         /\ x.deliveries = {d \in mgr.deliveries : d.st \in InManager => d.job \notin ks}
         /\ \A j \in Jobs :
              /\ x.row[j].run = mgr.row[j].run /\ x.row[j].born = mgr.row[j].born
              /\ x.row[j].busy = mgr.row[j].busy
              /\ x.row[j].status = IF j \in fg /\ mgr.row[j].status = "running" THEN "cancelled"
                                   ELSE mgr.row[j].status
              /\ x.row[j].timer \in {mgr.row[j].timer, "short"}
              /\ x.row[j].timer = mgr.row[j].timer \/ OfJob(x, j) = {}
         /\ Pulled # {} => x.deliveries = mgr.deliveries /\ x.suppressed = mgr.suppressed
<1> DEFINE c  == CancelJobs(mgr, fg)
           w  == c.watched \ hub
           y  == [c EXCEPT !.watched = w]
           ks == {j \in hub : HasResult(mgr, j)}
           n  == ConsumeJobResults(y, ks)
<1>1. ManagerOK(mgr) /\ mgr.watched = hub /\ hub \in SUBSET Jobs
  BY BInvParts
<1>2. ManagerOK(c)
  BY <1>1, CancelOK
<1>3. /\ c.suppressed = mgr.suppressed /\ c.watched = mgr.watched
      /\ c.deliveries = mgr.deliveries
  BY <1>1, PartsOf, CancelIs
<1>4. \A j \in Jobs :
        /\ c.row[j].run = mgr.row[j].run /\ c.row[j].born = mgr.row[j].born
        /\ c.row[j].busy = mgr.row[j].busy /\ c.row[j].timer = mgr.row[j].timer
        /\ c.row[j].status = IF j \in fg /\ mgr.row[j].status = "running" THEN "cancelled"
                             ELSE mgr.row[j].status
  BY <1>1, CancelKeeps
<1>5. Interrupted = IF hub = {} THEN y ELSE n
  BY DEF Interrupted
<1> HIDE DEF c
<1>6. w = {} /\ w \in SUBSET Jobs
  BY <1>1, <1>3
<1> HIDE DEF w
<1>7. /\ ManagerOK(y) /\ y.row = c.row /\ y.suppressed = c.suppressed /\ y.watched = w
      /\ y.deliveries = c.deliveries
  BY <1>2, <1>6, PartsOf, WatchOK, WatchIs
<1> HIDE DEF y
<1>8. ks \in SUBSET Jobs
  BY <1>1
<1>9. \A d \in mgr.deliveries : d.st \in InManager => d.job \notin mgr.suppressed
  BY <1>1, PartsOf DEF Unacknowledged
<1>10. CASE hub = {}
  <2>1. ks = {} /\ Interrupted = y
    BY <1>5, <1>10
  <2> HIDE DEF ks
  <2>2. \A j \in Jobs : y.row[j].timer = mgr.row[j].timer
    BY <1>4, <1>7
  <2> QED
    BY <1>3, <1>4, <1>6, <1>7, <2>1, <2>2 DEF ks
<1>11. CASE hub # {}
  <2>1. Interrupted = n /\ session = "tools"
    BY <1>5, <1>11, BInvParts
  <2>2. Pulled = {}
    BY <2>1, BInvParts DEF Pulled
  <2> HIDE DEF ks
  <2>3. /\ ManagerOK(n)
        /\ n.suppressed = y.suppressed \cup ks /\ n.watched = y.watched
        /\ n.deliveries = {d \in y.deliveries :
              d.st \in InManager => d.job \notin y.suppressed \cup ks \cup y.watched}
        /\ \A j \in Jobs : /\ SameButTimer(y.row[j], n.row[j])
                           /\ n.row[j].timer = y.row[j].timer \/ OfJob(n, j) = {}
    BY <1>7, <1>8, ConsumeResultsIs
  <2> HIDE DEF n
  <2>4. n.deliveries = {d \in mgr.deliveries : d.st \in InManager => d.job \notin ks}
    BY <1>3, <1>6, <1>7, <1>9, <2>3
  <2>5. \A j \in Jobs :
          /\ n.row[j].run = mgr.row[j].run /\ n.row[j].born = mgr.row[j].born
          /\ n.row[j].busy = mgr.row[j].busy
          /\ n.row[j].status = IF j \in fg /\ mgr.row[j].status = "running" THEN "cancelled"
                               ELSE mgr.row[j].status
          /\ n.row[j].timer \in {mgr.row[j].timer, "short"}
          /\ n.row[j].timer = mgr.row[j].timer \/ OfJob(n, j) = {}
    BY <1>4, <1>7, <2>3 DEF SameButTimer
  <2> QED
    BY <1>3, <1>6, <1>7, <2>1, <2>2, <2>3, <2>4, <2>5 DEF ks
<1> QED
  BY <1>10, <1>11

LEMMA TurnAbortedIs ==
  ASSUME BInv, TurnAborted
  PROVE  LET x == Interrupted IN
         /\ Pulled \in SUBSET x.deliveries
         /\ ManagerOK(mgr') /\ mgr'.row = x.row /\ mgr'.suppressed = x.suppressed
         /\ mgr'.watched = x.watched
         /\ mgr'.deliveries = LeftAfterThrow(x, Pulled)
<1> DEFINE x  == Interrupted
           ks == {j \in hub : HasResult(mgr, j)}
<1>1. /\ session \in {"tools", "boundary"} /\ MayThrow(Pulled) /\ mgr' = Throw(x, Pulled)
  BY DEF TurnAborted, Interrupted
<1>2. /\ ManagerOK(x) /\ x.watched = {} /\ x.suppressed = mgr.suppressed \cup ks
      /\ x.deliveries = {d \in mgr.deliveries : d.st \in InManager => d.job \notin ks}
      /\ \A j \in Jobs :
           /\ x.row[j].run = mgr.row[j].run /\ x.row[j].born = mgr.row[j].born
           /\ x.row[j].busy = mgr.row[j].busy
           /\ x.row[j].status = IF j \in fg /\ mgr.row[j].status = "running" THEN "cancelled"
                                ELSE mgr.row[j].status
           /\ x.row[j].timer \in {mgr.row[j].timer, "short"}
           /\ x.row[j].timer = mgr.row[j].timer \/ OfJob(x, j) = {}
      /\ Pulled # {} => x.deliveries = mgr.deliveries /\ x.suppressed = mgr.suppressed
  BY <1>1, InterruptedIs
<1> HIDE DEF x, ks
<1>3. Pulled \in SUBSET x.deliveries /\ \A d \in Pulled : d.st \in {"parked", "pulled"}
  BY <1>2 DEF Pulled
<1>4. \A d \in Pulled : Wanted(x, d.job) => d.tries < MaxTries
  <2> TAKE d \in Pulled
  <2>1. session = "boundary"
    BY BInvParts DEF Pulled
  <2>2. hub = {}
    BY <2>1, BInvParts
  <2>3. d.job \in Jobs
    BY BInvParts, PartsOf, DeliveryIs DEF Pulled
  <2>4. Wanted(x, d.job) => Wanted(mgr, d.job)
    BY <1>2, <2>2, <2>3, BInvParts DEF Wanted, Suppressed, HasRow
  <2> QED
    BY <1>1, <2>4, MayThrowIs
<1>5. /\ ManagerOK(mgr') /\ mgr'.row = x.row /\ mgr'.suppressed = x.suppressed
      /\ mgr'.watched = x.watched /\ mgr'.consumed = x.consumed
      /\ mgr'.deliveries = LeftAfterThrow(x, Pulled)
  BY <1>1, <1>2, <1>3, <1>4, ThrowOK
<1> QED
  BY <1>3, <1>5 DEF x

LEMMA BTurnAborted ==
  ASSUME BInv, TurnAborted
  PROVE  BInv'
<1> DEFINE x  == Interrupted
           ks == {j \in hub : HasResult(mgr, j)}
<1>1. /\ hub' = {} /\ fg' = {} /\ session' = "idle" /\ UNCHANGED <<epoch, injected>>
      /\ session \in {"tools", "boundary"}
  BY DEF TurnAborted
<1>2. /\ ManagerOK(x) /\ x.watched = {} /\ x.suppressed = mgr.suppressed \cup ks
      /\ x.deliveries = {d \in mgr.deliveries : d.st \in InManager => d.job \notin ks}
      /\ \A j \in Jobs :
           /\ x.row[j].run = mgr.row[j].run /\ x.row[j].born = mgr.row[j].born
           /\ x.row[j].busy = mgr.row[j].busy
           /\ x.row[j].status = IF j \in fg /\ mgr.row[j].status = "running" THEN "cancelled"
                                ELSE mgr.row[j].status
           /\ x.row[j].timer \in {mgr.row[j].timer, "short"}
           /\ x.row[j].timer = mgr.row[j].timer \/ OfJob(x, j) = {}
      /\ Pulled # {} => x.deliveries = mgr.deliveries /\ x.suppressed = mgr.suppressed
  BY <1>1, InterruptedIs
<1>3. /\ Pulled \in SUBSET x.deliveries
      /\ ManagerOK(mgr') /\ mgr'.row = x.row /\ mgr'.suppressed = x.suppressed
      /\ mgr'.watched = x.watched
      /\ mgr'.deliveries = LeftAfterThrow(x, Pulled)
  BY TurnAbortedIs
<1> HIDE DEF x, ks
<1>4. \A d \in mgr'.deliveries : d.st # "pulled"
  <2>1. x.deliveries \subseteq Deliveries
    BY <1>2, PartsOf
  <2>2. \A d \in x.deliveries : d.st = "pulled" => d \in Pulled
    BY <1>2 DEF Pulled
  <2>3. \A d \in LeftAfterThrow(x, Pulled) : d.st # "pulled"
    BY <1>3, <2>1, <2>2, LeftIs
  <2> QED
    BY <1>3, <2>3
<1>5. recovered' \subseteq Jobs \X Runs
  <2>1. /\ {CurrentRun(j) : j \in {k \in hub \ mgr.consumed : HasResult(mgr, k)}} \subseteq Jobs \X Runs
        /\ {CurrentRun(j) : j \in {k \in fg : HasResult(mgr, k)}} \subseteq Jobs \X Runs
    <3> DEFINE js == hub \ mgr.consumed
    <3>1. js \in SUBSET Jobs /\ fg \in SUBSET Jobs
      BY BInvParts
    <3> HIDE DEF js
    <3>2. /\ {CurrentRun(j) : j \in {k \in js : HasResult(mgr, k)}} \subseteq Jobs \X Runs
          /\ {CurrentRun(j) : j \in {k \in fg : HasResult(mgr, k)}} \subseteq Jobs \X Runs
      BY <3>1, RecoverTyped
    <3> QED
      BY <3>2 DEF js
  <2>2. recovered \subseteq Jobs \X Runs
    BY BInvParts
  <2> QED
    BY <2>1, <2>2 DEF TurnAborted
<1> QED
  BY <1>1, <1>2, <1>3, <1>4, <1>5, BInvParts, BInvHolds

Completed == {j \in Jobs : mgr.row[j].status = "completed"}

(* The manager of a new conversation, before the yield queue is cleared. *)
LEMMA ClearedIs ==
  ASSUME BInv, session = "idle"
  PROVE  LET x == EvictCompletedJobs(CancelJobs(mgr, Jobs)) IN
         /\ ManagerOK(x) /\ x.watched = {} /\ x.suppressed = mgr.suppressed \ Completed
         /\ x.deliveries = {d \in mgr.deliveries : d.st \in InManager => d.job \notin Completed}
         /\ \A j \in Jobs :
              /\ x.row[j].run = mgr.row[j].run /\ x.row[j].born = mgr.row[j].born
              /\ x.row[j].busy = mgr.row[j].busy
              /\ x.row[j].status = IF j \in Completed THEN "none"
                                   ELSE IF mgr.row[j].status = "running" THEN "cancelled"
                                   ELSE mgr.row[j].status
              /\ x.row[j].timer = IF j \in Completed THEN "off" ELSE mgr.row[j].timer
<1> DEFINE c  == CancelJobs(mgr, Jobs)
           js == {j \in Jobs : c.row[j].status = "completed"}
           x  == EvictCompletedJobs(c)
<1>1. ManagerOK(mgr) /\ mgr.watched = {}
  BY BInvParts
<1>2. ManagerOK(c)
  BY <1>1, CancelOK
<1>3. /\ c.suppressed = mgr.suppressed /\ c.watched = mgr.watched
      /\ c.deliveries = mgr.deliveries
  BY <1>1, PartsOf, CancelIs
<1>4. \A j \in Jobs :
        /\ c.row[j].run = mgr.row[j].run /\ c.row[j].born = mgr.row[j].born
        /\ c.row[j].busy = mgr.row[j].busy /\ c.row[j].timer = mgr.row[j].timer
        /\ c.row[j].status = IF j \in Jobs /\ mgr.row[j].status = "running" THEN "cancelled"
                             ELSE mgr.row[j].status
  BY <1>1, CancelKeeps
<1> HIDE DEF c
<1>5. js = Completed
  BY <1>4 DEF Completed
<1>6. /\ ManagerOK(x)
      /\ x.row = [j \in Jobs |-> IF j \in js THEN Gone(c.row[j]) ELSE c.row[j]]
      /\ x.suppressed = c.suppressed \ js /\ x.watched = c.watched \ js
      /\ x.consumed = c.consumed \ js /\ x.loop = c.loop
      /\ x.deliveries = {d \in c.deliveries :
            d.st \in InManager => d.job \notin c.suppressed \cup js \cup c.watched}
  BY <1>2, EvictCompletedIs
<1> HIDE DEF x, js
<1>7. \A d \in mgr.deliveries : d.st \in InManager => d.job \notin mgr.suppressed
  BY <1>1, PartsOf DEF Unacknowledged
<1>8. x.deliveries = {d \in mgr.deliveries : d.st \in InManager => d.job \notin Completed}
  BY <1>1, <1>3, <1>5, <1>6, <1>7
<1>9. ASSUME NEW j \in Jobs
      PROVE  /\ x.row[j].run = mgr.row[j].run /\ x.row[j].born = mgr.row[j].born
             /\ x.row[j].busy = mgr.row[j].busy
             /\ x.row[j].status = IF j \in Completed THEN "none"
                                  ELSE IF mgr.row[j].status = "running" THEN "cancelled"
                                  ELSE mgr.row[j].status
             /\ x.row[j].timer = IF j \in Completed THEN "off" ELSE mgr.row[j].timer
  <2>1. c.row[j] \in Rows
    BY <1>2, PartsOf
  <2>2. x.row[j] = IF j \in Completed THEN Gone(c.row[j]) ELSE c.row[j]
    BY <1>5, <1>6
  <2>3. /\ Gone(c.row[j]).status = "none" /\ Gone(c.row[j]).run = c.row[j].run
        /\ Gone(c.row[j]).born = c.row[j].born /\ Gone(c.row[j]).busy = c.row[j].busy
        /\ Gone(c.row[j]).timer = "off"
    BY <2>1, GoneTyped
  <2> QED
    BY <1>4, <2>2, <2>3
<1> QED
  BY <1>1, <1>3, <1>5, <1>6, <1>8, <1>9 DEF x, c

LEMMA NewConversationIs ==
  ASSUME BInv, NewConversation
  PROVE  LET x == EvictCompletedJobs(CancelJobs(mgr, Jobs)) IN
         /\ Parked \in SUBSET x.deliveries
         /\ ManagerOK(mgr') /\ mgr'.row = x.row /\ mgr'.suppressed = x.suppressed
         /\ mgr'.watched = x.watched
         /\ mgr'.deliveries = LeftAfterThrow(x, Parked)
<1> DEFINE x == EvictCompletedJobs(CancelJobs(mgr, Jobs))
<1>1. session = "idle" /\ MayThrow(Parked) /\ mgr' = Throw(x, Parked)
  BY DEF NewConversation
<1>2. /\ ManagerOK(x) /\ x.watched = {} /\ x.suppressed = mgr.suppressed \ Completed
      /\ x.deliveries = {d \in mgr.deliveries : d.st \in InManager => d.job \notin Completed}
      /\ \A j \in Jobs :
           /\ x.row[j].run = mgr.row[j].run /\ x.row[j].born = mgr.row[j].born
           /\ x.row[j].busy = mgr.row[j].busy
           /\ x.row[j].status = IF j \in Completed THEN "none"
                                ELSE IF mgr.row[j].status = "running" THEN "cancelled"
                                ELSE mgr.row[j].status
           /\ x.row[j].timer = IF j \in Completed THEN "off" ELSE mgr.row[j].timer
  BY <1>1, ClearedIs
<1> HIDE DEF x
<1>3. Parked \in SUBSET x.deliveries /\ \A d \in Parked : d.st \in {"parked", "pulled"}
  BY <1>2 DEF Parked, InManager
<1>4. \A d \in Parked : Wanted(x, d.job) => d.tries < MaxTries
  <2> TAKE d \in Parked
  <2>1. d.job \in Jobs
    BY BInvParts, PartsOf, DeliveryIs DEF Parked
  <2>2. mgr.watched = {}
    BY <1>1, BInvParts
  <2>3. Wanted(x, d.job) => Wanted(mgr, d.job)
    BY <1>2, <2>1, <2>2 DEF Wanted, Suppressed, HasRow
  <2> QED
    BY <1>1, <2>3, MayThrowIs
<1>5. /\ ManagerOK(mgr') /\ mgr'.row = x.row /\ mgr'.suppressed = x.suppressed
      /\ mgr'.watched = x.watched /\ mgr'.consumed = x.consumed
      /\ mgr'.deliveries = LeftAfterThrow(x, Parked)
  BY <1>1, <1>2, <1>3, <1>4, ThrowOK
<1> QED
  BY <1>3, <1>5 DEF x

LEMMA BNewConversation ==
  ASSUME BInv, NewConversation
  PROVE  BInv'
<1> DEFINE x == EvictCompletedJobs(CancelJobs(mgr, Jobs))
<1>1. /\ session = "idle" /\ epoch < MaxSessions /\ epoch' = epoch + 1
      /\ UNCHANGED <<session, hub, fg, injected, recovered>>
  BY DEF NewConversation
<1>2. /\ ManagerOK(x) /\ x.watched = {} /\ x.suppressed = mgr.suppressed \ Completed
      /\ x.deliveries = {d \in mgr.deliveries : d.st \in InManager => d.job \notin Completed}
      /\ \A j \in Jobs :
           /\ x.row[j].run = mgr.row[j].run /\ x.row[j].born = mgr.row[j].born
           /\ x.row[j].busy = mgr.row[j].busy
           /\ x.row[j].status = IF j \in Completed THEN "none"
                                ELSE IF mgr.row[j].status = "running" THEN "cancelled"
                                ELSE mgr.row[j].status
           /\ x.row[j].timer = IF j \in Completed THEN "off" ELSE mgr.row[j].timer
  BY <1>1, ClearedIs
<1>3. /\ Parked \in SUBSET x.deliveries
      /\ ManagerOK(mgr') /\ mgr'.row = x.row /\ mgr'.suppressed = x.suppressed
      /\ mgr'.watched = x.watched
      /\ mgr'.deliveries = LeftAfterThrow(x, Parked)
  BY NewConversationIs
<1> HIDE DEF x
<1>4. \A d \in mgr'.deliveries : d.st # "pulled"
  <2>1. x.deliveries \subseteq Deliveries
    BY <1>2, PartsOf
  <2>2. \A d \in x.deliveries : d.st # "pulled"
    BY <1>1, <1>2, BInvParts
  <2> QED
    BY <1>3, <2>1, <2>2, LeftIs
<1>5. epoch' \in Epochs
  BY <1>1, BInvParts, JobManagerAssumption DEF Epochs
<1>6. hub = {} /\ fg = {}
  BY <1>1, BInvParts
<1> QED
  BY <1>1, <1>2, <1>3, <1>4, <1>5, <1>6, BInvParts, BInvHolds

LEMMA BInvStep == BInv /\ [Next]_vars => BInv'
<1> SUFFICES ASSUME BInv, [Next]_vars
             PROVE  BInv'
  OBVIOUS
<1>1. CASE UNCHANGED vars
  BY <1>1 DEF BInv, TypeOK, Sessions, Pulled, vars
<1>2. CASE StartTurn
  BY <1>2, BInvParts, BInvHolds DEF StartTurn
<1>3. CASE DeliveryLoop
  BY <1>3, BDeliveryLoop
<1>4. CASE IdleFlush
  BY <1>4, BIdleFlush
<1>5. CASE PullAsides
  BY <1>5, BPullAsides
<1>6. CASE CommitAsides
  BY <1>6, BCommitAsides
<1>7. CASE TurnAborted
  BY <1>7, BTurnAborted
<1>8. CASE HubWaitReturns
  BY <1>8, BHubWaitReturns
<1>9. CASE HubWaitGetsMessage
  BY <1>9, BHubWaitGetsMessage
<1>10. CASE HubJobs
  BY <1>10, BHubJobs
<1>11. CASE NewConversation
  BY <1>11, BNewConversation
<1>12. CASE \E js \in SUBSET Jobs : HubWait(js)
  BY <1>12, BHubWait
<1>13. ASSUME NEW j \in Jobs,
              \/ StartJob(j) \/ StartForeground(j) \/ JobSettles(j) \/ ForegroundReturns(j)
              \/ ForegroundLetsGo(j) \/ HubCancel(j) \/ EvictionTimerFires(j)
       PROVE  BInv'
  BY <1>13, BStartJob, BStartForeground, BJobSettles, BForegroundReturns, BForegroundLetsGo,
     BHubCancel, BEvictionTimerFires
<1>14. ASSUME NEW d \in mgr.deliveries, BackoffElapses(d) \/ FormatReturns(d)
       PROVE  BInv'
  BY <1>14, BBackoffElapses, BFormatReturns
<1> QED
  BY <1>1, <1>2, <1>3, <1>4, <1>5, <1>6, <1>7, <1>8, <1>9, <1>10, <1>11, <1>12, <1>13, <1>14
     DEF Next

LEMMA BInvAlways == Spec => []BInv
<1>1. Init => BInv
  BY BInvInit
<1>2. BInv /\ [Next]_vars => BInv'
  BY BInvStep
<1> QED
  BY <1>1, <1>2, PTL DEF Spec

(* A reader, a row or a delivery is never in a state the code has no case   *)
(* for: every step of the manager keeps the types, and so do all the        *)
(* results of the sink that one step of the session brings about.           *)
THEOREM AsyncJobsType == Spec => []TypeOK
<1>1. BInv => TypeOK
  BY DEF BInv
<1> QED
  BY <1>1, BInvAlways, PTL

-----------------------------------------------------------------------------
(* An idle session with nothing pending.                                   *)

Quiet(m) ==
  /\ \A j \in Jobs : m.row[j].status = "running" => Suppressed(m, j)
  /\ \A d \in m.deliveries : d.st # "parked" /\ Suppressed(m, d.job)

LEMMA QuietIs == Quiet(mgr) <=> ~PendingAsyncWake
BY DEF Quiet, PendingAsyncWake

LEMMA QuietAfter == Quiet(mgr)' <=> ~PendingAsyncWake'
BY DEF Quiet, PendingAsyncWake

LEMMA QuietIdle ==
  ASSUME BInv, session = "idle", Quiet(mgr)
  PROVE  /\ hub = {} /\ fg = {} /\ mgr.watched = {}
         /\ \A j \in Jobs : mgr.row[j].status = "running" => j \in mgr.suppressed
         /\ \A d \in mgr.deliveries : d.st = "formatting" /\ d.job \in mgr.suppressed
<1>1. hub = {} /\ fg = {} /\ mgr.watched = {}
  BY BInvParts
<1>2. \A d \in mgr.deliveries :
        /\ d.st \in InManager \cup InSession /\ d.st # "pulled"
        /\ d.st \in InManager => d.job \notin mgr.suppressed
  BY BInvParts, PartsOf, DeliveryIs DEF Unacknowledged
<1> QED
  BY <1>1, <1>2 DEF Quiet, Suppressed, InSession

LEMMA QuietNext ==
  ASSUME BInv, [Next]_vars, session = "idle", Quiet(mgr), epoch' = epoch
  PROVE  injected' = injected /\ (session' = "idle" => Quiet(mgr'))
<1> USE DEF Suppressed
<1>1. CASE UNCHANGED vars
  BY <1>1 DEF vars, Quiet
<1>2. CASE StartTurn
  BY <1>2 DEF StartTurn
<1>3. CASE DeliveryLoop
  <2>1. injected' = injected
    BY <1>3 DEF DeliveryLoop
  <2>2. /\ mgr'.row = mgr.row /\ mgr'.suppressed = mgr.suppressed /\ mgr'.watched = mgr.watched
        /\ \A d \in mgr'.deliveries : d \in mgr.deliveries
    BY <1>3, DeliveryLoopIs, QuietIdle DEF InManager
  <2> QED
    BY <2>1, <2>2 DEF Quiet
<1>4. CASE IdleFlush
  BY <1>4, QuietIdle DEF IdleFlush, Parked
<1>5. CASE PullAsides \/ CommitAsides \/ TurnAborted \/ HubJobs
  BY <1>5 DEF PullAsides, CommitAsides, TurnAborted, HubJobs
<1>6. CASE HubWaitReturns \/ HubWaitGetsMessage
  BY <1>6, QuietIdle DEF HubWaitReturns, HubWaitGetsMessage
<1>7. CASE NewConversation
  <2>1. epoch \in Nat
    BY BInvParts, JobManagerAssumption DEF Epochs
  <2> QED
    BY <1>7, <2>1 DEF NewConversation
<1>8. CASE \E js \in SUBSET Jobs : HubWait(js)
  BY <1>8 DEF HubWait
<1>9. ASSUME NEW j \in Jobs, StartJob(j) \/ StartForeground(j) \/ HubCancel(j)
      PROVE  FALSE
  BY <1>9 DEF StartJob, StartForeground, HubCancel
<1>10. ASSUME NEW j \in Jobs, ForegroundReturns(j) \/ ForegroundLetsGo(j)
       PROVE  FALSE
  BY <1>10, QuietIdle DEF ForegroundReturns, ForegroundLetsGo
<1>11. ASSUME NEW j \in Jobs, JobSettles(j)
       PROVE  injected' = injected /\ Quiet(mgr')
  <2>1. /\ mgr.row[j].busy /\ mgr' = BodySettles(mgr, j) /\ injected' = injected
    BY <1>11 DEF JobSettles
  <2> DEFINE silent == mgr.row[j].status = "cancelled" \/ Suppressed(mgr, j)
  <2>2. silent
    BY <2>1, BInvParts, PartsOf, QuietIdle DEF RowsOK
  <2>3. /\ mgr'.row = [mgr.row EXCEPT ![j] = Done(mgr.row[j])]
        /\ mgr'.suppressed = mgr.suppressed /\ mgr'.watched = mgr.watched
        /\ mgr'.deliveries = IF silent THEN mgr.deliveries
                             ELSE mgr.deliveries \cup {NewDelivery(mgr, j)}
    <3> DEFINE n == BodySettles(mgr, j)
    <3>1. /\ IsRec(n) /\ n.row = [mgr.row EXCEPT ![j] = Done(mgr.row[j])]
          /\ n.suppressed = mgr.suppressed /\ n.watched = mgr.watched /\ n.consumed = mgr.consumed
          /\ n.deliveries = IF silent THEN mgr.deliveries
                            ELSE mgr.deliveries \cup {NewDelivery(mgr, j)}
      BY BInvParts, PartsOf, SettlesIs
    <3> QED
      BY <2>1, <3>1
  <2>4. Done(mgr.row[j]).status # "running"
    BY BInvParts, PartsOf, DoneTyped
  <2> HIDE DEF silent
  <2>5. \A k \in Jobs : mgr'.row[k].status = "running" => mgr.row[k].status = "running"
    BY <2>3, <2>4, BInvParts, PartsOf
  <2> QED
    BY <2>1, <2>2, <2>3, <2>5 DEF Quiet
<1>12. ASSUME NEW j \in Jobs, EvictionTimerFires(j)
       PROVE  injected' = injected /\ Quiet(mgr')
  <2>1. injected' = injected /\ \A d \in OfJob(mgr, j) : d.st # "formatting"
    BY <1>12 DEF EvictionTimerFires
  <2>2. /\ mgr'.row = [k \in Jobs |-> IF k = j THEN Gone(mgr.row[k]) ELSE mgr.row[k]]
        /\ mgr'.suppressed = mgr.suppressed \ {j} /\ mgr'.watched = mgr.watched \ {j}
        /\ mgr'.deliveries = mgr.deliveries
    BY <1>12, EvictionIs
  <2>3. Gone(mgr.row[j]).status = "none"
    BY BInvParts, PartsOf, GoneTyped
  <2>4. \A d \in mgr.deliveries : d.job # j
    BY <2>1, QuietIdle DEF OfJob
  <2>5. \A k \in Jobs : mgr'.row[k].status = "running" => k # j /\ k \in mgr.suppressed
    BY <2>2, <2>3, QuietIdle
  <2>6. \A d \in mgr.deliveries : d.st # "parked" /\ d.job \in mgr.suppressed
    BY QuietIdle
  <2> QED
    BY <2>1, <2>2, <2>4, <2>5, <2>6 DEF Quiet
<1>13. ASSUME NEW d \in mgr.deliveries, BackoffElapses(d)
       PROVE  FALSE
  BY <1>13, QuietIdle DEF BackoffElapses
<1>14. ASSUME NEW d \in mgr.deliveries, FormatReturns(d)
       PROVE  injected' = injected /\ Quiet(mgr')
  <2>1. injected' = injected
    BY <1>14 DEF FormatReturns
  <2>2. NoLongerWanted(d)
    BY DEF NoLongerWanted, Quiet
  <2>3. /\ mgr'.suppressed = mgr.suppressed /\ mgr'.watched = mgr.watched
        /\ mgr'.row = RowsAfterReturn(mgr, {d})
        /\ mgr'.deliveries = mgr.deliveries \ {d}
    <3> DEFINE q == [d EXCEPT !.st = "parked"]
    <3>1. /\ ManagerOK(mgr') /\ mgr'.suppressed = mgr.suppressed /\ mgr'.watched = mgr.watched
          /\ NoLongerWanted(d) =>
                /\ mgr'.row = RowsAfterReturn(mgr, {d})
                /\ mgr'.consumed = mgr.consumed \cup ShownBy(mgr, {d})
                /\ mgr'.deliveries = mgr.deliveries \ {d}
          /\ ~NoLongerWanted(d) =>
                /\ mgr'.row = mgr.row /\ mgr'.consumed = mgr.consumed
                /\ mgr'.deliveries = (mgr.deliveries \ {d}) \cup {q}
          /\ q.job = d.job /\ q.run = d.run /\ q.born = d.born /\ q.st = "parked"
          /\ q.epoch = d.epoch /\ d.st = "formatting"
      BY <1>14, FormatIs
    <3> QED
      BY <2>2, <3>1
  <2>4. \A k \in Jobs : mgr'.row[k].status = mgr.row[k].status
    BY <2>3, BInvParts, PartsOf, ReturnKeepsRows
  <2> QED
    BY <2>1, <2>3, <2>4 DEF Quiet
<1> QED
  BY <1>1, <1>2, <1>3, <1>4, <1>5, <1>6, <1>7, <1>8, <1>9, <1>10, <1>11, <1>12, <1>13, <1>14
     DEF Next

(* A subagent's run may be declared over when hasPendingAsyncWork() says    *)
(* that nothing is pending: whatever settles, is evicted or comes back from *)
(* the sink afterwards, no result of this conversation wakes the session,   *)
(* and nothing becomes pending again while it stays idle.                   *)
THEOREM QuietIsFinal == Spec => QuietStaysQuiet
<1>1. BInv /\ [Next]_vars
        => [session = "idle" /\ ~PendingAsyncWake /\ epoch' = epoch
              => /\ injected' = injected
                 /\ session' = "idle" => ~PendingAsyncWake']_vars
  <2> SUFFICES ASSUME BInv, [Next]_vars, session = "idle", ~PendingAsyncWake, epoch' = epoch
               PROVE  injected' = injected /\ (session' = "idle" => ~PendingAsyncWake')
    OBVIOUS
  <2>1. Quiet(mgr)
    BY QuietIs
  <2>2. injected' = injected /\ (session' = "idle" => Quiet(mgr'))
    BY <2>1, QuietNext
  <2>3. Quiet(mgr') <=> ~PendingAsyncWake'
    BY QuietAfter DEF Quiet
  <2> QED
    BY <2>2, <2>3
<1>2. Spec => [][Next]_vars
  BY DEF Spec
<1> QED
  BY <1>1, <1>2, BInvAlways, PTL DEF QuietStaysQuiet

-----------------------------------------------------------------------------
(* One delivery for each result whose row lasts.  A delivery is backed by  *)
(* the row it was made for, or it is a stray: its row was evicted, by a    *)
(* timer it outlasted or with a conversation that is over, and the id may  *)
(* have been registered again.  A backed delivery is fresh.                *)

Backed(m, d) == HasRow(m, d.job) /\ m.row[d.job].run = d.run

Stray(m, d) == d.run <= m.row[d.job].run /\ ~Backed(m, d)

Fresh(m, d, e) ==
  /\ m.row[d.job].status = "completed"
  /\ m.row[d.job].run = d.run /\ m.row[d.job].born = d.born
  /\ d.st \in InSession => d.epoch = e

OnceOK(m, e) ==
  /\ \A d \in m.deliveries : d.run <= m.row[d.job].run
  /\ \A d \in m.deliveries : Backed(m, d) => Fresh(m, d, e)
  /\ \A c, d \in m.deliveries : Backed(m, c) /\ Backed(m, d) /\ c.job = d.job => c = d
  /\ \A j \in Jobs : m.row[j].status \in {"running", "completed"} => m.row[j].born = e

(* What has been shown is an ended run; it is not under way again; and the *)
(* id of a result a reader was given stays suppressed while its row lasts. *)
HistoryOK(m, e, inj, rec) ==
  /\ \A d \in m.deliveries : Backed(m, d) => inj[<<d.job, d.run>>] = 0
  /\ \A j \in Jobs : HasRow(m, j) /\ <<j, m.row[j].run>> \in rec => j \in m.suppressed
  /\ \A j \in Jobs, r \in Runs : inj[<<j, r>>] > 0 \/ <<j, r>> \in rec =>
        r <= m.row[j].run /\ (r = m.row[j].run => ~m.row[j].busy)
  /\ \A d \in m.deliveries : d.st = "pulled" => d.job \notin m.suppressed

OInv == OnceOK(mgr, epoch) /\ HistoryOK(mgr, epoch, injected, recovered)

(* Deliveries move on or are dropped, and rows end or change their timer. *)
Moves(m, n, e, f) ==
  /\ n.deliveries \subseteq {f[d] : d \in m.deliveries}
  /\ \A d \in m.deliveries :
       /\ f[d].job = d.job /\ f[d].run = d.run /\ f[d].born = d.born
       /\ Backed(m, d) /\ f[d].st \in InSession => f[d].epoch = e

RowsFollow(m, n) ==
  \A j \in Jobs :
    /\ n.row[j].run = m.row[j].run /\ n.row[j].born = m.row[j].born
    /\ n.row[j].busy = m.row[j].busy
    /\ \/ n.row[j].status = m.row[j].status
       \/ m.row[j].status = "running" /\ n.row[j].status = "cancelled"

LEMMA OnceMoves ==
  ASSUME NEW m, ManagerOK(m), NEW e \in Epochs, OnceOK(m, e),
         NEW n, NEW f, Moves(m, n, e, f), RowsFollow(m, n)
  PROVE  /\ OnceOK(n, e)
         /\ \A y \in n.deliveries : \E d \in m.deliveries :
              /\ y = f[d] /\ y.job = d.job /\ y.run = d.run
              /\ Backed(n, y) => Backed(m, d)
<1>1. \A d \in m.deliveries : d.job \in Jobs
  BY PartsOf, DeliveryIs
<1>2. ASSUME NEW d \in m.deliveries
      PROVE  /\ f[d].job = d.job /\ f[d].run = d.run
             /\ f[d].run <= n.row[f[d].job].run
             /\ Backed(n, f[d]) => Fresh(n, f[d], e) /\ Backed(m, d)
  <2>1. f[d].job = d.job /\ f[d].run = d.run /\ f[d].born = d.born
    BY DEF Moves
  <2>2. n.row[d.job].run = m.row[d.job].run /\ (HasRow(n, d.job) <=> HasRow(m, d.job))
    BY <1>1 DEF RowsFollow, HasRow
  <2>3. d.run <= m.row[d.job].run
    BY DEF OnceOK
  <2>4. Backed(n, f[d]) => Backed(m, d)
    BY <2>1, <2>2 DEF Backed
  <2>5. ASSUME Backed(m, d)
        PROVE  Fresh(n, f[d], e)
    <3>1. Fresh(m, d, e) /\ (f[d].st \in InSession => f[d].epoch = e)
      BY <2>5 DEF OnceOK, Moves
    <3> QED
      BY <1>1, <2>1, <3>1 DEF Fresh, RowsFollow
  <2> QED
    BY <2>1, <2>2, <2>3, <2>4, <2>5
<1>3. ASSUME NEW y \in n.deliveries
      PROVE  \E d \in m.deliveries :
               /\ y = f[d] /\ y.job = d.job /\ y.run = d.run
               /\ Backed(n, y) => Backed(m, d)
  <2>1. PICK d \in m.deliveries : y = f[d]
    BY DEF Moves
  <2> QED
    BY <1>2, <2>1
<1>4. \A y \in n.deliveries : /\ y.run <= n.row[y.job].run
                              /\ Backed(n, y) => Fresh(n, y, e)
  BY <1>2, <1>3
<1>5. \A x, y \in n.deliveries : Backed(n, x) /\ Backed(n, y) /\ x.job = y.job => x = y
  <2> SUFFICES ASSUME NEW x \in n.deliveries, NEW y \in n.deliveries,
                      Backed(n, x), Backed(n, y), x.job = y.job
               PROVE  x = y
    OBVIOUS
  <2>1. PICK c \in m.deliveries : x = f[c] /\ x.job = c.job /\ Backed(m, c)
    BY <1>3
  <2>2. PICK d \in m.deliveries : y = f[d] /\ y.job = d.job /\ Backed(m, d)
    BY <1>3
  <2> QED
    BY <2>1, <2>2 DEF OnceOK
<1>6. \A j \in Jobs : n.row[j].status \in {"running", "completed"} => n.row[j].born = e
  BY DEF OnceOK, RowsFollow
<1> QED
  BY <1>3, <1>4, <1>5, <1>6 DEF OnceOK

(* The same step as the history sees it, when nothing is injected. *)
LEMMA HistoryMoves ==
  ASSUME NEW m, ManagerOK(m), NEW e \in Epochs, OnceOK(m, e),
         NEW n, NEW f, Moves(m, n, e, f), RowsFollow(m, n),
         NEW inj, NEW rec, HistoryOK(m, e, inj, rec), m.suppressed \subseteq n.suppressed,
         NEW now, \A r \in now : r \in rec \/
            \E j \in Jobs : r = <<j, m.row[j].run>> /\ ~m.row[j].busy /\ j \in n.suppressed,
         \A d \in n.deliveries : d.st = "pulled" => d.job \notin n.suppressed
  PROVE  OnceOK(n, e) /\ HistoryOK(n, e, inj, now)
<1>1. OnceOK(n, e)
  BY OnceMoves
<1>2. \A y \in n.deliveries : Backed(n, y) => inj[<<y.job, y.run>>] = 0
  <2>1. \A y \in n.deliveries : \E d \in m.deliveries :
              /\ y = f[d] /\ y.job = d.job /\ y.run = d.run
              /\ Backed(n, y) => Backed(m, d)
    BY OnceMoves
  <2> QED
    BY <2>1 DEF HistoryOK
<1>3. \A j \in Jobs : HasRow(n, j) /\ <<j, n.row[j].run>> \in now => j \in n.suppressed
  <2> TAKE j \in Jobs
  <2>1. n.row[j].run = m.row[j].run /\ (HasRow(n, j) <=> HasRow(m, j))
    BY DEF RowsFollow, HasRow
  <2>2. CASE <<j, m.row[j].run>> \in rec
    BY <2>1, <2>2 DEF HistoryOK
  <2>3. CASE <<j, m.row[j].run>> \notin rec
    BY <2>1, <2>3
  <2> QED
    BY <2>2, <2>3
<1>4. \A j \in Jobs, r \in Runs : inj[<<j, r>>] > 0 \/ <<j, r>> \in now =>
        r <= n.row[j].run /\ (r = n.row[j].run => ~n.row[j].busy)
  <2> TAKE j \in Jobs, r \in Runs
  <2>1. n.row[j].run = m.row[j].run /\ n.row[j].busy = m.row[j].busy
    BY DEF RowsFollow
  <2>2. CASE inj[<<j, r>>] > 0 \/ <<j, r>> \in rec
    BY <2>1, <2>2 DEF HistoryOK
  <2>3. CASE <<j, r>> \in now /\ <<j, r>> \notin rec
    <3>1. r = m.row[j].run /\ ~m.row[j].busy
      BY <2>3
    <3>2. r <= r
      BY DEF Runs
    <3> QED
      BY <2>1, <3>1, <3>2
  <2> QED
    BY <2>2, <2>3
<1> QED
  BY <1>1, <1>2, <1>3, <1>4 DEF HistoryOK

Same(m) == [d \in m.deliveries |-> d]

LEMMA FewerMoves ==
  ASSUME NEW m, NEW e, OnceOK(m, e), NEW n, n.deliveries \subseteq m.deliveries
  PROVE  Moves(m, n, e, Same(m))
<1>1. \A d \in m.deliveries : Same(m)[d] = d
  BY DEF Same
<1>2. \A d \in m.deliveries : Backed(m, d) /\ d.st \in InSession => d.epoch = e
  BY DEF OnceOK, Fresh
<1> QED
  BY <1>1, <1>2 DEF Moves

LEMMA SameRowsFollow ==
  ASSUME NEW m, NEW n, n.row = m.row
  PROVE  RowsFollow(m, n)
BY DEF RowsFollow

LEMMA ReturnMoves ==
  ASSUME NEW m, ManagerOK(m), NEW e, OnceOK(m, e), NEW ds \in SUBSET m.deliveries, NEW n,
         n.row = RowsAfterReturn(m, ds), n.deliveries = m.deliveries \ ds
  PROVE  Moves(m, n, e, Same(m)) /\ RowsFollow(m, n)
<1>1. Moves(m, n, e, Same(m))
  BY FewerMoves
<1>2. RowsFollow(m, n)
  <2> SUFFICES ASSUME NEW j \in Jobs
               PROVE  /\ n.row[j].run = m.row[j].run /\ n.row[j].born = m.row[j].born
                      /\ n.row[j].busy = m.row[j].busy
                      /\ n.row[j].status = m.row[j].status
    BY DEF RowsFollow
  <2> QED
    BY PartsOf, ReturnKeepsRows
<1> QED
  BY <1>1, <1>2

Back(m, ds) == [d \in m.deliveries |-> IF d \in ds THEN ThrownBack(d) ELSE d]

LEMMA ThrowMoves ==
  ASSUME NEW m, ManagerOK(m), NEW e, OnceOK(m, e), NEW ds \in SUBSET m.deliveries, NEW n,
         \A d \in ds : d.st \in {"parked", "pulled"}, n.deliveries = LeftAfterThrow(m, ds)
  PROVE  Moves(m, n, e, Back(m, ds))
<1> DEFINE f == Back(m, ds)
<1>1. \A d \in m.deliveries :
        f[d] = IF d \in ds THEN ThrownBack(d) ELSE d
  BY DEF Back
<1>2. \A d \in ds : /\ ThrownBack(d).job = d.job /\ ThrownBack(d).run = d.run
                    /\ ThrownBack(d).born = d.born /\ ThrownBack(d).st = "backoff"
  BY PartsOf, ThrownBackIs
<1>3. n.deliveries \subseteq {f[d] : d \in m.deliveries}
  BY <1>1 DEF LeftAfterThrow
<1>4. \A d \in m.deliveries : Backed(m, d) /\ d.st \in InSession => d.epoch = e
  BY DEF OnceOK, Fresh
<1> HIDE DEF f
<1>5. ASSUME NEW d \in m.deliveries
      PROVE  /\ f[d].job = d.job /\ f[d].run = d.run /\ f[d].born = d.born
             /\ Backed(m, d) /\ f[d].st \in InSession => f[d].epoch = e
  <2>1. CASE d \in ds
    BY <1>1, <1>2, <2>1 DEF InSession
  <2>2. CASE d \notin ds
    BY <1>1, <1>4, <2>2
  <2> QED
    BY <2>1, <2>2
<1> QED
  BY <1>3, <1>5 DEF Moves, f

(* What the messages that enter the transcript count for: a run whose row   *)
(* lasts is counted at most once.                                           *)
LEMMA Counted ==
  ASSUME NEW m, ManagerOK(m), NEW e, OnceOK(m, e), NEW ds \in SUBSET m.deliveries,
         NEW r
  PROVE  LET c == Cardinality({d \in ds : <<d.job, d.run>> = r}) IN
         /\ c \in Nat /\ (c = 0 <=> \A d \in ds : <<d.job, d.run>> # r)
         /\ (\A d \in ds : <<d.job, d.run>> = r => Backed(m, d)) => c \in {0, 1}
<1> DEFINE S == {d \in ds : <<d.job, d.run>> = r}
<1>1. IsFiniteSet(S)
  <2>1. IsFiniteSet(m.deliveries)
    BY DEF ManagerOK
  <2> QED
    BY <2>1, FS_Subset
<1>2. Cardinality(S) \in Nat /\ (Cardinality(S) = 0 <=> S = {})
  BY <1>1, FS_CardinalityType, FS_EmptySet
<1>3. ASSUME \A d \in ds : <<d.job, d.run>> = r => Backed(m, d)
      PROVE  Cardinality(S) \in {0, 1}
  <2>1. CASE S = {}
    BY <1>2, <2>1
  <2>2. CASE S # {}
    <3>1. PICK d \in ds : <<d.job, d.run>> = r
      BY <2>2
    <3>2. S = {d}
      BY <1>3, <3>1 DEF OnceOK
    <3>3. Cardinality({d}) = 1
      BY FS_Singleton
    <3> QED
      BY <3>2, <3>3
  <2> QED
    BY <2>1, <2>2
<1> QED
  BY <1>2, <1>3

Adds(inj, now, ds) ==
  \A r \in Jobs \X Runs : now[r] = inj[r] + Cardinality({d \in ds : <<d.job, d.run>> = r})

LEMMA HistoryInject ==
  ASSUME NEW m, ManagerOK(m), NEW e \in Epochs, OnceOK(m, e), NEW ds \in SUBSET m.deliveries,
         NEW n, n.row = RowsAfterReturn(m, ds), n.deliveries = m.deliveries \ ds,
         n.suppressed = m.suppressed,
         NEW inj \in [Jobs \X Runs -> Nat], NEW rec, HistoryOK(m, e, inj, rec),
         NEW now, Adds(inj, now, ds)
  PROVE  OnceOK(n, e) /\ HistoryOK(n, e, now, rec)
<1> DEFINE k(r) == Cardinality({d \in ds : <<d.job, d.run>> = r})
<1>1. \A r : k(r) \in Nat /\ (k(r) = 0 <=> \A d \in ds : <<d.job, d.run>> # r)
  BY Counted
<1>2. \A r \in Jobs \X Runs : now[r] = inj[r] + k(r) /\ inj[r] \in Nat
  BY DEF Adds
<1> HIDE DEF k
<1>3. Moves(m, n, e, Same(m)) /\ RowsFollow(m, n)
  BY ReturnMoves
<1>4. \A r \in rec : r \in rec
  OBVIOUS
<1>5. \A d \in n.deliveries : d.st = "pulled" => d.job \notin n.suppressed
  BY DEF HistoryOK
<1>6. OnceOK(n, e) /\ HistoryOK(n, e, inj, rec)
  BY <1>3, <1>4, <1>5, HistoryMoves
<1>7. \A d \in n.deliveries : Backed(n, d) => now[<<d.job, d.run>>] = 0
  <2> SUFFICES ASSUME NEW d \in n.deliveries, Backed(n, d)
               PROVE  now[<<d.job, d.run>>] = 0
    OBVIOUS
  <2> DEFINE r == <<d.job, d.run>>
  <2>1. inj[r] = 0
    BY <1>6 DEF HistoryOK
  <2>2. r \in Jobs \X Runs /\ d.job \in Jobs
    BY PartsOf, DeliveryIs
  <2>3. Backed(m, d)
    BY <1>3, <2>2 DEF Backed, RowsFollow, HasRow
  <2>4. \A c \in ds : <<c.job, c.run>> # r
    <3> SUFFICES ASSUME NEW c \in ds, c.job = d.job, c.run = d.run
                 PROVE  FALSE
      OBVIOUS
    <3>1. Backed(m, c)
      BY <2>3 DEF Backed
    <3> QED
      BY <2>3, <3>1 DEF OnceOK
  <2> HIDE DEF r
  <2>5. k(r) = 0
    BY <1>1, <2>4
  <2>6. now[r] = 0
    BY <1>2, <2>1, <2>2, <2>5
  <2> QED
    BY <2>6 DEF r
<1>8. \A j \in Jobs, r \in Runs : now[<<j, r>>] > 0 \/ <<j, r>> \in rec =>
        r <= n.row[j].run /\ (r = n.row[j].run => ~n.row[j].busy)
  <2> SUFFICES ASSUME NEW j \in Jobs, NEW r \in Runs, now[<<j, r>>] > 0 \/ <<j, r>> \in rec
               PROVE  r <= n.row[j].run /\ (r = n.row[j].run => ~n.row[j].busy)
    OBVIOUS
  <2>1. CASE inj[<<j, r>>] > 0 \/ <<j, r>> \in rec
    BY <1>6, <2>1 DEF HistoryOK
  <2>2. CASE ~(inj[<<j, r>>] > 0 \/ <<j, r>> \in rec)
    <3> DEFINE p == <<j, r>>
    <3>1. p \in Jobs \X Runs /\ now[p] > 0 /\ ~(inj[p] > 0)
      BY <2>2
    <3>2. k(p) # 0
      <4> HIDE DEF p
      <4> QED
        BY <1>2, <3>1
    <3>3. PICK d \in ds : <<d.job, d.run>> = p
      BY <1>1, <3>2
    <3>4. d.job = j /\ d.run = r /\ r <= m.row[j].run
      BY <3>3 DEF OnceOK
    <3>5. n.row[j].run = m.row[j].run /\ n.row[j].busy = m.row[j].busy
      BY <1>3 DEF RowsFollow
    <3>6. ASSUME r = m.row[j].run
          PROVE  ~m.row[j].busy
      <4>1. CASE HasRow(m, j)
        <5>1. m.row[j].status = "completed"
          BY <3>4, <3>6, <4>1 DEF OnceOK, Backed, Fresh
        <5> QED
          BY <5>1, PartsOf DEF RowsOK
      <4>2. CASE ~HasRow(m, j)
        BY <4>2, PartsOf DEF RowsOK, HasRow
      <4> QED
        BY <4>1, <4>2
    <3> QED
      BY <3>4, <3>5, <3>6
  <2> QED
    BY <2>1, <2>2
<1> QED
  BY <1>6, <1>7, <1>8 DEF HistoryOK

Swap(m, d, q) == [x \in m.deliveries |-> IF x = d THEN q ELSE x]

LEMMA SwapMoves ==
  ASSUME NEW m, NEW e, OnceOK(m, e), NEW d \in m.deliveries, NEW q,
         q.job = d.job, q.run = d.run, q.born = d.born,
         Backed(m, d) /\ q.st \in InSession => q.epoch = e,
         NEW n, n.deliveries = (m.deliveries \ {d}) \cup {q}
  PROVE  Moves(m, n, e, Swap(m, d, q))
<1> DEFINE f == Swap(m, d, q)
<1>1. \A x \in m.deliveries : f[x] = IF x = d THEN q ELSE x
  BY DEF Swap
<1>2. n.deliveries \subseteq {f[x] : x \in m.deliveries}
  BY <1>1
<1>3. \A x \in m.deliveries : Backed(m, x) /\ x.st \in InSession => x.epoch = e
  BY DEF OnceOK, Fresh
<1> HIDE DEF f
<1>4. ASSUME NEW x \in m.deliveries
      PROVE  /\ f[x].job = x.job /\ f[x].run = x.run /\ f[x].born = x.born
             /\ Backed(m, x) /\ f[x].st \in InSession => f[x].epoch = e
  <2>1. CASE x = d
    BY <1>1, <2>1
  <2>2. CASE x # d
    BY <1>1, <1>3, <2>2
  <2> QED
    BY <2>1, <2>2
<1> QED
  BY <1>2, <1>4 DEF Moves, f

LEMMA OMoves ==
  ASSUME BInv, OInv, epoch' = epoch, injected' = injected,
         NEW f, Moves(mgr, mgr', epoch, f), RowsFollow(mgr, mgr'),
         mgr.suppressed \subseteq mgr'.suppressed,
         \A r \in recovered' : r \in recovered \/
            \E j \in Jobs : r = CurrentRun(j) /\ ~mgr.row[j].busy /\ j \in mgr'.suppressed,
         \A d \in mgr'.deliveries : d.st = "pulled" => d.job \notin mgr'.suppressed
  PROVE  OInv'
<1>1. ManagerOK(mgr) /\ epoch \in Epochs /\ OnceOK(mgr, epoch)
      /\ HistoryOK(mgr, epoch, injected, recovered)
  BY BInvParts DEF OInv
<1>2. \A r \in recovered' : r \in recovered \/
         \E j \in Jobs : r = <<j, mgr.row[j].run>> /\ ~mgr.row[j].busy /\ j \in mgr'.suppressed
  BY DEF CurrentRun
<1>3. OnceOK(mgr', epoch) /\ HistoryOK(mgr', epoch, injected, recovered')
  BY <1>1, <1>2, HistoryMoves
<1> QED
  BY <1>3 DEF OInv

LEMMA NonePulled ==
  ASSUME BInv, session # "boundary"
  PROVE  \A d \in mgr.deliveries : d.st # "pulled"
BY BInvParts

LEMMA ODeliveryLoop ==
  ASSUME BInv, OInv, DeliveryLoop
  PROVE  OInv'
<1>1. ManagerOK(mgr) /\ epoch \in Epochs /\ OnceOK(mgr, epoch)
      /\ HistoryOK(mgr, epoch, injected, recovered)
  BY BInvParts DEF OInv
<1>2. UNCHANGED <<session, epoch, hub, fg, injected, recovered>>
  BY DEF DeliveryLoop
<1>3. mgr'.row = mgr.row /\ mgr'.suppressed = mgr.suppressed /\ RowsFollow(mgr, mgr')
  BY DeliveryLoopIs, SameRowsFollow
<1>4. CASE mgr'.deliveries \subseteq mgr.deliveries
  <2>1. Moves(mgr, mgr', epoch, Same(mgr))
    BY <1>1, <1>4, FewerMoves
  <2>2. \A d \in mgr'.deliveries : d.st = "pulled" => d.job \notin mgr'.suppressed
    BY <1>1, <1>3, <1>4 DEF HistoryOK
  <2> QED
    BY <1>2, <1>3, <2>1, <2>2, OMoves
<1>5. ASSUME NEW d \in mgr.deliveries, d.st = "queued",
             mgr'.deliveries = (mgr.deliveries \ {d}) \cup {Handed(d, epoch)}
      PROVE  OInv'
  <2> DEFINE q == Handed(d, epoch)
  <2>1. q.job = d.job /\ q.run = d.run /\ q.born = d.born /\ q.st = "formatting" /\ q.epoch = epoch
    BY <1>1, PartsOf, HandedIs
  <2> HIDE DEF q
  <2>2. mgr'.deliveries = (mgr.deliveries \ {d}) \cup {q}
    BY <1>5 DEF q
  <2>3. Moves(mgr, mgr', epoch, Swap(mgr, d, q))
    BY <1>1, <2>1, <2>2, SwapMoves
  <2>4. \A x \in mgr'.deliveries : x.st = "pulled" => x.job \notin mgr'.suppressed
    BY <1>1, <1>3, <2>1, <2>2 DEF HistoryOK
  <2> QED
    BY <1>2, <1>3, <2>3, <2>4, OMoves
<1> QED
  BY <1>4, <1>5, DeliveryLoopIs

LEMMA OBackoffElapses ==
  ASSUME BInv, OInv, NEW d \in mgr.deliveries, BackoffElapses(d)
  PROVE  OInv'
<1>1. ManagerOK(mgr) /\ epoch \in Epochs /\ OnceOK(mgr, epoch)
      /\ HistoryOK(mgr, epoch, injected, recovered)
  BY BInvParts DEF OInv
<1>2. d.st = "backoff" /\ UNCHANGED <<session, epoch, hub, fg, injected, recovered>>
  BY DEF BackoffElapses
<1> DEFINE q == [d EXCEPT !.st = "queued"]
<1>3. /\ ManagerOK(mgr') /\ mgr'.row = mgr.row /\ mgr'.suppressed = mgr.suppressed
      /\ mgr'.watched = mgr.watched /\ mgr'.consumed = mgr.consumed
      /\ mgr'.deliveries = (mgr.deliveries \ {d}) \cup {q}
      /\ q.job = d.job /\ q.run = d.run /\ q.born = d.born /\ q.st = "queued"
      /\ q.epoch = d.epoch
  BY BackoffIs
<1> HIDE DEF q
<1>4. q.st \notin InSession
  BY <1>3 DEF InSession
<1>5. Moves(mgr, mgr', epoch, Swap(mgr, d, q))
  BY <1>1, <1>3, <1>4, SwapMoves
<1>6. RowsFollow(mgr, mgr')
  BY <1>3, SameRowsFollow
<1>7. \A x \in mgr'.deliveries : x.st = "pulled" => x.job \notin mgr'.suppressed
  BY <1>1, <1>3 DEF HistoryOK
<1> QED
  BY <1>2, <1>3, <1>5, <1>6, <1>7, OMoves

LEMMA OFormatReturns ==
  ASSUME BInv, OInv, NEW d \in mgr.deliveries, FormatReturns(d)
  PROVE  OInv'
<1>1. ManagerOK(mgr) /\ epoch \in Epochs /\ OnceOK(mgr, epoch)
      /\ HistoryOK(mgr, epoch, injected, recovered)
  BY BInvParts DEF OInv
<1>2. UNCHANGED <<session, epoch, hub, fg, injected, recovered>>
  BY DEF FormatReturns
<1> DEFINE q == [d EXCEPT !.st = "parked"]
<1>3. /\ ManagerOK(mgr') /\ mgr'.suppressed = mgr.suppressed /\ mgr'.watched = mgr.watched
      /\ NoLongerWanted(d) =>
            /\ mgr'.row = RowsAfterReturn(mgr, {d})
            /\ mgr'.consumed = mgr.consumed \cup ShownBy(mgr, {d})
            /\ mgr'.deliveries = mgr.deliveries \ {d}
      /\ ~NoLongerWanted(d) =>
            /\ mgr'.row = mgr.row /\ mgr'.consumed = mgr.consumed
            /\ mgr'.deliveries = (mgr.deliveries \ {d}) \cup {q}
      /\ q.job = d.job /\ q.run = d.run /\ q.born = d.born /\ q.st = "parked"
      /\ q.epoch = d.epoch /\ d.st = "formatting"
  BY FormatIs
<1> HIDE DEF q
<1>4. \A x \in mgr'.deliveries : x.st = "pulled" => x.job \notin mgr'.suppressed
  BY <1>1, <1>3 DEF HistoryOK
<1>5. CASE NoLongerWanted(d)
  <2> DEFINE ds == {d}
  <2>1. /\ ds \in SUBSET mgr.deliveries
        /\ mgr'.row = RowsAfterReturn(mgr, ds) /\ mgr'.deliveries = mgr.deliveries \ ds
    BY <1>3, <1>5
  <2> HIDE DEF ds
  <2>2. Moves(mgr, mgr', epoch, Same(mgr)) /\ RowsFollow(mgr, mgr')
    BY <1>1, <2>1, ReturnMoves
  <2> QED
    BY <1>2, <1>3, <1>4, <2>2, OMoves
<1>6. CASE ~NoLongerWanted(d)
  <2>1. d.epoch = epoch
    BY <1>6 DEF NoLongerWanted
  <2>2. Moves(mgr, mgr', epoch, Swap(mgr, d, q))
    BY <1>1, <1>3, <1>6, <2>1, SwapMoves
  <2>3. RowsFollow(mgr, mgr')
    BY <1>3, <1>6, SameRowsFollow
  <2> QED
    BY <1>2, <1>3, <1>4, <2>2, <2>3, OMoves
<1> QED
  BY <1>5, <1>6

(* A follow-up that is not stale is not suppressed. *)
LEMMA ParkedWanted ==
  ASSUME BInv, OInv
  PROVE  /\ \A d \in Parked : ~Stale(d) => d.job \notin mgr.suppressed
         /\ \A d \in Pulled : d.job \notin mgr.suppressed
BY DEF Parked, Pulled, Stale, Suppressed, OInv, HistoryOK

LEMMA OIdleFlush ==
  ASSUME BInv, OInv, IdleFlush
  PROVE  OInv'
<1> DEFINE stale == {d \in Parked : Stale(d)}
           taken == Parked \ stale
           x     == Throw(mgr, stale)
<1>1. ManagerOK(mgr) /\ epoch \in Epochs /\ OnceOK(mgr, epoch)
      /\ HistoryOK(mgr, epoch, injected, recovered) /\ injected \in [Jobs \X Runs -> Nat]
  BY BInvParts DEF OInv
<1>2. session = "idle" /\ UNCHANGED <<epoch, hub, fg, recovered>>
  BY DEF IdleFlush
<1>3. /\ ManagerOK(x) /\ x.row = mgr.row /\ x.suppressed = mgr.suppressed
      /\ x.watched = mgr.watched /\ x.consumed = mgr.consumed
      /\ x.deliveries = LeftAfterThrow(mgr, stale)
      /\ taken \subseteq x.deliveries /\ \A d \in taken : d.st = "parked"
      /\ ManagerOK(mgr') /\ mgr'.row = RowsAfterReturn(x, taken)
      /\ mgr'.suppressed = x.suppressed /\ mgr'.watched = x.watched
      /\ mgr'.consumed = x.consumed \cup ShownBy(x, taken)
      /\ mgr'.deliveries = x.deliveries \ taken
      /\ Inject(taken)
  BY IdleFlushIs
<1>4. /\ stale \in SUBSET mgr.deliveries /\ taken \in SUBSET mgr.deliveries
      /\ \A d \in stale : d.st \in {"parked", "pulled"}
  BY DEF Parked
<1> HIDE DEF stale, taken, x
<1>5. Moves(mgr, x, epoch, Back(mgr, stale)) /\ RowsFollow(mgr, x)
  BY <1>1, <1>3, <1>4, ThrowMoves, SameRowsFollow
<1>6. \A d \in x.deliveries : d.st # "pulled"
  <2>1. \A d \in mgr.deliveries : d.st # "pulled"
    BY <1>2, NonePulled
  <2> QED
    BY <1>1, <1>3, <1>4, <2>1, PartsOf, LeftIs
<1>7. OnceOK(x, epoch) /\ HistoryOK(x, epoch, injected, recovered)
  <2>1. \A r \in recovered : r \in recovered
    OBVIOUS
  <2>2. mgr.suppressed \subseteq x.suppressed
    BY <1>3
  <2>3. \A d \in x.deliveries : d.st = "pulled" => d.job \notin x.suppressed
    BY <1>6
  <2> QED
    BY <1>1, <1>5, <2>1, <2>2, <2>3, HistoryMoves
<1>8. Adds(injected, injected', taken)
  BY <1>3, <1>4, InjectTyped DEF Adds
<1>9. taken \in SUBSET x.deliveries
  BY <1>3
<1>10. OnceOK(mgr', epoch) /\ HistoryOK(mgr', epoch, injected', recovered)
  <2>1. /\ mgr'.row = RowsAfterReturn(x, taken) /\ mgr'.suppressed = x.suppressed
        /\ mgr'.deliveries = x.deliveries \ taken /\ ManagerOK(x)
    BY <1>3
  <2> QED
    BY <1>1, <1>7, <1>8, <1>9, <2>1, HistoryInject
<1> QED
  BY <1>2, <1>10 DEF OInv

LEMMA OCommitAsides ==
  ASSUME BInv, OInv, CommitAsides
  PROVE  OInv'
<1>1. ManagerOK(mgr) /\ epoch \in Epochs /\ OnceOK(mgr, epoch)
      /\ HistoryOK(mgr, epoch, injected, recovered) /\ injected \in [Jobs \X Runs -> Nat]
  BY BInvParts DEF OInv
<1>2. UNCHANGED <<epoch, hub, fg, recovered>>
  BY DEF CommitAsides
<1>3. /\ ManagerOK(mgr') /\ mgr'.row = RowsAfterReturn(mgr, Pulled)
      /\ mgr'.suppressed = mgr.suppressed /\ mgr'.watched = mgr.watched
      /\ mgr'.consumed = mgr.consumed \cup ShownBy(mgr, Pulled)
      /\ mgr'.deliveries = mgr.deliveries \ Pulled
      /\ Pulled \in SUBSET mgr.deliveries /\ Inject(Pulled)
  BY CommitIs
<1>4. Adds(injected, injected', Pulled)
  BY <1>3, InjectTyped DEF Adds
<1>5. OnceOK(mgr', epoch) /\ HistoryOK(mgr', epoch, injected', recovered)
  <2>1. /\ mgr'.row = RowsAfterReturn(mgr, Pulled) /\ mgr'.suppressed = mgr.suppressed
        /\ mgr'.deliveries = mgr.deliveries \ Pulled /\ Pulled \in SUBSET mgr.deliveries
    BY <1>3
  <2> QED
    BY <1>1, <1>4, <2>1, HistoryInject
<1> QED
  BY <1>2, <1>5 DEF OInv

(* Rows of js change, whose ids have at most strays under way from then on, *)
(* and at most one result of each is queued anew.                           *)
LEMMA NewRows ==
  ASSUME NEW m, ManagerOK(m), NEW e \in Epochs, OnceOK(m, e),
         NEW inj, NEW rec, HistoryOK(m, e, inj, rec), NEW js \in SUBSET Jobs,
         NEW n, \A d \in m.deliveries : d.job \in js => Stray(n, d),
         \A y \in n.deliveries : y \in m.deliveries \/
            /\ y.job \in js /\ y.run \in Runs /\ Fresh(n, y, e) /\ y.st = "queued"
            /\ inj[<<y.job, y.run>>] = 0
            /\ \A c \in n.deliveries : c.job = y.job => c = y \/ c \in m.deliveries,
         \A k \in Jobs : k \notin js =>
            n.row[k] = m.row[k] /\ (k \in n.suppressed <=> k \in m.suppressed),
         \A k \in js : k \in n.suppressed =>
            k \in m.suppressed \/ \A d \in m.deliveries : d.st # "pulled",
         \A k \in js :
            /\ n.row[k].status \in {"running", "completed"} => n.row[k].born = e
            /\ HasRow(n, k) /\ <<k, n.row[k].run>> \in rec => k \in n.suppressed
            /\ \A r \in Runs : inj[<<k, r>>] > 0 \/ <<k, r>> \in rec =>
                  r <= n.row[k].run /\ (r = n.row[k].run => ~n.row[k].busy)
  PROVE  OnceOK(n, e) /\ HistoryOK(n, e, inj, rec)
<1>1. \A d \in m.deliveries : d.job \in Jobs
  BY PartsOf, DeliveryIs
<1>2. \A d \in m.deliveries : Backed(n, d) => d.job \notin js
  BY DEF Stray
<1>3. \A d \in m.deliveries : d.job \notin js =>
        /\ Backed(n, d) <=> Backed(m, d)
        /\ Fresh(n, d, e) <=> Fresh(m, d, e)
        /\ d.run <= n.row[d.job].run
  BY <1>1 DEF Fresh, Backed, HasRow, OnceOK
<1>4. \A y \in n.deliveries : /\ y.run <= n.row[y.job].run
                              /\ Backed(n, y) => Fresh(n, y, e)
  <2> SUFFICES ASSUME NEW y \in n.deliveries
               PROVE  y.run <= n.row[y.job].run /\ (Backed(n, y) => Fresh(n, y, e))
    OBVIOUS
  <2>1. CASE y \in m.deliveries /\ y.job \in js
    BY <1>2, <2>1 DEF Stray
  <2>2. CASE y \in m.deliveries /\ y.job \notin js
    BY <1>3, <2>2 DEF OnceOK
  <2>3. CASE y \notin m.deliveries
    <3>1. Fresh(n, y, e) /\ y.run \in Runs
      BY <2>3
    <3>2. n.row[y.job].run = y.run /\ y.run <= y.run
      BY <3>1 DEF Fresh, Runs
    <3> QED
      BY <3>1, <3>2
  <2> QED
    BY <2>1, <2>2, <2>3
<1>5. \A c, d \in n.deliveries : Backed(n, c) /\ Backed(n, d) /\ c.job = d.job => c = d
  <2> SUFFICES ASSUME NEW c \in n.deliveries, NEW d \in n.deliveries,
                      Backed(n, c), Backed(n, d), c.job = d.job
               PROVE  c = d
    OBVIOUS
  <2>1. CASE c \in m.deliveries /\ d \in m.deliveries
    BY <1>2, <1>3, <2>1 DEF OnceOK
  <2>2. CASE c \notin m.deliveries
    BY <1>2, <2>2
  <2>3. CASE d \notin m.deliveries
    BY <1>2, <2>3
  <2> QED
    BY <2>1, <2>2, <2>3
<1>6. \A k \in Jobs : n.row[k].status \in {"running", "completed"} => n.row[k].born = e
  BY DEF OnceOK
<1>7. \A d \in n.deliveries : Backed(n, d) => inj[<<d.job, d.run>>] = 0
  BY <1>2, <1>3 DEF HistoryOK
<1>8. \A k \in Jobs : HasRow(n, k) /\ <<k, n.row[k].run>> \in rec => k \in n.suppressed
  BY DEF HistoryOK, HasRow
<1>9. \A k \in Jobs, r \in Runs : inj[<<k, r>>] > 0 \/ <<k, r>> \in rec =>
        r <= n.row[k].run /\ (r = n.row[k].run => ~n.row[k].busy)
  <2> TAKE k \in Jobs, r \in Runs
  <2>1. CASE k \in js
    BY <2>1
  <2>2. CASE k \notin js
    <3>1. n.row[k] = m.row[k]
      BY <2>2
    <3> QED
      BY <3>1 DEF HistoryOK
  <2> QED
    BY <2>1, <2>2
<1>10. \A d \in n.deliveries : d.st = "pulled" => d.job \notin n.suppressed
  <2> SUFFICES ASSUME NEW d \in n.deliveries, d.st = "pulled", d.job \in n.suppressed
               PROVE  FALSE
    OBVIOUS
  <2>1. d \in m.deliveries /\ d.job \in Jobs
    BY <1>1
  <2>2. d.job \notin m.suppressed
    BY <2>1 DEF HistoryOK
  <2> QED
    BY <2>1, <2>2
<1> QED
  BY <1>4, <1>5, <1>6, <1>7, <1>8, <1>9, <1>10 DEF OnceOK, HistoryOK

(* The history and a job that is still executing. *)
LEMMA BusyUnseen ==
  ASSUME BInv, OInv, NEW j \in Jobs, mgr.row[j].busy
  PROVE  /\ <<j, mgr.row[j].run>> \notin recovered /\ injected[<<j, mgr.row[j].run>>] = 0
         /\ mgr.row[j].run \in Runs /\ mgr.row[j].status \in {"running", "cancelled"}
         /\ \A d \in mgr.deliveries : d.job = j =>
               d.run <= mgr.row[j].run /\ d.run # mgr.row[j].run
         /\ \A r \in Runs : injected[<<j, r>>] > 0 \/ <<j, r>> \in recovered =>
               r <= mgr.row[j].run /\ r # mgr.row[j].run
<1>1. mgr.row[j].status \in {"running", "cancelled"}
  BY BInvParts, PartsOf DEF RowsOK
<1>2. mgr.row[j].run \in Runs
  BY <1>1, BInvParts, PartsOf, JobManagerAssumption DEF RowsOK, HasRow, Rows, Runs
<1>3. \A d \in mgr.deliveries : d.job = j =>
        d.run <= mgr.row[j].run /\ d.run # mgr.row[j].run
  BY <1>1 DEF OInv, OnceOK, Fresh, Backed, HasRow
<1>4. \A r \in Runs : injected[<<j, r>>] > 0 \/ <<j, r>> \in recovered =>
               r <= mgr.row[j].run /\ r # mgr.row[j].run
  BY DEF OInv, HistoryOK
<1> DEFINE p == <<j, mgr.row[j].run>>
<1>5. p \notin recovered /\ ~(injected[p] > 0) /\ p \in Jobs \X Runs
  BY <1>2, <1>4
<1> HIDE DEF p
<1>6. injected[p] \in Nat
  BY <1>5, BInvParts
<1>7. injected[p] = 0
  BY <1>5, <1>6
<1> QED
  BY <1>1, <1>2, <1>3, <1>4, <1>5, <1>7 DEF p

(* What a new registration of an id finds. *)
LEMMA NoRowUnseen ==
  ASSUME BInv, OInv, NEW j \in Jobs, ~HasRow(mgr, j), mgr.row[j].run < MaxRuns
  PROVE  /\ \A d \in mgr.deliveries : d.job = j =>
               d.run <= mgr.row[j].run + 1 /\ d.run # mgr.row[j].run + 1
         /\ mgr.row[j].run + 1 \in Runs /\ <<j, mgr.row[j].run + 1>> \notin recovered
         /\ \A r \in Runs : injected[<<j, r>>] > 0 \/ <<j, r>> \in recovered =>
               r <= mgr.row[j].run + 1 /\ r # mgr.row[j].run + 1
<1>2. mgr.row[j].run \in Nat /\ mgr.row[j].run + 1 \in Runs
  BY BInvParts, PartsOf, JobManagerAssumption DEF Rows, Runs
<1>1. ASSUME NEW d \in mgr.deliveries, d.job = j
      PROVE  d.run <= mgr.row[j].run + 1 /\ d.run # mgr.row[j].run + 1
  <2>1. d.run \in Runs /\ d.run <= mgr.row[j].run
    BY <1>1, BInvParts, PartsOf, DeliveryIs DEF OInv, OnceOK
  <2> QED
    BY <1>2, <2>1 DEF Runs
<1>3. \A r \in Runs : injected[<<j, r>>] > 0 \/ <<j, r>> \in recovered => r <= mgr.row[j].run
  BY DEF OInv, HistoryOK
<1>4. \A r \in Runs : r <= mgr.row[j].run => r <= mgr.row[j].run + 1 /\ r # mgr.row[j].run + 1
  BY <1>2 DEF Runs
<1> QED
  BY <1>1, <1>2, <1>3, <1>4

LEMMA OStartJob ==
  ASSUME BInv, OInv, NEW j \in Jobs, StartJob(j)
  PROVE  OInv'
<1>1. /\ ~HasRow(mgr, j) /\ mgr.row[j].run < MaxRuns
      /\ mgr' = RegisterJob(mgr, j, epoch)
      /\ UNCHANGED <<session, epoch, hub, fg, injected, recovered>>
  BY DEF StartJob
<1>2. ManagerOK(mgr) /\ epoch \in Epochs /\ OnceOK(mgr, epoch)
      /\ HistoryOK(mgr, epoch, injected, recovered)
  BY BInvParts DEF OInv
<1>3. /\ mgr'.row = [mgr.row EXCEPT ![j] = [status |-> "running", run |-> mgr.row[j].run + 1,
                                            born |-> epoch, busy |-> TRUE, timer |-> "off"]]
      /\ mgr'.suppressed = mgr.suppressed \ {j} /\ mgr'.deliveries = mgr.deliveries
  BY <1>1, <1>2, PartsOf, RegisterIs
<1>4. mgr'.row[j] = [status |-> "running", run |-> mgr.row[j].run + 1,
                     born |-> epoch, busy |-> TRUE, timer |-> "off"]
  BY <1>2, <1>3, PartsOf
<1> DEFINE js == {j}
<1>5. /\ \A d \in mgr.deliveries : d.job \in js => Stray(mgr', d)
      /\ \A k \in js :
            /\ mgr'.row[k].status \in {"running", "completed"} => mgr'.row[k].born = epoch
            /\ HasRow(mgr', k) /\ <<k, mgr'.row[k].run>> \in recovered => k \in mgr'.suppressed
            /\ \A r \in Runs : injected[<<k, r>>] > 0 \/ <<k, r>> \in recovered =>
                  r <= mgr'.row[k].run /\ (r = mgr'.row[k].run => ~mgr'.row[k].busy)
  <2>1. /\ \A d \in mgr.deliveries : d.job = j =>
              d.run <= mgr.row[j].run + 1 /\ d.run # mgr.row[j].run + 1
        /\ <<j, mgr.row[j].run + 1>> \notin recovered
        /\ \A r \in Runs : injected[<<j, r>>] > 0 \/ <<j, r>> \in recovered =>
              r <= mgr.row[j].run + 1 /\ r # mgr.row[j].run + 1
    BY <1>1, NoRowUnseen
  <2>2. mgr'.row[j].run = mgr.row[j].run + 1 /\ mgr'.row[j].born = epoch
    BY <1>4
  <2> QED
    BY <2>1, <2>2 DEF Stray, Backed
<1>6. \A k \in Jobs : k \notin js =>
        mgr'.row[k] = mgr.row[k] /\ (k \in mgr'.suppressed <=> k \in mgr.suppressed)
  BY <1>2, <1>3, PartsOf
<1>7. js \in SUBSET Jobs /\ \A k \in js : k \in mgr'.suppressed => k \in mgr.suppressed
  BY <1>3
<1> HIDE DEF js
<1>8. OnceOK(mgr', epoch) /\ HistoryOK(mgr', epoch, injected, recovered)
  <2>1. \A y \in mgr'.deliveries : y \in mgr.deliveries
    BY <1>3
  <2> QED
    BY <1>2, <1>5, <1>6, <1>7, <2>1, NewRows
<1> QED
  BY <1>1, <1>8 DEF OInv

LEMMA OStartForeground ==
  ASSUME BInv, OInv, NEW j \in Jobs, StartForeground(j)
  PROVE  OInv'
<1> DEFINE x == RegisterJob(mgr, j, epoch)
<1>1. /\ ~HasRow(mgr, j) /\ mgr.row[j].run < MaxRuns
      /\ mgr' = Acknowledge(x, {j}) /\ session = "tools"
      /\ UNCHANGED <<session, epoch, hub, injected, recovered>>
  BY DEF StartForeground
<1>2. ManagerOK(mgr) /\ epoch \in Epochs /\ OnceOK(mgr, epoch)
      /\ HistoryOK(mgr, epoch, injected, recovered)
  BY BInvParts DEF OInv
<1>3. /\ ManagerOK(x)
      /\ x.row = [mgr.row EXCEPT ![j] = [status |-> "running", run |-> mgr.row[j].run + 1,
                                         born |-> epoch, busy |-> TRUE, timer |-> "off"]]
      /\ x.suppressed = mgr.suppressed \ {j} /\ x.deliveries = mgr.deliveries
  BY <1>1, <1>2, PartsOf, RegisterIs, RegisterOK
<1> HIDE DEF x
<1>4. /\ mgr'.row = x.row /\ mgr'.suppressed = x.suppressed \cup {j}
      /\ mgr'.deliveries \subseteq x.deliveries
  BY <1>1, <1>3, PartsOf, AcknowledgeIs
<1>5. mgr'.row[j] = [status |-> "running", run |-> mgr.row[j].run + 1,
                     born |-> epoch, busy |-> TRUE, timer |-> "off"]
  BY <1>2, <1>3, <1>4, PartsOf
<1> DEFINE js == {j}
<1>6. /\ \A d \in mgr.deliveries : d.job \in js => Stray(mgr', d)
      /\ \A k \in js :
            /\ mgr'.row[k].status \in {"running", "completed"} => mgr'.row[k].born = epoch
            /\ HasRow(mgr', k) /\ <<k, mgr'.row[k].run>> \in recovered => k \in mgr'.suppressed
            /\ \A r \in Runs : injected[<<k, r>>] > 0 \/ <<k, r>> \in recovered =>
                  r <= mgr'.row[k].run /\ (r = mgr'.row[k].run => ~mgr'.row[k].busy)
  <2>1. /\ \A d \in mgr.deliveries : d.job = j =>
              d.run <= mgr.row[j].run + 1 /\ d.run # mgr.row[j].run + 1
        /\ <<j, mgr.row[j].run + 1>> \notin recovered
        /\ \A r \in Runs : injected[<<j, r>>] > 0 \/ <<j, r>> \in recovered =>
              r <= mgr.row[j].run + 1 /\ r # mgr.row[j].run + 1
    BY <1>1, NoRowUnseen
  <2>2. mgr'.row[j].run = mgr.row[j].run + 1 /\ mgr'.row[j].born = epoch
    BY <1>5
  <2> QED
    BY <2>1, <2>2 DEF Stray, Backed
<1>7. \A k \in Jobs : k \notin js =>
        mgr'.row[k] = mgr.row[k] /\ (k \in mgr'.suppressed <=> k \in mgr.suppressed)
  BY <1>2, <1>3, <1>4, PartsOf
<1>8. js \in SUBSET Jobs /\ \A d \in mgr.deliveries : d.st # "pulled"
  BY <1>1, NonePulled
<1> HIDE DEF js
<1>9. OnceOK(mgr', epoch) /\ HistoryOK(mgr', epoch, injected, recovered)
  <2>1. \A y \in mgr'.deliveries : y \in mgr.deliveries
    BY <1>3, <1>4
  <2> QED
    BY <1>2, <1>6, <1>7, <1>8, <2>1, NewRows
<1> QED
  BY <1>1, <1>9 DEF OInv

(* A job that ends is a run nobody has been shown, and no delivery is of it. *)
LEMMA EndsUnseen ==
  ASSUME BInv, OInv, NEW j \in Jobs, mgr.row[j].busy, NEW row, row = Done(mgr.row[j])
  PROVE  /\ row.status = (IF mgr.row[j].status = "cancelled" THEN "cancelled" ELSE "completed")
         /\ row.run = mgr.row[j].run /\ row.born = mgr.row[j].born /\ row.timer = "retention"
         /\ row.status = "completed" => row.born = epoch
         /\ <<j, row.run>> \notin recovered /\ injected[<<j, row.run>>] = 0
         /\ row.run \in Runs
         /\ \A d \in mgr.deliveries : d.job = j => d.run <= row.run /\ d.run # row.run
         /\ \A r \in Runs : injected[<<j, r>>] > 0 \/ <<j, r>> \in recovered =>
               r <= row.run /\ (r = row.run => ~row.busy)
<1>1. /\ ManagerOK(mgr) /\ OnceOK(mgr, epoch) /\ HistoryOK(mgr, epoch, injected, recovered)
      /\ injected \in [Jobs \X Runs -> Nat]
  BY BInvParts DEF OInv
<1>2. /\ <<j, mgr.row[j].run>> \notin recovered /\ injected[<<j, mgr.row[j].run>>] = 0
      /\ mgr.row[j].status \in {"running", "cancelled"} /\ mgr.row[j].run \in Runs
      /\ \A d \in mgr.deliveries : d.job = j =>
            d.run <= mgr.row[j].run /\ d.run # mgr.row[j].run
      /\ \A r \in Runs : injected[<<j, r>>] > 0 \/ <<j, r>> \in recovered =>
            r <= mgr.row[j].run /\ r # mgr.row[j].run
  BY BusyUnseen
<1>3. /\ row.timer = "retention" /\ row.run = mgr.row[j].run /\ row.born = mgr.row[j].born
      /\ row.status = (IF mgr.row[j].status = "cancelled" THEN "cancelled" ELSE "completed")
  BY <1>1, PartsOf, DoneTyped
<1>4. row.status = "completed" => row.born = epoch
  BY <1>1, <1>2, <1>3 DEF OnceOK
<1> QED
  BY <1>2, <1>3, <1>4

LEMMA OJobSettles ==
  ASSUME BInv, OInv, NEW j \in Jobs, JobSettles(j)
  PROVE  OInv'
<1> DEFINE q == NewDelivery(mgr, j)
           silent == mgr.row[j].status = "cancelled" \/ Suppressed(mgr, j)
           js == {j}
<1>1. /\ mgr.row[j].busy /\ mgr' = BodySettles(mgr, j)
      /\ \A d \in OfJob(mgr, j) : d.st # "formatting"
      /\ UNCHANGED <<session, epoch, hub, fg, injected, recovered>>
  BY DEF JobSettles
<1>2. ManagerOK(mgr) /\ epoch \in Epochs /\ OnceOK(mgr, epoch)
      /\ HistoryOK(mgr, epoch, injected, recovered)
  BY BInvParts DEF OInv
<1>3. /\ mgr'.row = [mgr.row EXCEPT ![j] = Done(mgr.row[j])]
      /\ mgr'.suppressed = mgr.suppressed
      /\ mgr'.deliveries = IF silent THEN mgr.deliveries ELSE mgr.deliveries \cup {q}
  BY <1>1, <1>2, PartsOf, SettlesIs
<1>4. mgr'.row[j] = Done(mgr.row[j])
  BY <1>2, <1>3, PartsOf
<1>5. /\ mgr'.row[j].status =
            (IF mgr.row[j].status = "cancelled" THEN "cancelled" ELSE "completed")
      /\ mgr'.row[j].run = mgr.row[j].run /\ mgr'.row[j].born = mgr.row[j].born
      /\ mgr'.row[j].timer = "retention"
      /\ mgr'.row[j].status = "completed" => mgr'.row[j].born = epoch
      /\ <<j, mgr'.row[j].run>> \notin recovered /\ injected[<<j, mgr'.row[j].run>>] = 0
      /\ mgr'.row[j].run \in Runs
      /\ \A d \in mgr.deliveries : d.job = j =>
            d.run <= mgr'.row[j].run /\ d.run # mgr'.row[j].run
      /\ \A r \in Runs : injected[<<j, r>>] > 0 \/ <<j, r>> \in recovered =>
            r <= mgr'.row[j].run /\ (r = mgr'.row[j].run => ~mgr'.row[j].busy)
  BY <1>1, <1>4, EndsUnseen
<1>6. \A d \in mgr.deliveries : d.job = j => Stray(mgr', d)
  BY <1>5 DEF Stray, Backed
<1>7. q.job = j /\ q.run = mgr.row[j].run /\ q.born = mgr.row[j].born /\ q.st = "queued"
  BY DEF NewDelivery
<1> HIDE DEF q, js, silent
<1>8. ASSUME NEW y \in mgr'.deliveries, y \notin mgr.deliveries
      PROVE  /\ y.job \in js /\ y.run \in Runs /\ Fresh(mgr', y, epoch)
             /\ y.st = "queued" /\ injected[<<y.job, y.run>>] = 0
             /\ \A c \in mgr'.deliveries : c.job = y.job => c = y \/ c \in mgr.deliveries
  <2>1. y = q /\ ~silent
    BY <1>3, <1>8
  <2>2. mgr'.row[j].status = "completed"
    BY <1>5, <2>1 DEF silent
  <2>3. Fresh(mgr', y, epoch)
    BY <1>5, <1>7, <2>1, <2>2 DEF Fresh, InSession
  <2>4. \A c \in mgr'.deliveries : c = y \/ c \in mgr.deliveries
    BY <1>3, <2>1
  <2> QED
    BY <1>5, <1>7, <2>1, <2>3, <2>4 DEF js
<1>9. \A k \in Jobs : k \notin js =>
        mgr'.row[k] = mgr.row[k] /\ (k \in mgr'.suppressed <=> k \in mgr.suppressed)
  BY <1>2, <1>3, PartsOf DEF js
<1>10. \A k \in js :
        /\ mgr'.row[k].status \in {"running", "completed"} => mgr'.row[k].born = epoch
        /\ HasRow(mgr', k) /\ <<k, mgr'.row[k].run>> \in recovered => k \in mgr'.suppressed
        /\ \A r \in Runs : injected[<<k, r>>] > 0 \/ <<k, r>> \in recovered =>
              r <= mgr'.row[k].run /\ (r = mgr'.row[k].run => ~mgr'.row[k].busy)
  BY <1>5 DEF js
<1>11. /\ js \in SUBSET Jobs /\ \A d \in mgr.deliveries : d.job \in js => Stray(mgr', d)
       /\ \A k \in js : k \in mgr'.suppressed => k \in mgr.suppressed
  BY <1>3, <1>6 DEF js
<1>12. OnceOK(mgr', epoch) /\ HistoryOK(mgr', epoch, injected, recovered)
  BY <1>2, <1>8, <1>9, <1>10, <1>11, NewRows
<1> QED
  BY <1>1, <1>12 DEF OInv

LEMMA OForegroundLetsGo ==
  ASSUME BInv, OInv, NEW j \in Jobs, ForegroundLetsGo(j)
  PROVE  OInv'
<1> DEFINE js == {j}
<1>1. PICK m \in PhotoFinishes(mgr, {j}) : mgr' = ResumeDelivery(m, j)
  BY DEF ForegroundLetsGo
<1>2. /\ j \in fg /\ mgr.row[j].busy
      /\ UNCHANGED <<session, epoch, hub, injected, recovered>>
  BY DEF ForegroundLetsGo
<1>3. /\ ManagerOK(mgr) /\ epoch \in Epochs /\ OnceOK(mgr, epoch)
      /\ HistoryOK(mgr, epoch, injected, recovered) /\ injected \in [Jobs \X Runs -> Nat]
  BY BInvParts DEF OInv
<1>4. /\ js \in SUBSET Jobs /\ m \in PhotoFinishes(mgr, js)
      /\ \A k \in js : Suppressed(mgr, k)
  BY <1>1, <1>2, BInvParts DEF Suppressed
<1> HIDE DEF js
<1>5. PICK late \in SUBSET {k \in js : mgr.row[k].busy} :
         /\ ManagerOK(m) /\ m.suppressed = mgr.suppressed /\ m.watched = mgr.watched
         /\ m.row = RowsDone(mgr, late)
         /\ m.consumed = mgr.consumed /\ m.deliveries = mgr.deliveries
  BY <1>3, <1>4, PhotoFinishOK
<1> DEFINE q == NewDelivery(m, j)
<1>6. /\ mgr'.row = m.row /\ mgr'.suppressed = m.suppressed \ {j}
      /\ Resumed(m, j) => mgr'.deliveries = m.deliveries \cup {q}
      /\ ~Resumed(m, j) => mgr'.deliveries = m.deliveries
  BY <1>1, <1>5, PartsOf, ResumeIs
<1>7. \A k \in Jobs : mgr'.row[k] = IF k \in late THEN Done(mgr.row[k]) ELSE mgr.row[k]
  BY <1>5, <1>6 DEF RowsDone
<1>8. /\ <<j, mgr.row[j].run>> \notin recovered /\ injected[<<j, mgr.row[j].run>>] = 0
      /\ mgr.row[j].status \in {"running", "cancelled"} /\ mgr.row[j].run \in Runs
      /\ \A d \in mgr.deliveries : d.job = j =>
            d.run <= mgr.row[j].run /\ d.run # mgr.row[j].run
      /\ \A r \in Runs : injected[<<j, r>>] > 0 \/ <<j, r>> \in recovered =>
            r <= mgr.row[j].run /\ r # mgr.row[j].run
  BY <1>2, BusyUnseen
<1>9. /\ mgr'.row[j].run = mgr.row[j].run
      /\ mgr'.row[j].status \in {"running", "completed"} => mgr'.row[j].born = epoch
  <2>1. CASE j \in late
    <3>1. mgr'.row[j] = Done(mgr.row[j])
      BY <1>7, <2>1
    <3>2. Done(mgr.row[j]).status # "running"
      BY <1>3, PartsOf, DoneTyped
    <3> QED
      BY <1>2, <3>1, <3>2, EndsUnseen
  <2>2. CASE j \notin late
    <3>1. mgr'.row[j] = mgr.row[j]
      BY <1>7, <2>2
    <3> QED
      BY <1>3, <3>1 DEF OnceOK
  <2> QED
    BY <2>1, <2>2
<1>10. q.job = j /\ q.run = m.row[j].run /\ q.born = m.row[j].born /\ q.st = "queued"
  BY DEF NewDelivery
<1> HIDE DEF q
<1>11. ASSUME NEW y \in mgr'.deliveries, y \notin mgr.deliveries
      PROVE  /\ y.job \in js /\ y.run \in Runs /\ Fresh(mgr', y, epoch)
             /\ y.st = "queued" /\ injected[<<y.job, y.run>>] = 0
             /\ \A c \in mgr'.deliveries : c.job = y.job => c = y \/ c \in mgr.deliveries
  <2>1. Resumed(m, j) /\ y = q /\ mgr'.deliveries = m.deliveries \cup {q}
    BY <1>5, <1>6, <1>11
  <2>2. mgr'.row[j].status = "completed" /\ OfJob(m, j) = {}
    BY <1>6, <2>1 DEF Resumed
  <2>3. Fresh(mgr', y, epoch)
    BY <1>6, <1>10, <2>1, <2>2 DEF Fresh, InSession
  <2>4. \A c \in mgr'.deliveries : c = y \/ c \in mgr.deliveries
    BY <1>5, <2>1
  <2>5. q.run = mgr.row[j].run
    BY <1>6, <1>9, <1>10
  <2> QED
    BY <1>8, <1>10, <2>1, <2>3, <2>4, <2>5 DEF js
<1>12. \A k \in Jobs : k \notin js =>
        mgr'.row[k] = mgr.row[k] /\ (k \in mgr'.suppressed <=> k \in mgr.suppressed)
  BY <1>5, <1>6, <1>7 DEF js
<1>13. \A k \in js :
        /\ mgr'.row[k].status \in {"running", "completed"} => mgr'.row[k].born = epoch
        /\ HasRow(mgr', k) /\ <<k, mgr'.row[k].run>> \in recovered => k \in mgr'.suppressed
        /\ \A r \in Runs : injected[<<k, r>>] > 0 \/ <<k, r>> \in recovered =>
              r <= mgr'.row[k].run /\ (r = mgr'.row[k].run => ~mgr'.row[k].busy)
  BY <1>8, <1>9 DEF js
<1>14. /\ \A d \in mgr.deliveries : d.job \in js => Stray(mgr', d)
       /\ \A k \in js : k \in mgr'.suppressed => k \in mgr.suppressed
  BY <1>5, <1>6, <1>8, <1>9 DEF js, Stray, Backed
<1>15. OnceOK(mgr', epoch) /\ HistoryOK(mgr', epoch, injected, recovered)
  <2>1. ManagerOK(mgr) /\ epoch \in Epochs /\ OnceOK(mgr, epoch)
        /\ HistoryOK(mgr, epoch, injected, recovered) /\ js \in SUBSET Jobs
    BY <1>3, <1>4
  <2> QED
    BY <2>1, <1>11, <1>12, <1>13, <1>14, NewRows
<1> QED
  BY <1>2, <1>15 DEF OInv

LEMMA OHubWaitGetsMessage ==
  ASSUME BInv, OInv, HubWaitGetsMessage
  PROVE  OInv'
<1>1. UNCHANGED <<session, epoch, fg, injected, recovered>>
  BY DEF HubWaitGetsMessage
<1>2. ManagerOK(mgr) /\ epoch \in Epochs /\ OnceOK(mgr, epoch)
      /\ HistoryOK(mgr, epoch, injected, recovered)
  BY BInvParts DEF OInv
<1>3. PICK late \in SUBSET {j \in hub : mgr.row[j].busy} :
         /\ ManagerOK(mgr') /\ mgr'.suppressed = mgr.suppressed /\ mgr'.watched = {}
         /\ mgr'.row = RowsDone(mgr, late)
         /\ mgr'.consumed = mgr.consumed /\ mgr'.deliveries = mgr.deliveries
  BY MessageIs
<1>4. late \in SUBSET Jobs /\ \A k \in late : mgr.row[k].busy
  BY BInvParts
<1>5. \A k \in Jobs : mgr'.row[k] = IF k \in late THEN Done(mgr.row[k]) ELSE mgr.row[k]
  BY <1>3 DEF RowsDone
<1>6. ASSUME NEW k \in late
      PROVE  /\ mgr'.row[k].status \in {"running", "completed"} => mgr'.row[k].born = epoch
             /\ <<k, mgr'.row[k].run>> \notin recovered
             /\ \A d \in mgr.deliveries : d.job = k => Stray(mgr', d)
             /\ \A r \in Runs : injected[<<k, r>>] > 0 \/ <<k, r>> \in recovered =>
                  r <= mgr'.row[k].run /\ (r = mgr'.row[k].run => ~mgr'.row[k].busy)
  <2>1. k \in Jobs /\ mgr.row[k].busy /\ mgr'.row[k] = Done(mgr.row[k])
    BY <1>4, <1>5
  <2>2. Done(mgr.row[k]).status # "running"
    BY <1>2, <2>1, PartsOf, DoneTyped
  <2> QED
    BY <2>1, <2>2, EndsUnseen DEF Stray, Backed
<1>7. \A k \in Jobs : k \notin late =>
        mgr'.row[k] = mgr.row[k] /\ (k \in mgr'.suppressed <=> k \in mgr.suppressed)
  BY <1>3, <1>5
<1>8. OnceOK(mgr', epoch) /\ HistoryOK(mgr', epoch, injected, recovered)
  <2>1. /\ \A y \in mgr'.deliveries : y \in mgr.deliveries
        /\ \A k \in late : k \in mgr'.suppressed => k \in mgr.suppressed
    BY <1>3
  <2>2. \A d \in mgr.deliveries : d.job \in late => Stray(mgr', d)
    BY <1>6
  <2>3. \A k \in late :
          /\ mgr'.row[k].status \in {"running", "completed"} => mgr'.row[k].born = epoch
          /\ HasRow(mgr', k) /\ <<k, mgr'.row[k].run>> \in recovered => k \in mgr'.suppressed
          /\ \A r \in Runs : injected[<<k, r>>] > 0 \/ <<k, r>> \in recovered =>
                r <= mgr'.row[k].run /\ (r = mgr'.row[k].run => ~mgr'.row[k].busy)
    BY Zenon, <1>6
  <2> QED
    BY <1>2, <1>4, <1>7, <2>1, <2>2, <2>3, NewRows
<1> QED
  BY <1>1, <1>8 DEF OInv

(* A delivery that outlasts its row is a stray from then on. *)
LEMMA OEvictionTimerFires ==
  ASSUME BInv, OInv, NEW j \in Jobs, EvictionTimerFires(j)
  PROVE  OInv'
<1> DEFINE js == {j}
<1>1. UNCHANGED <<session, epoch, hub, fg, injected, recovered>>
  BY DEF EvictionTimerFires
<1>2. ManagerOK(mgr) /\ epoch \in Epochs /\ OnceOK(mgr, epoch)
      /\ HistoryOK(mgr, epoch, injected, recovered)
  BY BInvParts DEF OInv
<1>3. /\ mgr'.row = [k \in Jobs |-> IF k = j THEN Gone(mgr.row[k]) ELSE mgr.row[k]]
      /\ mgr'.suppressed = mgr.suppressed \ {j} /\ mgr'.deliveries = mgr.deliveries
  BY EvictionIs
<1>5. /\ mgr'.row[j].status = "none" /\ mgr'.row[j].timer = "off"
      /\ mgr'.row[j].run = mgr.row[j].run /\ mgr'.row[j].busy = mgr.row[j].busy
  <2>1. mgr'.row[j] = Gone(mgr.row[j]) /\ mgr.row[j] \in Rows
    BY <1>2, <1>3, PartsOf
  <2> QED
    BY <2>1, GoneTyped
<1>6. /\ js \in SUBSET Jobs
      /\ \A d \in mgr.deliveries : d.job \in js => Stray(mgr', d)
      /\ \A y \in mgr'.deliveries : y \in mgr.deliveries
      /\ \A k \in js : k \in mgr'.suppressed => k \in mgr.suppressed
  BY <1>2, <1>3, <1>5 DEF Stray, Backed, HasRow, OnceOK
<1>7. \A k \in Jobs : k \notin js =>
        mgr'.row[k] = mgr.row[k] /\ (k \in mgr'.suppressed <=> k \in mgr.suppressed)
  BY <1>3
<1>8. \A k \in js :
        /\ mgr'.row[k].status \in {"running", "completed"} => mgr'.row[k].born = epoch
        /\ HasRow(mgr', k) /\ <<k, mgr'.row[k].run>> \in recovered => k \in mgr'.suppressed
        /\ \A r \in Runs : injected[<<k, r>>] > 0 \/ <<k, r>> \in recovered =>
              r <= mgr'.row[k].run /\ (r = mgr'.row[k].run => ~mgr'.row[k].busy)
  BY <1>2, <1>5 DEF HasRow, HistoryOK
<1> HIDE DEF js
<1>9. OnceOK(mgr', epoch) /\ HistoryOK(mgr', epoch, injected, recovered)
  BY <1>2, <1>6, <1>7, <1>8, NewRows
<1> QED
  BY <1>1, <1>9 DEF OInv

(* What readers that consume results leave behind. *)
LEMMA ReadersFollow ==
  ASSUME NEW m, NEW n, \A j \in Jobs : /\ SameButTimer(m.row[j], n.row[j])
                                       /\ n.row[j].timer = m.row[j].timer \/ OfJob(n, j) = {}
  PROVE  RowsFollow(m, n)
BY DEF SameButTimer, RowsFollow

(* A reader is shown what has settled, and takes the delivery over. *)
LEMMA ShownSettled ==
  ASSUME NEW js \in SUBSET Jobs, Recover(js),
         \A j \in SettledOf(mgr, js) : j \in mgr'.suppressed
  PROVE  \A r \in recovered' : r \in recovered \/
            \E j \in Jobs : r = CurrentRun(j) /\ ~mgr.row[j].busy /\ j \in mgr'.suppressed
<1> SUFFICES ASSUME NEW r \in recovered', r \notin recovered
             PROVE  \E j \in Jobs : r = CurrentRun(j) /\ ~mgr.row[j].busy /\ j \in mgr'.suppressed
  OBVIOUS
<1>1. PICK j \in {k \in js \ mgr.consumed : HasResult(mgr, k)} : r = CurrentRun(j)
  BY DEF Recover
<1>2. j \in SettledOf(mgr, js) /\ ~mgr.row[j].busy
  BY <1>1 DEF SettledOf, HasResult
<1> QED
  BY <1>1, <1>2

LEMMA OHubWait ==
  ASSUME BInv, OInv, NEW js \in SUBSET Jobs, HubWait(js)
  PROVE  OInv'
<1> DEFINE w == mgr.watched \cup js
<1>1. mgr' = [mgr EXCEPT !.watched = w] /\ UNCHANGED <<session, epoch, fg, injected, recovered>>
  BY DEF HubWait
<1>2. ManagerOK(mgr) /\ OnceOK(mgr, epoch) /\ HistoryOK(mgr, epoch, injected, recovered)
  BY BInvParts DEF OInv
<1> HIDE DEF w
<1>3. /\ mgr'.row = mgr.row /\ mgr'.suppressed = mgr.suppressed
      /\ mgr'.deliveries = mgr.deliveries
  BY <1>1, <1>2, PartsOf, WatchIs
<1>4. Moves(mgr, mgr', epoch, Same(mgr)) /\ RowsFollow(mgr, mgr')
  BY <1>2, <1>3, FewerMoves, SameRowsFollow
<1>5. \A d \in mgr'.deliveries : d.st = "pulled" => d.job \notin mgr'.suppressed
  BY <1>2, <1>3 DEF HistoryOK
<1> QED
  BY <1>1, <1>3, <1>4, <1>5, OMoves

LEMMA OForegroundReturns ==
  ASSUME BInv, OInv, NEW j \in Jobs, ForegroundReturns(j)
  PROVE  OInv'
<1>1. /\ j \in fg /\ ~mgr.row[j].busy /\ recovered' = recovered \cup {CurrentRun(j)}
      /\ UNCHANGED <<mgr, session, epoch, hub, injected>>
  BY DEF ForegroundReturns
<1>2. ManagerOK(mgr) /\ OnceOK(mgr, epoch) /\ HistoryOK(mgr, epoch, injected, recovered)
  BY BInvParts DEF OInv
<1>3. Moves(mgr, mgr', epoch, Same(mgr)) /\ RowsFollow(mgr, mgr')
  BY <1>1, <1>2, FewerMoves, SameRowsFollow
<1>4. \A d \in mgr'.deliveries : d.st = "pulled" => d.job \notin mgr'.suppressed
  BY <1>1, <1>2 DEF HistoryOK
<1>5. j \in mgr'.suppressed
  BY <1>1, BInvParts
<1>6. \A r \in recovered' : r \in recovered \/
         \E k \in Jobs : r = CurrentRun(k) /\ ~mgr.row[k].busy /\ k \in mgr'.suppressed
  BY <1>1, <1>5
<1> QED
  BY <1>1, <1>3, <1>4, <1>6, OMoves

LEMMA OHubWaitReturns ==
  ASSUME BInv, OInv, HubWaitReturns
  PROVE  OInv'
<1> DEFINE ks == SettledOf(mgr, hub)
<1>1. hub # {} /\ Recover(hub) /\ UNCHANGED <<session, epoch, fg, injected>>
  BY DEF HubWaitReturns
<1>2. /\ ManagerOK(mgr) /\ OnceOK(mgr, epoch) /\ hub \in SUBSET Jobs
  BY BInvParts DEF OInv
<1>3. /\ ManagerOK(mgr')
      /\ mgr'.suppressed = mgr.suppressed \cup ks /\ mgr'.watched = {}
      /\ mgr'.deliveries = {d \in mgr.deliveries :
            d.st \in InManager => d.job \notin mgr.suppressed \cup ks}
      /\ \A j \in Jobs : /\ SameButTimer(mgr.row[j], mgr'.row[j])
                         /\ mgr'.row[j].timer = mgr.row[j].timer \/ OfJob(mgr', j) = {}
  BY HubWaitReturnsIs
<1>4. RowsFollow(mgr, mgr')
  BY <1>3, ReadersFollow
<1>5. \A r \in recovered' : r \in recovered \/
         \E j \in Jobs : r = CurrentRun(j) /\ ~mgr.row[j].busy /\ j \in mgr'.suppressed
  BY <1>1, <1>2, <1>3, ShownSettled
<1> HIDE DEF ks
<1>6. mgr'.deliveries \subseteq mgr.deliveries
  BY <1>3
<1>7. Moves(mgr, mgr', epoch, Same(mgr))
  BY <1>2, <1>6, FewerMoves
<1>8. \A d \in mgr'.deliveries : d.st # "pulled"
  BY <1>1, <1>6, BInvParts
<1> QED
  BY <1>1, <1>3, <1>4, <1>5, <1>7, <1>8, OMoves

LEMMA OHubJobs ==
  ASSUME BInv, OInv, HubJobs
  PROVE  OInv'
<1> DEFINE ks == SettledOf(mgr, Jobs)
<1>1. /\ session = "tools" /\ mgr' = SnapshotOf(mgr, Jobs) /\ Recover(Jobs)
      /\ UNCHANGED <<session, epoch, hub, fg, injected>>
  BY DEF HubJobs
<1>2. /\ ManagerOK(mgr) /\ OnceOK(mgr, epoch) /\ Jobs \in SUBSET Jobs
  BY BInvParts DEF OInv
<1>3. /\ ManagerOK(mgr')
      /\ mgr'.suppressed = mgr.suppressed \cup ks /\ mgr'.watched = mgr.watched
      /\ mgr'.deliveries = {d \in mgr.deliveries :
            d.st \in InManager => d.job \notin mgr.suppressed \cup ks \cup mgr.watched}
      /\ \A j \in Jobs : /\ SameButTimer(mgr.row[j], mgr'.row[j])
                         /\ mgr'.row[j].timer = mgr.row[j].timer \/ OfJob(mgr', j) = {}
  BY <1>1, <1>2, SnapshotIs
<1>4. RowsFollow(mgr, mgr')
  BY <1>3, ReadersFollow
<1>5. \A r \in recovered' : r \in recovered \/
         \E j \in Jobs : r = CurrentRun(j) /\ ~mgr.row[j].busy /\ j \in mgr'.suppressed
  BY <1>1, <1>2, <1>3, ShownSettled
<1> HIDE DEF ks
<1>6. mgr'.deliveries \subseteq mgr.deliveries
  BY <1>3
<1>7. Moves(mgr, mgr', epoch, Same(mgr))
  BY <1>2, <1>6, FewerMoves
<1>8. \A d \in mgr'.deliveries : d.st # "pulled"
  BY <1>1, <1>6, BInvParts
<1> QED
  BY <1>1, <1>3, <1>4, <1>5, <1>7, <1>8, OMoves

LEMMA OHubCancel ==
  ASSUME BInv, OInv, NEW j \in Jobs, HubCancel(j)
  PROVE  OInv'
<1> DEFINE js == {j}
           x  == CancelJobs(mgr, js)
           ks == SettledOf(x, js)
<1>1. /\ session = "tools" /\ Recover(js) /\ UNCHANGED <<session, epoch, hub, fg, injected>>
  BY DEF HubCancel
<1>2. /\ ManagerOK(mgr) /\ OnceOK(mgr, epoch) /\ js \in SUBSET Jobs
  BY BInvParts DEF OInv
<1>3. /\ ManagerOK(x) /\ x.suppressed = mgr.suppressed /\ x.watched = mgr.watched
      /\ x.deliveries = mgr.deliveries
      /\ ManagerOK(mgr')
      /\ mgr'.suppressed = x.suppressed \cup ks /\ mgr'.watched = x.watched
      /\ mgr'.deliveries = {d \in x.deliveries :
            d.st \in InManager => d.job \notin x.suppressed \cup ks \cup x.watched}
      /\ \A k \in Jobs : /\ SameButTimer(x.row[k], mgr'.row[k])
                         /\ mgr'.row[k].timer = x.row[k].timer \/ OfJob(mgr', k) = {}
  BY HubCancelIs
<1> HIDE DEF js
<1>4. \A k \in Jobs :
        /\ x.row[k].run = mgr.row[k].run /\ x.row[k].born = mgr.row[k].born
        /\ x.row[k].busy = mgr.row[k].busy /\ x.row[k].timer = mgr.row[k].timer
        /\ x.row[k].status = IF k \in js /\ mgr.row[k].status = "running" THEN "cancelled"
                             ELSE mgr.row[k].status
  BY <1>2, CancelKeeps
<1> HIDE DEF x
<1>5. RowsFollow(mgr, mgr')
  <2> SUFFICES ASSUME NEW k \in Jobs
               PROVE  /\ mgr'.row[k].run = mgr.row[k].run /\ mgr'.row[k].born = mgr.row[k].born
                      /\ mgr'.row[k].busy = mgr.row[k].busy
                      /\ \/ mgr'.row[k].status = mgr.row[k].status
                         \/ mgr.row[k].status = "running" /\ mgr'.row[k].status = "cancelled"
    BY DEF RowsFollow
  <2>1. SameButTimer(x.row[k], mgr'.row[k])
    BY <1>3
  <2> QED
    BY <1>4, <2>1 DEF SameButTimer
<1>6. \A k \in SettledOf(mgr, js) : k \in mgr'.suppressed
  BY <1>2, <1>3, <1>4 DEF SettledOf
<1>7. \A r \in recovered' : r \in recovered \/
         \E k \in Jobs : r = CurrentRun(k) /\ ~mgr.row[k].busy /\ k \in mgr'.suppressed
  BY <1>1, <1>2, <1>6, ShownSettled
<1> HIDE DEF ks
<1>8. mgr'.deliveries \subseteq mgr.deliveries /\ mgr.suppressed \subseteq mgr'.suppressed
  BY <1>3
<1>9. Moves(mgr, mgr', epoch, Same(mgr))
  BY <1>2, <1>8, FewerMoves
<1>10. \A d \in mgr'.deliveries : d.st # "pulled"
  BY <1>1, <1>8, BInvParts
<1> QED
  BY <1>1, <1>5, <1>7, <1>8, <1>9, <1>10, OMoves

Pull(m, taken) == [d \in m.deliveries |-> IF d \in taken THEN Taken(d) ELSE d]

LEMMA PullMoves ==
  ASSUME NEW m, ManagerOK(m), NEW e, OnceOK(m, e), NEW taken \in SUBSET m.deliveries,
         \A d \in taken : d.st = "parked", NEW n,
         n.deliveries = (m.deliveries \ taken) \cup {Taken(d) : d \in taken}
  PROVE  Moves(m, n, e, Pull(m, taken))
<1> DEFINE f == Pull(m, taken)
<1>1. \A d \in m.deliveries : f[d] = IF d \in taken THEN Taken(d) ELSE d
  BY DEF Pull
<1>2. n.deliveries \subseteq {f[d] : d \in m.deliveries}
  BY <1>1
<1>3. \A d \in taken : /\ Taken(d).job = d.job /\ Taken(d).run = d.run /\ Taken(d).born = d.born
                       /\ Taken(d).epoch = d.epoch
  BY PartsOf, MovedIs DEF Taken
<1>4. \A d \in m.deliveries : Backed(m, d) /\ d.st \in InSession => d.epoch = e
  BY DEF OnceOK, Fresh
<1> HIDE DEF f
<1>5. ASSUME NEW d \in m.deliveries
      PROVE  /\ f[d].job = d.job /\ f[d].run = d.run /\ f[d].born = d.born
             /\ Backed(m, d) /\ f[d].st \in InSession => f[d].epoch = e
  <2>1. CASE d \in taken
    <3>1. d.st \in InSession
      BY <2>1 DEF InSession
    <3> QED
      BY <1>1, <1>3, <1>4, <2>1, <3>1
  <2>2. CASE d \notin taken
    BY <1>1, <1>4, <2>2
  <2> QED
    BY <2>1, <2>2
<1> QED
  BY <1>2, <1>5 DEF Moves, f

LEMMA OPullAsides ==
  ASSUME BInv, OInv, PullAsides
  PROVE  OInv'
<1> DEFINE stale == {d \in Parked : Stale(d)}
           taken == Parked \ stale
           ds    == (mgr.deliveries \ taken) \cup {Taken(d) : d \in taken}
           x     == [mgr EXCEPT !.deliveries = ds]
<1>1. session = "tools" /\ UNCHANGED <<epoch, hub, fg, injected, recovered>>
  BY DEF PullAsides
<1>2. ManagerOK(mgr) /\ epoch \in Epochs /\ OnceOK(mgr, epoch)
      /\ HistoryOK(mgr, epoch, injected, recovered)
  BY BInvParts DEF OInv
<1>3. /\ ManagerOK(x) /\ x.row = mgr.row /\ x.suppressed = mgr.suppressed
      /\ x.watched = mgr.watched /\ x.consumed = mgr.consumed
      /\ x.deliveries = ds /\ stale \in SUBSET x.deliveries
      /\ ManagerOK(mgr') /\ mgr'.row = x.row
      /\ mgr'.suppressed = x.suppressed /\ mgr'.watched = x.watched
      /\ mgr'.consumed = x.consumed
      /\ mgr'.deliveries = LeftAfterThrow(x, stale)
  BY PullIs
<1>4. /\ taken \in SUBSET mgr.deliveries /\ \A d \in taken : d.st = "parked"
      /\ \A d \in taken : d.job \notin mgr.suppressed
      /\ \A d \in stale : d.st \in {"parked", "pulled"}
  BY ParkedWanted DEF Parked
<1> HIDE DEF x, stale, taken
<1>5. Moves(mgr, x, epoch, Pull(mgr, taken)) /\ RowsFollow(mgr, x)
  BY <1>2, <1>3, <1>4, PullMoves, SameRowsFollow
<1>6. \A d \in x.deliveries : d.st = "pulled" => d.job \notin x.suppressed
  <2> SUFFICES ASSUME NEW d \in ds, d.st = "pulled"
               PROVE  d.job \notin mgr.suppressed
    BY <1>3
  <2>1. \A c \in mgr.deliveries : c.st # "pulled"
    BY <1>1, NonePulled
  <2>2. PICK c \in taken : d = Taken(c)
    BY <2>1
  <2>3. d.job = c.job
    BY <1>2, <1>4, <2>2, PartsOf, MovedIs DEF Taken
  <2> QED
    BY <1>4, <2>3
<1> HIDE DEF ds
<1>7. OnceOK(x, epoch) /\ HistoryOK(x, epoch, injected, recovered)
  <2>1. \A r \in recovered : r \in recovered
    OBVIOUS
  <2>2. mgr.suppressed \subseteq x.suppressed
    BY <1>3
  <2> QED
    BY <1>2, <1>5, <1>6, <2>1, <2>2, HistoryMoves
<1>8. Moves(x, mgr', epoch, Back(x, stale)) /\ RowsFollow(x, mgr')
  BY <1>2, <1>3, <1>4, <1>7, ThrowMoves, SameRowsFollow
<1>9. \A d \in mgr'.deliveries : d.st = "pulled" => d.job \notin mgr'.suppressed
  <2> SUFFICES ASSUME NEW d \in mgr'.deliveries, d.st = "pulled"
               PROVE  d.job \notin x.suppressed
    BY <1>3
  <2>1. x.deliveries \subseteq Deliveries /\ d \in LeftAfterThrow(x, stale)
    BY <1>3, PartsOf
  <2>2. d \in x.deliveries
    BY <1>3, <2>1, LeftIs
  <2> QED
    BY <1>6, <2>2
<1>10. OnceOK(mgr', epoch) /\ HistoryOK(mgr', epoch, injected, recovered)
  <2>1. \A r \in recovered : r \in recovered
    OBVIOUS
  <2>2. x.suppressed \subseteq mgr'.suppressed
    BY <1>3
  <2> QED
    BY <1>2, <1>3, <1>7, <1>8, <1>9, <2>1, <2>2, HistoryMoves
<1> QED
  BY <1>1, <1>10 DEF OInv

LEMMA OTurnAborted ==
  ASSUME BInv, OInv, TurnAborted
  PROVE  OInv'
<1> DEFINE x  == Interrupted
           ks == {j \in hub : HasResult(mgr, j)}
<1>1. UNCHANGED <<epoch, injected>> /\ session \in {"tools", "boundary"}
  BY DEF TurnAborted
<1>2. ManagerOK(mgr) /\ epoch \in Epochs /\ OnceOK(mgr, epoch)
      /\ HistoryOK(mgr, epoch, injected, recovered)
  BY BInvParts DEF OInv
<1>3. /\ ManagerOK(x) /\ x.watched = {} /\ x.suppressed = mgr.suppressed \cup ks
      /\ x.deliveries = {d \in mgr.deliveries : d.st \in InManager => d.job \notin ks}
      /\ \A j \in Jobs :
           /\ x.row[j].run = mgr.row[j].run /\ x.row[j].born = mgr.row[j].born
           /\ x.row[j].busy = mgr.row[j].busy
           /\ x.row[j].status = IF j \in fg /\ mgr.row[j].status = "running" THEN "cancelled"
                                ELSE mgr.row[j].status
           /\ x.row[j].timer \in {mgr.row[j].timer, "short"}
           /\ x.row[j].timer = mgr.row[j].timer \/ OfJob(x, j) = {}
      /\ Pulled # {} => x.deliveries = mgr.deliveries /\ x.suppressed = mgr.suppressed
  BY <1>1, InterruptedIs
<1>4. /\ Pulled \in SUBSET x.deliveries
      /\ ManagerOK(mgr') /\ mgr'.row = x.row /\ mgr'.suppressed = x.suppressed
      /\ mgr'.watched = x.watched
      /\ mgr'.deliveries = LeftAfterThrow(x, Pulled)
  BY TurnAbortedIs
<1>5. \A r \in recovered' : r \in recovered \/
         \E j \in Jobs : r = <<j, mgr.row[j].run>> /\ ~mgr.row[j].busy /\ j \in x.suppressed
  <2> SUFFICES ASSUME NEW r \in recovered', r \notin recovered
               PROVE  \E j \in Jobs : /\ r = <<j, mgr.row[j].run>> /\ ~mgr.row[j].busy
                                      /\ j \in x.suppressed
    OBVIOUS
  <2>1. \E j \in hub \cup fg : HasResult(mgr, j) /\ r = CurrentRun(j)
    BY DEF TurnAborted
  <2>2. PICK j \in hub \cup fg : HasResult(mgr, j) /\ r = CurrentRun(j)
    BY <2>1
  <2>3. j \in x.suppressed /\ j \in Jobs
    BY <1>3, <2>2, BInvParts
  <2> QED
    BY <2>2, <2>3 DEF CurrentRun, HasResult
<1> HIDE DEF x, ks
<1>6. RowsFollow(mgr, x)
  BY <1>3 DEF RowsFollow
<1>7. Moves(mgr, x, epoch, Same(mgr))
  <2>1. x.deliveries \subseteq mgr.deliveries
    BY <1>3
  <2> QED
    BY <1>2, <2>1, FewerMoves
<1>8. \A d \in x.deliveries : d.st = "pulled" => d.job \notin x.suppressed
  BY <1>2, <1>3 DEF HistoryOK, Pulled
<1>9. OnceOK(x, epoch) /\ HistoryOK(x, epoch, injected, recovered')
  <2>1. mgr.suppressed \subseteq x.suppressed
    BY <1>3
  <2> QED
    BY <1>2, <1>5, <1>6, <1>7, <1>8, <2>1, HistoryMoves
<1>10. \A d \in Pulled : d.st \in {"parked", "pulled"}
  BY DEF Pulled
<1>11. Moves(x, mgr', epoch, Back(x, Pulled)) /\ RowsFollow(x, mgr')
  BY <1>3, <1>4, <1>9, <1>10, ThrowMoves, SameRowsFollow
<1>12. \A d \in mgr'.deliveries : d.st = "pulled" => d.job \notin mgr'.suppressed
  <2> SUFFICES ASSUME NEW d \in mgr'.deliveries, d.st = "pulled"
               PROVE  d.job \notin x.suppressed
    BY <1>4
  <2>1. x.deliveries \subseteq Deliveries /\ d \in LeftAfterThrow(x, Pulled)
    BY <1>3, <1>4, PartsOf
  <2>2. d \in x.deliveries
    BY <1>4, <2>1, LeftIs
  <2> QED
    BY <1>8, <2>2
<1>13. OnceOK(mgr', epoch) /\ HistoryOK(mgr', epoch, injected, recovered')
  <2>1. \A r \in recovered' : r \in recovered'
    OBVIOUS
  <2>2. x.suppressed \subseteq mgr'.suppressed
    BY <1>4
  <2> QED
    BY <1>2, <1>3, <1>9, <1>11, <1>12, <2>1, <2>2, HistoryMoves
<1> QED
  BY <1>1, <1>13 DEF OInv

(* Nothing of the old conversation is backed in the new one: the row of a  *)
(* result that was has been evicted.                                       *)
LEMMA ONewConversation ==
  ASSUME BInv, OInv, NewConversation
  PROVE  OInv'
<1> DEFINE x == EvictCompletedJobs(CancelJobs(mgr, Jobs))
<1>1. /\ session = "idle" /\ epoch' = epoch + 1
      /\ UNCHANGED <<session, hub, fg, injected, recovered>>
  BY DEF NewConversation
<1>2. ManagerOK(mgr) /\ epoch \in Epochs /\ OnceOK(mgr, epoch)
      /\ HistoryOK(mgr, epoch, injected, recovered)
  BY BInvParts DEF OInv
<1>3. /\ ManagerOK(x) /\ x.watched = {} /\ x.suppressed = mgr.suppressed \ Completed
      /\ x.deliveries = {d \in mgr.deliveries : d.st \in InManager => d.job \notin Completed}
      /\ \A j \in Jobs :
           /\ x.row[j].run = mgr.row[j].run /\ x.row[j].born = mgr.row[j].born
           /\ x.row[j].busy = mgr.row[j].busy
           /\ x.row[j].status = IF j \in Completed THEN "none"
                                ELSE IF mgr.row[j].status = "running" THEN "cancelled"
                                ELSE mgr.row[j].status
           /\ x.row[j].timer = IF j \in Completed THEN "off" ELSE mgr.row[j].timer
  BY <1>1, ClearedIs
<1>4. /\ Parked \in SUBSET x.deliveries
      /\ ManagerOK(mgr') /\ mgr'.row = x.row /\ mgr'.suppressed = x.suppressed
      /\ mgr'.watched = x.watched
      /\ mgr'.deliveries = LeftAfterThrow(x, Parked)
  BY NewConversationIs
<1> HIDE DEF x
<1>5. \A d \in mgr.deliveries : d.job \in Jobs /\ d \in Deliveries
  BY <1>2, PartsOf, DeliveryIs
<1>6. \A d \in mgr.deliveries : Backed(mgr, d) => d.job \in Completed
  BY <1>2, <1>5 DEF OnceOK, Fresh, Completed
<1>7. \A j \in Jobs :
        /\ mgr'.row[j].run = mgr.row[j].run /\ mgr'.row[j].busy = mgr.row[j].busy
        /\ HasRow(mgr', j) => HasRow(mgr, j) /\ j \notin Completed
        /\ mgr'.row[j].status \notin {"running", "completed"}
  BY <1>3, <1>4 DEF Completed, HasRow
<1>8. ASSUME NEW y \in mgr'.deliveries
      PROVE  /\ y.st # "pulled"
             /\ \E d \in mgr.deliveries : y.job = d.job /\ y.run = d.run
  <2>1. x.deliveries \subseteq Deliveries /\ y \in LeftAfterThrow(x, Parked)
    BY <1>3, <1>4, PartsOf
  <2>2. \A d \in x.deliveries : d \in mgr.deliveries /\ d.st # "pulled"
    BY <1>1, <1>3, NonePulled
  <2> QED
    BY <1>4, <2>1, <2>2, LeftIs
<1>9. ASSUME NEW y \in mgr'.deliveries
      PROVE  y.run <= mgr'.row[y.job].run /\ ~Backed(mgr', y)
  <2>1. PICK d \in mgr.deliveries : y.job = d.job /\ y.run = d.run
    BY <1>8
  <2>2. Backed(mgr', y) => Backed(mgr, d) /\ d.job \notin Completed
    BY <1>5, <1>7, <2>1 DEF Backed
  <2> QED
    BY <1>2, <1>5, <1>6, <1>7, <2>1, <2>2 DEF OnceOK
<1>10. OnceOK(mgr', epoch')
  BY <1>7, <1>9 DEF OnceOK
<1>11. HistoryOK(mgr', epoch', injected, recovered)
  <2>1. \A j \in Jobs : HasRow(mgr', j) /\ <<j, mgr'.row[j].run>> \in recovered
                           => j \in mgr'.suppressed
    BY <1>2, <1>3, <1>4, <1>7 DEF HistoryOK
  <2>2. \A j \in Jobs, r \in Runs : injected[<<j, r>>] > 0 \/ <<j, r>> \in recovered =>
          r <= mgr'.row[j].run /\ (r = mgr'.row[j].run => ~mgr'.row[j].busy)
    BY <1>2, <1>7 DEF HistoryOK
  <2> QED
    BY <1>8, <1>9, <2>1, <2>2 DEF HistoryOK
<1> QED
  BY <1>1, <1>10, <1>11 DEF OInv

LEMMA OInit == Init => OInv
<1> SUFFICES ASSUME Init PROVE OInv
  OBVIOUS
<1>1. /\ mgr = NewManager /\ recovered = {}
      /\ injected = [r \in Jobs \X Runs |-> 0]
  BY DEF Init
<1>2. /\ mgr.deliveries = {} /\ \A j \in Jobs : mgr.row[j].status = "none"
      /\ \A j \in Jobs : mgr.row[j].timer = "off"
  BY <1>1 DEF NewManager
<1>3. \A j \in Jobs, r \in Runs : ~(injected[<<j, r>>] > 0)
  BY <1>1
<1>4. OnceOK(mgr, epoch)
  BY <1>2 DEF OnceOK
<1>5. HistoryOK(mgr, epoch, injected, recovered)
  BY <1>1, <1>2, <1>3 DEF HistoryOK
<1> QED
  BY <1>4, <1>5 DEF OInv

LEMMA OInvStep == BInv /\ OInv /\ [Next]_vars => OInv'
<1> SUFFICES ASSUME BInv, OInv, [Next]_vars
             PROVE  OInv'
  OBVIOUS
<1>1. CASE UNCHANGED vars
  BY <1>1 DEF OInv, vars
<1>2. CASE StartTurn
  BY <1>2 DEF StartTurn, OInv
<1>3. CASE DeliveryLoop
  BY <1>3, ODeliveryLoop
<1>4. CASE IdleFlush
  BY <1>4, OIdleFlush
<1>5. CASE PullAsides
  BY <1>5, OPullAsides
<1>6. CASE CommitAsides
  BY <1>6, OCommitAsides
<1>7. CASE TurnAborted
  BY <1>7, OTurnAborted
<1>8. CASE HubWaitReturns
  BY <1>8, OHubWaitReturns
<1>9. CASE HubWaitGetsMessage
  BY <1>9, OHubWaitGetsMessage
<1>10. CASE HubJobs
  BY <1>10, OHubJobs
<1>11. CASE NewConversation
  BY <1>11, ONewConversation
<1>12. CASE \E js \in SUBSET Jobs : HubWait(js)
  BY <1>12, OHubWait
<1>13. ASSUME NEW j \in Jobs,
              \/ StartJob(j) \/ StartForeground(j) \/ JobSettles(j) \/ ForegroundReturns(j)
              \/ ForegroundLetsGo(j) \/ HubCancel(j) \/ EvictionTimerFires(j)
       PROVE  OInv'
  BY <1>13, OStartJob, OStartForeground, OJobSettles, OForegroundReturns, OForegroundLetsGo,
     OHubCancel, OEvictionTimerFires
<1>14. ASSUME NEW d \in mgr.deliveries, BackoffElapses(d) \/ FormatReturns(d)
       PROVE  OInv'
  BY <1>14, OBackoffElapses, OFormatReturns
<1> QED
  BY <1>1, <1>2, <1>3, <1>4, <1>5, <1>6, <1>7, <1>8, <1>9, <1>10, <1>11, <1>12, <1>13, <1>14
     DEF Next

LEMMA OInvAlways == Spec => []OInv
<1>1. Init => OInv
  BY OInit
<1>2. BInv /\ OInv /\ [Next]_vars => OInv'
  BY OInvStep
<1> QED
  BY <1>1, <1>2, BInvAlways, PTL DEF Spec

(* What a step injects of a run whose row is there was fresh. *)
LEMMA InjectsFresh ==
  ASSUME BInv, OInv, NEW ds \in SUBSET mgr.deliveries, Inject(ds),
         \A d \in ds : d.job \notin mgr.suppressed,
         NEW r \in Jobs \X Runs, RowLasts(r), injected'[r] > injected[r]
  PROVE  /\ injected'[r] = 1 /\ r \notin recovered
         /\ \A d \in mgr.deliveries : <<d.job, d.run>> = r => d.born = epoch
<1> DEFINE k == Cardinality({d \in ds : <<d.job, d.run>> = r})
<1>1. ManagerOK(mgr) /\ OnceOK(mgr, epoch)
  BY BInvParts DEF OInv
<1>2. \A d \in mgr.deliveries : <<d.job, d.run>> = r => Backed(mgr, d)
  BY DEF RowLasts, Backed
<1>3. k \in {0, 1} /\ (k = 0 <=> \A d \in ds : <<d.job, d.run>> # r)
  BY <1>1, <1>2, Counted
<1>4. injected'[r] = injected[r] + k
  BY InjectTyped
<1>5. injected[r] \in Nat
  BY BInvParts
<1> HIDE DEF k
<1>6. k = 1
  BY <1>3, <1>4, <1>5
<1>7. PICK d \in ds : <<d.job, d.run>> = r
  BY <1>3, <1>6
<1>8. /\ d \in mgr.deliveries /\ Backed(mgr, d) /\ Fresh(mgr, d, epoch)
      /\ d.job \notin mgr.suppressed /\ d.job \in Jobs
  BY <1>1, <1>2, <1>7, PartsOf, DeliveryIs DEF OnceOK
<1>9. injected[r] = 0
  BY <1>7, <1>8 DEF OInv, HistoryOK
<1>10. r \notin recovered
  BY <1>7, <1>8 DEF OInv, HistoryOK, Backed
<1>11. \A c \in mgr.deliveries : <<c.job, c.run>> = r => c.born = epoch
  <2> SUFFICES ASSUME NEW c \in mgr.deliveries, <<c.job, c.run>> = r
               PROVE  c.born = epoch
    OBVIOUS
  <2>1. Fresh(mgr, c, epoch) /\ c.job \in Jobs
    BY <1>1, <1>2, PartsOf, DeliveryIs DEF OnceOK
  <2> QED
    BY <1>1, <2>1 DEF Fresh, OnceOK
<1> QED
  BY <1>4, <1>6, <1>9, <1>10, <1>11

LEMMA StepInjects ==
  ASSUME BInv, OInv, [Next]_vars, NEW r \in Jobs \X Runs, RowLasts(r),
         injected'[r] > injected[r]
  PROVE  /\ injected'[r] = 1 /\ r \notin recovered
         /\ \A d \in mgr.deliveries : <<d.job, d.run>> = r => d.born = epoch
<1>1. injected' # injected
  <2>1. injected[r] \in Nat
    BY BInvParts
  <2> QED
    BY <2>1
<1>2. CASE IdleFlush
  <2> DEFINE ds == Parked \ {d \in Parked : Stale(d)}
  <2>1. Inject(ds)
    BY <1>2 DEF IdleFlush
  <2>2. ds \in SUBSET mgr.deliveries /\ \A d \in ds : d.job \notin mgr.suppressed
    BY ParkedWanted DEF Parked
  <2> HIDE DEF ds
  <2> QED
    BY <2>1, <2>2, InjectsFresh
<1>3. CASE CommitAsides
  <2>1. Inject(Pulled)
    BY <1>3 DEF CommitAsides
  <2>2. Pulled \in SUBSET mgr.deliveries /\ \A d \in Pulled : d.job \notin mgr.suppressed
    BY ParkedWanted DEF Pulled
  <2> QED
    BY <2>1, <2>2, InjectsFresh
<1> QED
  BY <1>1, <1>2, <1>3 DEF Next, vars, StartTurn, DeliveryLoop, PullAsides, TurnAborted,
     HubWaitReturns, HubWaitGetsMessage, HubJobs, NewConversation, HubWait, StartJob,
     StartForeground, JobSettles, ForegroundReturns, ForegroundLetsGo, HubCancel,
     EvictionTimerFires, BackoffElapses, FormatReturns

(* However the delivery loop, its retries, the yield queue, the snapshots  *)
(* of the hub, the foreground waits of bash and eval, interrupted turns    *)
(* and new conversations interleave, and however late a delivery is: while *)
(* the row of a run is there (job-manager.ts keeps it for five minutes     *)
(* after the job has settled), its result is injected once and never after *)
(* a reader was given it.  A delivery that outlasts the row may be         *)
(* injected twice, for the manager has forgotten its readers.              *)
THEOREM InjectedOnlyOnce == Spec => OnceWhileRowLasts
<1>1. ASSUME BInv, OInv, [Next]_vars
      PROVE  [\A r \in Jobs \X Runs :
                RowLasts(r) /\ injected'[r] > injected[r]
                   => injected'[r] = 1 /\ r \notin recovered]_vars
  BY <1>1, StepInjects
<1>2. Spec => [][Next]_vars
  BY DEF Spec
<1>3. Spec => []OInv
  BY OInvAlways
<1> QED
  BY <1>1, <1>2, <1>3, BInvAlways, PTL DEF OnceWhileRowLasts

(* While the row of a run is there, its result only ever enters the        *)
(* conversation whose turn started the job: a new conversation under the   *)
(* same owner id (#cancelOwnAsyncJobs) evicts the rows of what has settled *)
(* and cancels the rest.                                                   *)
THEOREM InjectedAtHome == Spec => HomeWhileRowLasts
<1>1. ASSUME BInv, OInv, [Next]_vars
      PROVE  [\A d \in mgr.deliveries :
                RowLasts(<<d.job, d.run>>)
                   => (injected'[<<d.job, d.run>>] > injected[<<d.job, d.run>>]
                          => d.born = epoch)]_vars
  <2> SUFFICES ASSUME NEW d \in mgr.deliveries, RowLasts(<<d.job, d.run>>),
                      injected'[<<d.job, d.run>>] > injected[<<d.job, d.run>>]
               PROVE  d.born = epoch
    OBVIOUS
  <2>1. <<d.job, d.run>> \in Jobs \X Runs
    BY <1>1, BInvParts, PartsOf, DeliveryIs
  <2> QED
    BY <1>1, <2>1, StepInjects
<1>2. Spec => [][Next]_vars
  BY DEF Spec
<1>3. Spec => []OInv
  BY OInvAlways
<1> QED
  BY <1>1, <1>2, <1>3, BInvAlways, PTL DEF HomeWhileRowLasts
=============================================================================
