-------------------------- MODULE SemaphoreProofs --------------------------
(***************************************************************************)
(* What the operations of Semaphore do, for every semaphore, limit and     *)
(* set of callers: they keep its type and its line, and they admit the     *)
(* oldest waiters.  The proofs about its users build on these lemmas.      *)
(***************************************************************************)
EXTENDS Semaphore, SequenceTheorems, FiniteSetTheorems, TLAPS

(* No waiter beside a free permit. *)
Tight(s) == s.queue # <<>> => ~HasRoom(s)

(* Whoever is admitted in t and not yet in s is admitted under the ceiling. *)
Under(s, t) == t.admitted \subseteq s.admitted \/ t.max = 0 \/ t.current <= t.max

(* A configured value becomes a natural number (parallel.ts:135-138). *)
LEMMA NormalizeIsNat ==
    ASSUME NEW l \in Int
    PROVE  NormalizeConcurrencyLimit(l) \in Nat
  BY DEF NormalizeConcurrencyLimit

(* A fresh semaphore is a semaphore, and nobody waits for it. *)
LEMMA NewSemaphoreType ==
    ASSUME NEW C, NEW l \in Int
    PROVE  NewSemaphore(l) \in SemaphoresOf(C) /\ Tight(NewSemaphore(l))
  BY NormalizeIsNat, EmptySeq DEF NewSemaphore, SemaphoresOf, Tight

(* Admitting the n oldest waiters takes them off the front of the queue. *)
LEMMA AdmitFirstType ==
    ASSUME NEW C, NEW s \in SemaphoresOf(C), NEW n \in 0..Len(s.queue)
    PROVE  /\ AdmitFirst(s, n) \in SemaphoresOf(C)
           /\ AdmitFirst(s, n).max = s.max
           /\ AdmitFirst(s, n).current = s.current + n
           /\ Len(AdmitFirst(s, n).queue) = Len(s.queue) - n
           /\ n = 0 => AdmitFirst(s, n).admitted = s.admitted
<1> DEFINE A == {s.queue[i] : i \in 1..n}
           Q == SubSeq(s.queue, n + 1, Len(s.queue))
<1>1. /\ s.queue \in Seq(C) /\ Len(s.queue) \in Nat /\ s.current \in Nat
      /\ \A i \in 1..Len(s.queue) : s.queue[i] \in C
  BY LenProperties, ElementOfSeq DEF SemaphoresOf
<1>2. Q \in Seq(C) /\ Len(Q) = Len(s.queue) - n
  BY <1>1, SubSeqProperties
<1>3. A \subseteq C /\ (n = 0 => A = {})
  BY <1>1
<1>4. AdmitFirst(s, n) = [s EXCEPT !.current = @ + n, !.queue = Q, !.admitted = @ \cup A]
  BY DEF AdmitFirst
<1> HIDE DEF A, Q
<1>5. AdmitFirst(s, n) = [max |-> s.max, current |-> s.current + n,
                          queue |-> Q, admitted |-> s.admitted \cup A]
  BY <1>4 DEF SemaphoresOf
<1>6. s.max \in Nat /\ s.admitted \subseteq C /\ s.current + n \in Nat
  BY <1>1 DEF SemaphoresOf
<1>7. AdmitFirst(s, n) \in SemaphoresOf(C)
  BY <1>2, <1>3, <1>5, <1>6 DEF SemaphoresOf
<1> QED
  BY <1>2, <1>3, <1>5, <1>7

(* resize() admits no more waiters than there are and than fit. *)
LEMMA FittingBounds ==
    ASSUME NEW C, NEW s \in SemaphoresOf(C)
    PROVE  /\ Fitting(s) \in 0..Len(s.queue)
           /\ Fitting(s) = Len(s.queue) \/ s.current + Fitting(s) >= s.max
           /\ Fitting(s) = 0 \/ s.max = 0 \/ s.current + Fitting(s) <= s.max
           /\ s.max = 0 => Fitting(s) = Len(s.queue)
<1>1. Len(s.queue) \in Nat /\ s.max \in Nat /\ s.current \in Nat
  BY LenProperties DEF SemaphoresOf
<1> QED
  BY <1>1 DEF Fitting

(* resize() leaves no waiter beside a free permit, whatever it found, and  *)
(* admits under the new ceiling (parallel.ts:196-213).                     *)
LEMMA ResizeFacts ==
    ASSUME NEW C, NEW s \in SemaphoresOf(C), NEW l \in Int
    PROVE  /\ Resize(s, l) \in SemaphoresOf(C)
           /\ Tight(Resize(s, l))
           /\ Under(s, Resize(s, l))
<1> DEFINE r == [s EXCEPT !.max = NormalizeConcurrencyLimit(l)]
           t == AdmitFirst(r, Fitting(r))
<1>1. /\ r \in SemaphoresOf(C) /\ r.admitted = s.admitted
      /\ r.max \in Nat /\ r.current \in Nat
  BY NormalizeIsNat DEF SemaphoresOf
<1>2. /\ Fitting(r) \in 0..Len(r.queue)
      /\ Fitting(r) = Len(r.queue) \/ r.current + Fitting(r) >= r.max
      /\ Fitting(r) = 0 \/ r.max = 0 \/ r.current + Fitting(r) <= r.max
      /\ r.max = 0 => Fitting(r) = Len(r.queue)
  BY <1>1, FittingBounds
<1>3. /\ t \in SemaphoresOf(C)
      /\ t.max = r.max /\ t.current = r.current + Fitting(r)
      /\ Len(t.queue) = Len(r.queue) - Fitting(r)
      /\ Fitting(r) = 0 => t.admitted = r.admitted
  BY <1>1, <1>2, AdmitFirstType
<1>4. Tight(t)
  <2>1. CASE Fitting(r) = Len(r.queue)
    <3>1. Len(t.queue) = 0
      BY <1>2, <1>3, <2>1
    <3> QED
      BY <1>3, <3>1, EmptySeq DEF Tight, SemaphoresOf
  <2>2. CASE Fitting(r) # Len(r.queue)
    BY <1>1, <1>2, <1>3, <2>2 DEF Tight, HasRoom
  <2> QED
    BY <2>1, <2>2
<1>5. Under(s, t)
  BY <1>1, <1>2, <1>3 DEF Under
<1>6. Resize(s, l) = t
  BY DEF Resize
<1> QED
  BY <1>3, <1>4, <1>5, <1>6

(* acquire() takes a free permit or joins the queue (parallel.ts:157-182). *)
LEMMA AcquireFacts ==
    ASSUME NEW C, NEW s \in SemaphoresOf(C), NEW c \in C, Tight(s)
    PROVE  /\ Acquire(s, c) \in SemaphoresOf(C)
           /\ Tight(Acquire(s, c))
           /\ \A u : Under(u, s) => Under(u, Acquire(s, c))
<1>1. s.max \in Nat /\ s.current \in Nat /\ s.queue \in Seq(C)
  BY DEF SemaphoresOf
<1>2. CASE HasRoom(s)
  <2>1. s.queue = <<>>
    BY <1>2 DEF Tight
  <2>2. Acquire(s, c) = [max |-> s.max, current |-> s.current + 1,
                         queue |-> s.queue, admitted |-> s.admitted \cup {c}]
    BY <1>2 DEF Acquire, SemaphoresOf
  <2> QED
    BY <1>1, <1>2, <2>1, <2>2 DEF SemaphoresOf, Tight, Under, HasRoom
<1>3. CASE ~HasRoom(s)
  <2>1. Acquire(s, c) = [max |-> s.max, current |-> s.current,
                         queue |-> Append(s.queue, c), admitted |-> s.admitted]
    BY <1>3 DEF Acquire, SemaphoresOf
  <2>2. Append(s.queue, c) \in Seq(C)
    BY <1>1, AppendProperties
  <2> QED
    BY <1>1, <1>3, <2>1, <2>2 DEF SemaphoresOf, Tight, Under, HasRoom
<1> QED
  BY <1>2, <1>3

(* An abandoned waiter leaves the queue and nothing else (parallel.ts:169-173). *)
LEMMA AbandonFacts ==
    ASSUME NEW C, NEW s \in SemaphoresOf(C), NEW c \in Pending(s), Tight(s)
    PROVE  /\ Abandon(s, c) \in SemaphoresOf(C)
           /\ Tight(Abandon(s, c))
           /\ Under(s, Abandon(s, c))
<1> DEFINE i == CHOOSE j \in 1..Len(s.queue) : s.queue[j] = c
           q == SubSeq(s.queue, 1, i - 1) \o SubSeq(s.queue, i + 1, Len(s.queue))
<1>1. s.queue \in Seq(C) /\ Len(s.queue) \in Nat
  BY LenProperties DEF SemaphoresOf
<1>2. i \in 1..Len(s.queue) /\ s.queue[i] = c
  BY DEF Pending
<1>3. \A j \in 1..Len(s.queue) : s.queue[j] \in C
  BY <1>1, ElementOfSeq
<1>4. SubSeq(s.queue, 1, i - 1) \in Seq(C) /\ SubSeq(s.queue, i + 1, Len(s.queue)) \in Seq(C)
  <2> HIDE DEF i
  <2> QED
    BY <1>1, <1>2, <1>3, SubSeqProperties
<1>5. q \in Seq(C)
  BY <1>4, ConcatProperties
<1>6. s.queue # <<>>
  BY <1>1, <1>2, EmptySeq
<1>7. Abandon(s, c) = [s EXCEPT !.queue = q]
  BY DEF Abandon
<1> HIDE DEF q
<1> QED
  BY <1>5, <1>6, <1>7 DEF SemaphoresOf, Tight, Under, HasRoom

(* release() returns a permit and passes it on under the ceiling only      *)
(* (parallel.ts:184-194).                                                  *)
LEMMA ReleaseFacts ==
    ASSUME NEW C, NEW s \in SemaphoresOf(C), Tight(s)
    PROVE  /\ Release(s) \in SemaphoresOf(C)
           /\ Tight(Release(s))
           /\ Under(s, Release(s))
           /\ Release(s).max = s.max
           /\ Release(s).current <= s.current
<1> DEFINE r == [s EXCEPT !.current = IF @ > 0 THEN @ - 1 ELSE @]
<1>1. s.max \in Nat /\ s.current \in Nat /\ s.queue \in Seq(C)
  BY DEF SemaphoresOf
<1>2. /\ r \in SemaphoresOf(C) /\ r.max = s.max /\ r.queue = s.queue
      /\ r.admitted = s.admitted
      /\ r.current = IF s.current > 0 THEN s.current - 1 ELSE s.current
  BY <1>1 DEF SemaphoresOf
<1> HIDE DEF r
<1>3. CASE HasRoom(r) /\ r.queue # <<>>
  <2>1. Release(s) = AdmitFirst(r, 1)
    BY <1>3 DEF Release, r
  <2>2. s.max > 0 /\ s.current >= s.max
    BY <1>1, <1>2, <1>3 DEF Tight, HasRoom
  <2>3. 1 \in 0..Len(r.queue)
    BY <1>1, <1>2, <1>3, EmptySeq
  <2>4. /\ AdmitFirst(r, 1) \in SemaphoresOf(C)
        /\ AdmitFirst(r, 1).max = r.max
        /\ AdmitFirst(r, 1).current = r.current + 1
    BY <1>2, <2>3, AdmitFirstType
  <2>5. s.current - 1 < s.max /\ s.current = s.max /\ AdmitFirst(r, 1).current = s.current
    BY <1>1, <1>2, <1>3, <2>2, <2>4 DEF HasRoom
  <2> QED
    BY <1>1, <1>2, <2>1, <2>2, <2>4, <2>5 DEF Tight, Under, HasRoom
<1>4. CASE ~(HasRoom(r) /\ r.queue # <<>>)
  <2>1. Release(s) = r
    BY <1>4 DEF Release, r
  <2> QED
    BY <1>1, <1>2, <1>4, <2>1 DEF Tight, Under, HasRoom
<1> QED
  BY <1>3, <1>4

(* The continuation of an admitted caller changes no counter. *)
LEMMA ResumeFacts ==
    ASSUME NEW C, NEW s \in SemaphoresOf(C), NEW c
    PROVE  /\ Resume(s, c) \in SemaphoresOf(C)
           /\ Tight(s) => Tight(Resume(s, c))
           /\ Resume(s, c).admitted \subseteq s.admitted
  BY DEF Resume, SemaphoresOf, Tight, HasRoom

(* getSpawnSemaphore().release(): still nobody admitted over the ceiling.  *)
LEMMA ResizeThenRelease ==
    ASSUME NEW C, NEW s \in SemaphoresOf(C), NEW l \in Int
    PROVE  /\ Release(Resize(s, l)) \in SemaphoresOf(C)
           /\ Tight(Release(Resize(s, l)))
           /\ Under(s, Release(Resize(s, l)))
<1> DEFINE u == Resize(s, l)
           v == Release(u)
<1>1. u \in SemaphoresOf(C) /\ Tight(u) /\ Under(s, u)
  BY ResizeFacts
<1> HIDE DEF u
<1>2. /\ v \in SemaphoresOf(C) /\ Tight(v) /\ Under(u, v)
      /\ v.max = u.max /\ v.current <= u.current
  BY <1>1, ReleaseFacts
<1> HIDE DEF v
<1>3. u.max \in Nat /\ u.current \in Nat /\ v.current \in Nat
  BY <1>1, <1>2 DEF SemaphoresOf
<1>4. Under(s, v)
  BY <1>1, <1>2, <1>3 DEF Under
<1> QED
  BY <1>1, <1>2, <1>4 DEF u, v
-----------------------------------------------------------------------------
(***************************************************************************)
(* The accounting of permits.  W holds the callers that are suspended in   *)
(* acquire(), R those that went on with a permit, and k counts the permits *)
(* whose owner has gone but which release() has not returned yet.          *)
(***************************************************************************)

Distinct(q) == \A a, b \in 1..Len(q) : q[a] = q[b] => a = b

Counted(s, C, W, R, k) ==
    /\ s \in SemaphoresOf(C)
    /\ Distinct(s.queue)
    /\ IsFiniteSet(W) /\ IsFiniteSet(R) /\ W \cap R = {}
    /\ s.admitted \subseteq W
    /\ Pending(s) = W \ s.admitted
    /\ s.current = Cardinality(s.admitted \cup R) + k

(* The n oldest waiters are n callers. *)
LEMMA OldestWaiters ==
    ASSUME NEW q, NEW n \in Nat, \A a, b \in 1..n : q[a] = q[b] => a = b,
           NEW A, \A x : x \in A <=> \E i \in 1..n : x = q[i]
    PROVE  IsFiniteSet(A) /\ Cardinality(A) = n
<1> DEFINE f == [i \in 1..n |-> q[i]]
<1>1. f \in Surjection(1..n, A)
  BY DEF Surjection
<1>2. f \in Injection(1..n, A)
  BY DEF Injection, IsInjective
<1>3. IsFiniteSet(1..n) /\ Cardinality(1..n) = n
  BY FS_Interval
<1> HIDE DEF f
<1> QED
  BY <1>1, <1>2, <1>3, FS_Surjection

(* Admitting waiters hands each of them exactly one permit. *)
LEMMA AdmitFirstCounted ==
    ASSUME NEW C, NEW W, NEW R, NEW k \in Nat, NEW s, Counted(s, C, W, R, k),
           NEW n \in 0..Len(s.queue)
    PROVE  /\ Counted(AdmitFirst(s, n), C, W, R, k)
           /\ Pending(AdmitFirst(s, n)) \subseteq Pending(s)
<1> DEFINE A == {s.queue[i] : i \in 1..n}
           Q == SubSeq(s.queue, n + 1, Len(s.queue))
           t == AdmitFirst(s, n)
<1>1. /\ s \in SemaphoresOf(C) /\ s.queue \in Seq(C) /\ Len(s.queue) \in Nat
      /\ n \in Nat /\ n <= Len(s.queue)
      /\ \A i \in 1..Len(s.queue) : s.queue[i] \in C
  BY LenProperties, ElementOfSeq DEF SemaphoresOf, Counted
<1>2. /\ Len(Q) = Len(s.queue) - n
      /\ \A i \in 1..Len(s.queue) - n : Q[i] = s.queue[n + i]
  BY <1>1, SubSeqProperties
<1>3. t.queue = Q /\ t.admitted = s.admitted \cup A /\ t.current = s.current + n
  BY <1>1 DEF AdmitFirst, SemaphoresOf
<1>4. t \in SemaphoresOf(C)
  BY <1>1, AdmitFirstType
<1>5. \A a, b \in 1..Len(s.queue) : s.queue[a] = s.queue[b] => a = b
  BY DEF Counted, Distinct
<1>6. IsFiniteSet(A) /\ Cardinality(A) = n
  <2>1. \A a, b \in 1..n : s.queue[a] = s.queue[b] => a = b
    BY <1>1, <1>5
  <2>2. n \in Nat
    BY <1>1
  <2>3. \A x : x \in A <=> \E i \in 1..n : x = s.queue[i]
    OBVIOUS
  <2> HIDE DEF A, Q, t
  <2> QED
    BY <2>1, <2>2, <2>3, OldestWaiters
<1>7. A \subseteq Pending(s)
  BY <1>1 DEF Pending
<1> HIDE DEF Q, t
<1>8. Distinct(t.queue)
  <2> SUFFICES ASSUME NEW a \in 1..Len(Q), NEW b \in 1..Len(Q), Q[a] = Q[b]
               PROVE  a = b
    BY <1>3 DEF Distinct
  <2>1. n + a \in 1..Len(s.queue) /\ n + b \in 1..Len(s.queue)
    BY <1>1, <1>2
  <2>2. s.queue[n + a] = s.queue[n + b]
    BY <1>2
  <2> QED
    BY <1>1, <1>2, <1>5, <2>1, <2>2
<1>9. Pending(t) = Pending(s) \ A
  <2>1. ASSUME NEW x \in Pending(t)
        PROVE  x \in Pending(s) \ A
    <3>1. PICK i \in 1..Len(Q) : x = Q[i]
      BY <1>3, <2>1 DEF Pending
    <3>2. n + i \in 1..Len(s.queue) /\ x = s.queue[n + i] /\ n + i \notin 1..n
      BY <1>1, <1>2, <3>1
    <3>3. x \in Pending(s)
      BY <3>2 DEF Pending
    <3>4. x \notin A
      BY <1>1, <1>5, <3>2
    <3> QED
      BY <3>3, <3>4
  <2>2. ASSUME NEW x \in Pending(s) \ A
        PROVE  x \in Pending(t)
    <3>1. PICK j \in 1..Len(s.queue) : x = s.queue[j]
      BY <2>2 DEF Pending
    <3>2. j > n /\ j - n \in 1..Len(Q)
      BY <1>1, <1>2, <2>2, <3>1
    <3>3. x = Q[j - n]
      BY <1>1, <1>2, <3>1, <3>2
    <3> QED
      BY <1>3, <3>2, <3>3 DEF Pending
  <2> QED
    BY <2>1, <2>2
<1> HIDE DEF A
<1>10. /\ IsFiniteSet(W) /\ IsFiniteSet(R) /\ W \cap R = {}
       /\ s.admitted \subseteq W /\ Pending(s) = W \ s.admitted
       /\ s.current = Cardinality(s.admitted \cup R) + k
  BY DEF Counted
<1>11. Cardinality(t.admitted \cup R) = Cardinality(s.admitted \cup R) + n
  <2> DEFINE H == s.admitted \cup R
  <2>1. IsFiniteSet(s.admitted)
    BY <1>10, FS_Subset
  <2>2. IsFiniteSet(H)
    BY <1>10, <2>1, FS_Union
  <2>3. H \cap A = {}
    BY <1>7, <1>10
  <2>4. t.admitted \cup R = H \cup A
    BY <1>3
  <2>5. Cardinality(H) \in Nat
    BY <2>2, FS_CardinalityType
  <2> HIDE DEF H
  <2>6. Cardinality(H \cup A) = Cardinality(H) + Cardinality(A) - Cardinality(H \cap A)
    BY <1>6, <2>2, FS_Union
  <2>7. Cardinality(H \cap A) = 0
    BY <2>3, FS_EmptySet
  <2>8. Cardinality(H \cup A) = Cardinality(H) + n
    BY <1>1, <1>6, <2>5, <2>6, <2>7
  <2> QED
    BY <2>4, <2>8 DEF H
<1>12. Cardinality(s.admitted \cup R) \in Nat
  <2>1. IsFiniteSet(s.admitted)
    BY <1>10, FS_Subset
  <2>2. IsFiniteSet(s.admitted \cup R)
    BY <1>10, <2>1, FS_Union
  <2> QED
    BY <2>2, FS_CardinalityType
<1>13. t.current = Cardinality(t.admitted \cup R) + k
  BY <1>1, <1>3, <1>10, <1>11, <1>12
<1>14. t.admitted \subseteq W /\ Pending(t) = W \ t.admitted
  BY <1>3, <1>7, <1>9, <1>10
<1>15. Counted(t, C, W, R, k)
  BY <1>4, <1>8, <1>10, <1>13, <1>14 DEF Counted
<1> QED
  BY <1>9, <1>15 DEF t

(* resize() keeps the accounting, whatever the new ceiling. *)
LEMMA ResizeCounted ==
    ASSUME NEW C, NEW W, NEW R, NEW k \in Nat, NEW s, Counted(s, C, W, R, k),
           NEW l \in Int
    PROVE  /\ Counted(Resize(s, l), C, W, R, k)
           /\ Pending(Resize(s, l)) \subseteq Pending(s)
<1> DEFINE m == NormalizeConcurrencyLimit(l)
           r == [s EXCEPT !.max = m]
<1>1. m \in Nat
  BY NormalizeIsNat
<1> HIDE DEF m
<1>2. /\ r \in SemaphoresOf(C) /\ r.queue = s.queue /\ r.admitted = s.admitted
      /\ r.current = s.current
  BY <1>1 DEF SemaphoresOf, Counted
<1> HIDE DEF r
<1>3. Pending(r) = Pending(s) /\ Counted(r, C, W, R, k)
  BY <1>2 DEF Counted, Pending
<1>4. Fitting(r) \in 0..Len(r.queue)
  BY <1>2, FittingBounds
<1>5. Resize(s, l) = AdmitFirst(r, Fitting(r))
  BY DEF Resize, r, m
<1> QED
  BY <1>3, <1>4, <1>5, AdmitFirstCounted

(* acquire() either takes the permit it counts or queues the caller once. *)
LEMMA AcquireCounted ==
    ASSUME NEW C, NEW W, NEW R, NEW k \in Nat, NEW s, Counted(s, C, W, R, k),
           NEW c \in C, c \notin W, c \notin R
    PROVE  /\ Counted(Acquire(s, c), C, W \cup {c}, R, k)
           /\ Pending(Acquire(s, c)) \subseteq Pending(s) \cup {c}
<1>1. /\ s.max \in Nat /\ s.current \in Nat /\ s.queue \in Seq(C)
      /\ s.admitted \subseteq C
  BY DEF SemaphoresOf, Counted
<1>2. /\ Distinct(s.queue)
      /\ IsFiniteSet(W) /\ IsFiniteSet(R) /\ W \cap R = {}
      /\ s.admitted \subseteq W
      /\ Pending(s) = W \ s.admitted
      /\ s.current = Cardinality(s.admitted \cup R) + k
  BY DEF Counted
<1>3. IsFiniteSet(W \cup {c}) /\ (W \cup {c}) \cap R = {}
  BY <1>2, FS_AddElement
<1>4. CASE HasRoom(s)
  <2> DEFINE t == [max |-> s.max, current |-> s.current + 1,
                   queue |-> s.queue, admitted |-> s.admitted \cup {c}]
             H == s.admitted \cup R
  <2>1. Acquire(s, c) = t
    BY <1>4 DEF Acquire, SemaphoresOf, Counted
  <2>2. IsFiniteSet(s.admitted)
    BY <1>2, FS_Subset
  <2>3. IsFiniteSet(H) /\ c \notin H
    BY <1>2, <2>2, FS_Union
  <2>4. Cardinality(H) \in Nat /\ Cardinality(H \cup {c}) = Cardinality(H) + 1
    <3> HIDE DEF H
    <3> QED
      BY <2>3, FS_AddElement, FS_CardinalityType
  <2>5. t.admitted \cup R = H \cup {c}
    OBVIOUS
  <2>6. t.current = Cardinality(t.admitted \cup R) + k
    <3>1. t.current = Cardinality(H) + k + 1
      BY <1>2
    <3> HIDE DEF t, H
    <3> QED
      BY <2>4, <2>5, <3>1
  <2>7. Pending(t) = Pending(s)
    BY DEF Pending
  <2>8. t \in SemaphoresOf(C)
    BY <1>1 DEF SemaphoresOf
  <2>9. Counted(t, C, W \cup {c}, R, k)
    BY <1>2, <1>3, <2>6, <2>7, <2>8 DEF Counted
  <2> QED
    BY <2>1, <2>7, <2>9
<1>5. CASE ~HasRoom(s)
  <2> DEFINE q == Append(s.queue, c)
             t == [max |-> s.max, current |-> s.current,
                   queue |-> q, admitted |-> s.admitted]
  <2>1. Acquire(s, c) = t
    BY <1>5 DEF Acquire, SemaphoresOf, Counted
  <2>2. /\ Len(s.queue) \in Nat
        /\ q \in Seq(C) /\ Len(q) = Len(s.queue) + 1
        /\ \A i \in 1..Len(s.queue) : q[i] = s.queue[i]
        /\ q[Len(s.queue) + 1] = c
    BY <1>1, LenProperties, AppendProperties
  <2>3. t \in SemaphoresOf(C)
    BY <1>1, <2>2 DEF SemaphoresOf
  <2>4. \A i \in 1..Len(s.queue) : s.queue[i] # c
    BY <1>2 DEF Pending
  <2> HIDE DEF q
  <2>5. \A i \in 1..Len(q) : i \in 1..Len(s.queue) \/ i = Len(s.queue) + 1
    BY <2>2
  <2>6. Distinct(q)
    BY <1>2, <2>2, <2>4, <2>5 DEF Distinct
  <2>7. Pending(t) = Pending(s) \cup {c}
    <3>1. Pending(t) \subseteq Pending(s) \cup {c}
      BY <2>2, <2>5 DEF Pending
    <3>2. Pending(s) \subseteq Pending(t)
      BY <2>2 DEF Pending
    <3>3. c \in Pending(t)
      BY <2>2 DEF Pending
    <3> QED
      BY <3>1, <3>2, <3>3
  <2>8. Counted(t, C, W \cup {c}, R, k)
    BY <1>2, <1>3, <2>3, <2>6, <2>7 DEF Counted
  <2> QED
    BY <2>1, <2>7, <2>8
<1> QED
  BY <1>4, <1>5

(* An abandoned waiter leaves the queue, and only that waiter does. *)
LEMMA AbandonCounted ==
    ASSUME NEW C, NEW W, NEW R, NEW k \in Nat, NEW s, Counted(s, C, W, R, k),
           NEW c \in Pending(s)
    PROVE  /\ Counted(Abandon(s, c), C, W \ {c}, R, k)
           /\ Pending(Abandon(s, c)) = Pending(s) \ {c}
<1> DEFINE i == CHOOSE j \in 1..Len(s.queue) : s.queue[j] = c
           front == SubSeq(s.queue, 1, i - 1)
           back == SubSeq(s.queue, i + 1, Len(s.queue))
           q == front \o back
           t == [s EXCEPT !.queue = q]
<1>1. /\ s \in SemaphoresOf(C) /\ s.queue \in Seq(C) /\ Len(s.queue) \in Nat
      /\ \A j \in 1..Len(s.queue) : s.queue[j] \in C
  BY LenProperties, ElementOfSeq DEF SemaphoresOf, Counted
<1>2. i \in 1..Len(s.queue) /\ s.queue[i] = c
  BY DEF Pending
<1>3. Abandon(s, c) = t
  BY DEF Abandon
<1> HIDE DEF i
<1>4. /\ front \in Seq(C) /\ Len(front) = i - 1
      /\ \A j \in 1..i - 1 : front[j] = s.queue[j]
  BY <1>1, <1>2, SubSeqProperties
<1>5. /\ back \in Seq(C) /\ Len(back) = Len(s.queue) - i
      /\ \A j \in 1..Len(s.queue) - i : back[j] = s.queue[i + j]
  BY <1>1, <1>2, SubSeqProperties
<1> HIDE DEF front, back
<1>6. /\ q \in Seq(C) /\ Len(q) = Len(s.queue) - 1
      /\ \A j \in 1..Len(s.queue) - 1 :
            q[j] = IF j <= i - 1 THEN front[j] ELSE back[j - (i - 1)]
  <2>1. /\ q \in Seq(C) /\ Len(q) = Len(front) + Len(back)
        /\ \A j \in 1..Len(front) + Len(back) :
              q[j] = IF j <= Len(front) THEN front[j] ELSE back[j - Len(front)]
    BY <1>4, <1>5, ConcatProperties
  <2>2. Len(front) + Len(back) = Len(s.queue) - 1 /\ Len(front) = i - 1
    BY <1>1, <1>2, <1>4, <1>5
  <2> HIDE DEF q
  <2> QED
    BY <2>1, <2>2
<1> HIDE DEF q
<1>7. \A j \in 1..Len(q) :
         q[j] = IF j < i THEN s.queue[j] ELSE s.queue[j + 1]
  <2> SUFFICES ASSUME NEW j \in 1..Len(q)
               PROVE  q[j] = IF j < i THEN s.queue[j] ELSE s.queue[j + 1]
    OBVIOUS
  <2>1. CASE j < i
    <3>1. j \in 1..i - 1 /\ j \in 1..Len(s.queue) - 1 /\ j <= i - 1
      BY <1>1, <1>2, <1>6, <2>1
    <3>2. q[j] = front[j] /\ front[j] = s.queue[j]
      BY <1>4, <1>6, <3>1
    <3> QED
      BY <2>1, <3>2
  <2>2. CASE j >= i
    <3>1. j - (i - 1) \in 1..Len(s.queue) - i /\ i + (j - (i - 1)) = j + 1
      BY <1>1, <1>2, <1>6, <2>2
    <3>2. q[j] = back[j - (i - 1)]
      BY <1>1, <1>2, <1>6, <2>2
    <3> QED
      BY <1>2, <1>5, <2>2, <3>1, <3>2
  <2> QED
    BY <1>1, <1>2, <1>6, <2>1, <2>2
<1>8. \A a, b \in 1..Len(s.queue) : s.queue[a] = s.queue[b] => a = b
  BY DEF Counted, Distinct
<1>9. Distinct(q)
  <2> SUFFICES ASSUME NEW a \in 1..Len(q), NEW b \in 1..Len(q), q[a] = q[b]
               PROVE  a = b
    BY DEF Distinct
  <2> DEFINE Old(j) == IF j < i THEN j ELSE j + 1
  <2>1. Old(a) \in 1..Len(s.queue) /\ Old(b) \in 1..Len(s.queue)
    BY <1>1, <1>2, <1>6
  <2>2. q[a] = s.queue[Old(a)] /\ q[b] = s.queue[Old(b)]
    BY <1>7
  <2>3. Old(a) = Old(b)
    BY <1>8, <2>1, <2>2
  <2> QED
    BY <1>1, <1>2, <1>6, <2>3
<1>10. t \in SemaphoresOf(C) /\ t.queue = q /\ t.admitted = s.admitted /\ t.current = s.current
  BY <1>1, <1>6 DEF SemaphoresOf
<1> HIDE DEF t
<1>11. Pending(t) = Pending(s) \ {c}
  <2>1. ASSUME NEW x \in Pending(t)
        PROVE  x \in Pending(s) \ {c}
    <3>1. PICK j \in 1..Len(q) : x = q[j]
      BY <1>10, <2>1 DEF Pending
    <3>2. PICK a \in 1..Len(s.queue) : x = s.queue[a] /\ a # i
      <4>1. CASE j < i
        <5>1. j \in 1..Len(s.queue) /\ j # i /\ x = s.queue[j]
          BY <1>1, <1>2, <1>6, <1>7, <3>1, <4>1
        <5> QED
          BY <5>1
      <4>2. CASE ~(j < i)
        <5>1. j + 1 \in 1..Len(s.queue) /\ j + 1 # i /\ x = s.queue[j + 1]
          BY <1>1, <1>2, <1>6, <1>7, <3>1, <4>2
        <5> QED
          BY <5>1
      <4> QED
        BY <4>1, <4>2
    <3> QED
      BY <1>2, <1>8, <3>2 DEF Pending
  <2>2. ASSUME NEW x \in Pending(s) \ {c}
        PROVE  x \in Pending(t)
    <3>1. PICK j \in 1..Len(s.queue) : x = s.queue[j]
      BY <2>2 DEF Pending
    <3>2. j # i
      BY <1>2, <2>2, <3>1
    <3>3. CASE j < i
      <4>1. j \in 1..Len(q) /\ q[j] = x
        BY <1>1, <1>2, <1>6, <1>7, <3>1, <3>3
      <4> QED
        BY <1>10, <4>1 DEF Pending
    <3>4. CASE j > i
      <4>1. j - 1 \in 1..Len(q) /\ (j - 1) + 1 = j /\ ~(j - 1 < i)
        BY <1>1, <1>2, <1>6, <3>4
      <4>2. q[j - 1] = x
        BY <1>7, <3>1, <4>1
      <4> QED
        BY <1>10, <4>1, <4>2 DEF Pending
    <3> QED
      BY <1>2, <3>2, <3>3, <3>4
  <2> QED
    BY <2>1, <2>2
<1>12. IsFiniteSet(W \ {c})
  BY FS_RemoveElement DEF Counted
<1>13. Counted(t, C, W \ {c}, R, k)
  BY <1>9, <1>10, <1>11, <1>12 DEF Counted
<1> QED
  BY <1>3, <1>11, <1>13

(* release() gives back one outstanding permit, perhaps to the next waiter. *)
LEMMA ReleaseCounted ==
    ASSUME NEW C, NEW W, NEW R, NEW s, Counted(s, C, W, R, 1)
    PROVE  /\ Counted(Release(s), C, W, R, 0)
           /\ Pending(Release(s)) \subseteq Pending(s)
<1> DEFINE r == [s EXCEPT !.current = IF @ > 0 THEN @ - 1 ELSE @]
<1>1. /\ s \in SemaphoresOf(C) /\ s.current \in Nat /\ s.queue \in Seq(C)
      /\ IsFiniteSet(W) /\ IsFiniteSet(R) /\ s.admitted \subseteq W
      /\ s.current = Cardinality(s.admitted \cup R) + 1
  BY DEF SemaphoresOf, Counted
<1>2. IsFiniteSet(s.admitted)
  BY <1>1, FS_Subset
<1>3. IsFiniteSet(s.admitted \cup R)
  BY <1>1, <1>2, FS_Union
<1>4. Cardinality(s.admitted \cup R) \in Nat
  BY <1>3, FS_CardinalityType
<1>5. s.current > 0
  BY <1>1, <1>4
<1>6. /\ r \in SemaphoresOf(C) /\ r.queue = s.queue /\ r.admitted = s.admitted
      /\ r.current = s.current - 1
  BY <1>1, <1>5 DEF SemaphoresOf
<1> HIDE DEF r
<1>7. r.current = Cardinality(r.admitted \cup R) + 0
  BY <1>1, <1>4, <1>6
<1>8. Pending(r) = Pending(s) /\ Counted(r, C, W, R, 0)
  BY <1>6, <1>7 DEF Counted, Pending
<1>9. CASE HasRoom(r) /\ r.queue # <<>>
  <2>1. Release(s) = AdmitFirst(r, 1)
    BY <1>9 DEF Release, r
  <2>2. 1 \in 0..Len(r.queue)
    BY <1>1, <1>6, <1>9, LenProperties, EmptySeq
  <2> QED
    BY <1>8, <2>1, <2>2, AdmitFirstCounted
<1>10. CASE ~(HasRoom(r) /\ r.queue # <<>>)
  <2>1. Release(s) = r
    BY <1>10 DEF Release, r
  <2> QED
    BY <1>8, <2>1
<1> QED
  BY <1>9, <1>10

(* An admitted caller goes on with its permit, or leaves it for release(). *)
LEMMA ResumeCounted ==
    ASSUME NEW C, NEW W, NEW R, NEW s, Counted(s, C, W, R, 0), NEW c \in s.admitted
    PROVE  /\ Counted(Resume(s, c), C, W \ {c}, R \cup {c}, 0)
           /\ Counted(Resume(s, c), C, W \ {c}, R, 1)
           /\ Pending(Resume(s, c)) = Pending(s)
<1> DEFINE t == Resume(s, c)
           H == s.admitted \cup R
<1>1. /\ s \in SemaphoresOf(C) /\ s.current \in Nat /\ Distinct(s.queue)
      /\ IsFiniteSet(W) /\ IsFiniteSet(R) /\ s.admitted \subseteq W /\ W \cap R = {}
      /\ Pending(s) = W \ s.admitted
      /\ s.current = Cardinality(s.admitted \cup R) + 0
  BY DEF SemaphoresOf, Counted
<1>2. /\ t \in SemaphoresOf(C) /\ t.queue = s.queue /\ t.current = s.current
      /\ t.admitted = s.admitted \ {c}
  BY <1>1 DEF Resume, SemaphoresOf
<1> HIDE DEF t
<1>3. Pending(t) = Pending(s)
  BY <1>2 DEF Pending
<1>4. IsFiniteSet(W \ {c}) /\ IsFiniteSet(R \cup {c})
  BY <1>1, FS_RemoveElement, FS_AddElement
<1>5. IsFiniteSet(s.admitted)
  BY <1>1, FS_Subset
<1>6. IsFiniteSet(H)
  BY <1>1, <1>5, FS_Union
<1>7. t.admitted \cup R = H \ {c} /\ t.admitted \cup (R \cup {c}) = H /\ c \in H
  BY <1>1, <1>2
<1> HIDE DEF H
<1>8. Cardinality(H \ {c}) = Cardinality(H) - 1 /\ Cardinality(H) \in Nat
  BY <1>6, <1>7, FS_RemoveElement, FS_CardinalityType
<1>9. s.current = Cardinality(H)
  BY <1>1, <1>8 DEF H
<1>10. t.current = Cardinality(t.admitted \cup R) + 1
  <2>1. t.current = Cardinality(H \ {c}) + 1
    BY <1>2, <1>8, <1>9
  <2>2. Cardinality(t.admitted \cup R) = Cardinality(H \ {c})
    BY <1>7
  <2> QED
    BY <2>1, <2>2
<1>11. t.current = Cardinality(t.admitted \cup (R \cup {c})) + 0
  <2>1. t.current = Cardinality(H) + 0
    BY <1>2, <1>8, <1>9
  <2>2. Cardinality(t.admitted \cup (R \cup {c})) = Cardinality(H)
    BY <1>7
  <2> QED
    BY <2>1, <2>2
<1>12. Counted(t, C, W \ {c}, R \cup {c}, 0)
  BY <1>1, <1>2, <1>3, <1>4, <1>11 DEF Counted
<1>13. Counted(t, C, W \ {c}, R, 1)
  BY <1>1, <1>2, <1>3, <1>4, <1>10 DEF Counted
<1> QED
  BY <1>3, <1>12, <1>13 DEF t

(* A caller that ends leaves its permit for release(). *)
LEMMA LeaveCounted ==
    ASSUME NEW C, NEW W, NEW R, NEW s, Counted(s, C, W, R, 0), NEW c \in R
    PROVE  Counted(s, C, W, R \ {c}, 1)
<1> DEFINE H == s.admitted \cup R
<1>1. /\ s.admitted \subseteq W /\ W \cap R = {} /\ IsFiniteSet(W) /\ IsFiniteSet(R)
      /\ s.current = Cardinality(H) + 0
  BY DEF Counted
<1>2. IsFiniteSet(s.admitted) /\ IsFiniteSet(R \ {c})
  BY <1>1, FS_Subset, FS_RemoveElement
<1>3. IsFiniteSet(H)
  BY <1>1, <1>2, FS_Union
<1>4. s.admitted \cup (R \ {c}) = H \ {c} /\ c \in H
  BY <1>1
<1> HIDE DEF H
<1>5. Cardinality(H \ {c}) = Cardinality(H) - 1 /\ Cardinality(H) \in Nat
  BY <1>3, <1>4, FS_RemoveElement, FS_CardinalityType
<1>6. s.current = Cardinality(s.admitted \cup (R \ {c})) + 1
  <2>1. Cardinality(s.admitted \cup (R \ {c})) = Cardinality(H \ {c})
    BY <1>4
  <2>2. s.current = Cardinality(H \ {c}) + 1
    BY <1>1, <1>5
  <2> QED
    BY <2>1, <2>2
<1> QED
  BY <1>1, <1>2, <1>6 DEF Counted
-----------------------------------------------------------------------------
(***************************************************************************)
(* Every operation of Semaphore, and every sequence of them that its users *)
(* run in one go, amounts to this: from some line and some set of admitted *)
(* callers, the oldest waiters are admitted.  That is what a step of       *)
(* PermitPool does.                                                        *)
(***************************************************************************)

(* Semaphore t has admitted the n oldest of line w beside the callers A.   *)
GrantsFirst(t, w, A, n) ==
    /\ t.queue = SubSeq(w, n + 1, Len(w))
    /\ t.admitted = A \cup {w[i] : i \in 1..n}
    /\ n > 0 => t.max = 0 \/ t.current <= t.max

Grants(t, w, A) == \E n \in 0..Len(w) : GrantsFirst(t, w, A, n)

(* Dropping nothing from the front changes nothing. *)
LEMMA WholeSubSeq ==
    ASSUME NEW C, NEW q \in Seq(C)
    PROVE  SubSeq(q, 1, Len(q)) = q
<1>1. Len(q) \in Nat /\ q \in [1..Len(q) -> C]
  BY LenProperties
<1>2. /\ SubSeq(q, 1, Len(q)) \in Seq(C)
      /\ Len(SubSeq(q, 1, Len(q))) = Len(q)
      /\ \A i \in 1..Len(q) : SubSeq(q, 1, Len(q))[i] = q[i]
  BY <1>1, SubSeqProperties
<1> QED
  BY <1>1, <1>2, SeqEqual

(* Dropping i and then one is dropping i + 1. *)
LEMMA SubSeqTail ==
    ASSUME NEW C, NEW q \in Seq(C), NEW i \in 0..Len(q), NEW k \in 0..Len(q) - i
    PROVE  /\ SubSeq(SubSeq(q, i + 1, Len(q)), k + 1, Len(q) - i) = SubSeq(q, i + k + 1, Len(q))
           /\ Len(SubSeq(q, i + 1, Len(q))) = Len(q) - i
           /\ \A j \in 1..Len(q) - i : SubSeq(q, i + 1, Len(q))[j] = q[i + j]
<1> DEFINE p == SubSeq(q, i + 1, Len(q))
           a == SubSeq(p, k + 1, Len(p))
           b == SubSeq(q, i + k + 1, Len(q))
<1>1. Len(q) \in Nat /\ \A j \in 1..Len(q) : q[j] \in C
  BY LenProperties, ElementOfSeq
<1>2. /\ p \in Seq(C) /\ Len(p) = Len(q) - i
      /\ \A j \in 1..Len(q) - i : p[j] = q[i + j]
  BY <1>1, SubSeqProperties
<1>3. /\ b \in Seq(C) /\ Len(b) = Len(q) - (i + k)
      /\ \A j \in 1..Len(q) - (i + k) : b[j] = q[(i + k) + j]
  BY <1>1, SubSeqProperties
<1> HIDE DEF p, b
<1>4. \A j \in 1..Len(p) : p[j] \in C
  BY <1>2, ElementOfSeq
<1>5. /\ a \in Seq(C) /\ Len(a) = Len(p) - k
      /\ \A j \in 1..Len(p) - k : a[j] = p[k + j]
  <2>1. k + 1 \in 1..Len(p) + 1 /\ Len(p) \in k..Len(p) /\ Len(p) \in Nat /\ k \in Nat
    BY <1>1, <1>2
  <2>2. /\ \A j \in k + 1..Len(p) : p[j] \in C
        /\ Len(p) + 1 - (k + 1) = Len(p) - k
        /\ \A j \in 1..Len(p) - k : (k + 1) + j - 1 = k + j
    BY <1>4, <2>1
  <2> QED
    BY <1>2, <2>1, <2>2, SubSeqProperties
<1> HIDE DEF a
<1>6. \A j \in 1..Len(b) : a[j] = b[j]
  BY <1>1, <1>2, <1>3, <1>5
<1>7. a = b
  BY <1>1, <1>2, <1>3, <1>5, <1>6, SeqEqual
<1> QED
  BY <1>2, <1>7 DEF a, b, p

(* A semaphore grants its own line to its own callers: nobody moves. *)
LEMMA SelfGrants ==
    ASSUME NEW C, NEW s \in SemaphoresOf(C)
    PROVE  Grants(s, s.queue, s.admitted)
<1>1. s.queue \in Seq(C) /\ Len(s.queue) \in Nat
  BY LenProperties DEF SemaphoresOf
<1>2. SubSeq(s.queue, 0 + 1, Len(s.queue)) = s.queue
  BY <1>1, WholeSubSeq
<1>3. {s.queue[i] : i \in 1..0} = {}
  OBVIOUS
<1>4. GrantsFirst(s, s.queue, s.admitted, 0)
  BY <1>2, <1>3 DEF GrantsFirst
<1> QED
  BY <1>1, <1>4 DEF Grants

(* Admitting n more callers extends what has been granted.                 *)
LEMMA AdmitFirstGrants ==
    ASSUME NEW C, NEW s \in SemaphoresOf(C), NEW w \in Seq(C), NEW A,
           NEW i \in 0..Len(w), s.queue = SubSeq(w, i + 1, Len(w)),
           s.admitted = A \cup {w[j] : j \in 1..i},
           NEW n \in 0..Len(s.queue),
           n > 0 => s.max = 0 \/ s.current + n <= s.max,
           i > 0 => s.max = 0 \/ s.current + n <= s.max
    PROVE  Grants(AdmitFirst(s, n), w, A)
<1> DEFINE t == AdmitFirst(s, n)
<1>1. Len(w) \in Nat
  BY LenProperties
<1>2. /\ Len(s.queue) = Len(w) - i
      /\ \A j \in 1..Len(w) - i : s.queue[j] = w[i + j]
  BY <1>1, SubSeqTail
<1>3. /\ t.queue = SubSeq(s.queue, n + 1, Len(s.queue))
      /\ t.admitted = s.admitted \cup {s.queue[j] : j \in 1..n}
      /\ t.current = s.current + n /\ t.max = s.max
  BY DEF AdmitFirst, SemaphoresOf
<1> HIDE DEF t
<1>4. t.queue = SubSeq(w, (i + n) + 1, Len(w))
  BY <1>1, <1>2, <1>3, SubSeqTail
<1>5. t.admitted = A \cup {w[j] : j \in 1..i + n}
  <2> DEFINE B == {w[j] : j \in 1..i}
             D == {s.queue[j] : j \in 1..n}
             E == {w[j] : j \in 1..i + n}
  <2>1. ASSUME NEW j \in 1..n PROVE i + j \in 1..i + n /\ s.queue[j] = w[i + j]
    BY <1>1, <1>2
  <2>2. D \subseteq E
    BY <2>1
  <2>3. B \subseteq E
    BY <1>1, <1>2
  <2>4. ASSUME NEW j \in 1..i + n PROVE w[j] \in B \cup D
    <3>1. CASE j <= i
      <4>1. j \in 1..i
        BY <1>1, <1>2, <3>1
      <4> QED
        BY <4>1
    <3>2. CASE j > i
      <4>1. j - i \in 1..n /\ j - i \in 1..Len(w) - i /\ i + (j - i) = j
        BY <1>1, <1>2, <3>2
      <4>2. w[j] = s.queue[j - i]
        BY <1>2, <4>1
      <4> QED
        BY <4>1, <4>2
    <3>3. j <= i \/ j > i
      BY <1>1, <1>2
    <3> QED
      BY <3>1, <3>2, <3>3
  <2>5. E \subseteq B \cup D
    BY <2>4
  <2> HIDE DEF B, D, E
  <2>6. E = B \cup D
    BY <2>2, <2>3, <2>5
  <2>7. t.admitted = (A \cup B) \cup D
    BY <1>3 DEF B, D
  <2>8. t.admitted = A \cup E
    BY <2>6, <2>7
  <2> QED
    BY <2>8 DEF E
<1>6. i + n > 0 => t.max = 0 \/ t.current <= t.max
  BY <1>1, <1>2, <1>3
<1>7. i + n \in 0..Len(w)
  BY <1>1, <1>2
<1>8. GrantsFirst(t, w, A, i + n)
  BY <1>4, <1>5, <1>6 DEF GrantsFirst
<1> QED
  BY <1>7, <1>8 DEF Grants, t

(* resize(), starting from its own line. *)
LEMMA ResizeGrants ==
    ASSUME NEW C, NEW s \in SemaphoresOf(C), NEW l \in Int
    PROVE  Grants(Resize(s, l), s.queue, s.admitted)
<1> DEFINE m == NormalizeConcurrencyLimit(l)
           r == [s EXCEPT !.max = m]
           n == Fitting(r)
<1>1. m \in Nat
  BY NormalizeIsNat
<1> HIDE DEF m
<1>2. /\ r \in SemaphoresOf(C) /\ r.queue = s.queue /\ r.admitted = s.admitted
      /\ r.current = s.current /\ r.current \in Nat
      /\ s.queue \in Seq(C) /\ Len(s.queue) \in Nat
  BY <1>1, LenProperties DEF SemaphoresOf
<1> HIDE DEF r
<1>3. n \in 0..Len(r.queue) /\ (n = 0 \/ r.max = 0 \/ r.current + n <= r.max)
  BY <1>2, FittingBounds
<1> HIDE DEF n
<1>4. Resize(s, l) = AdmitFirst(r, n)
  BY DEF Resize, r, m, n
<1>5. r.queue = SubSeq(s.queue, 0 + 1, Len(s.queue))
  BY <1>2, WholeSubSeq
<1>6. r.admitted = s.admitted \cup {s.queue[j] : j \in 1..0}
  BY <1>2
<1>7. 0 \in 0..Len(s.queue) /\ ~(0 > 0) /\ (n > 0 => r.max = 0 \/ r.current + n <= r.max)
  BY <1>2, <1>3
<1>8. Grants(AdmitFirst(r, n), s.queue, s.admitted)
  BY <1>2, <1>3, <1>5, <1>6, <1>7, AdmitFirstGrants
<1> QED
  BY <1>4, <1>8

(* acquire() after whatever was granted before: the caller joins the end   *)
(* of the line and is admitted if the line before it is empty.             *)
LEMMA AcquireGrants ==
    ASSUME NEW C, NEW s \in SemaphoresOf(C), NEW w \in Seq(C), NEW A, NEW c \in C,
           Tight(s), Grants(s, w, A)
    PROVE  Grants(Acquire(s, c), Append(w, c), A)
<1> DEFINE v == Append(w, c)
           t == Acquire(s, c)
<1>1. PICK n \in 0..Len(w) : GrantsFirst(s, w, A, n)
  BY DEF Grants
<1>2. /\ Len(w) \in Nat /\ v \in Seq(C) /\ Len(v) = Len(w) + 1
      /\ \A i \in 1..Len(w) : v[i] = w[i]
      /\ v[Len(w) + 1] = c
      /\ \A i \in 1..Len(w) + 1 : v[i] \in C
  BY LenProperties, AppendProperties, ElementOfSeq
<1>3. /\ s.max \in Nat /\ s.current \in Nat /\ s.queue \in Seq(C)
      /\ Len(s.queue) = Len(w) - n
      /\ \A j \in 1..Len(w) - n : s.queue[j] = w[n + j]
  <2>1. s.queue = SubSeq(w, n + 1, Len(w))
    BY <1>1 DEF GrantsFirst
  <2> QED
    BY <1>1, <1>2, <2>1, SubSeqTail DEF SemaphoresOf
<1>4. s.admitted = A \cup {w[i] : i \in 1..n}
  BY <1>1 DEF GrantsFirst
<1> HIDE DEF v
<1>5. {v[i] : i \in 1..n} = {w[i] : i \in 1..n}
  <2>1. \A i \in 1..n : v[i] = w[i]
    BY <1>1, <1>2
  <2> QED
    BY <2>1
<1>6. CASE HasRoom(s)
  <2>1. s.queue = <<>> /\ Len(w) = n
    BY <1>1, <1>2, <1>3, <1>6, EmptySeq DEF Tight
  <2>2. t = [max |-> s.max, current |-> s.current + 1,
             queue |-> s.queue, admitted |-> s.admitted \cup {c}]
    BY <1>6 DEF Acquire, SemaphoresOf
  <2> HIDE DEF t
  <2>3. SubSeq(v, n + 1 + 1, Len(v)) = <<>>
    BY <1>2, <2>1, SubSeqEmpty
  <2>4. {v[i] : i \in 1..n + 1} = {v[i] : i \in 1..n} \cup {c}
    <3>1. \A i : i \in 1..n + 1 <=> i \in 1..n \/ i = n + 1
      BY <1>2, <2>1
    <3>2. v[n + 1] = c
      BY <1>2, <2>1
    <3> QED
      BY <3>1, <3>2
  <2>5. t.admitted = A \cup {v[i] : i \in 1..n + 1}
    <3>1. t.admitted = (A \cup {w[i] : i \in 1..n}) \cup {c}
      BY <1>4, <2>2
    <3> QED
      BY <1>5, <2>4, <3>1
  <2>6. t.max = 0 \/ t.current <= t.max
    BY <1>3, <1>6, <2>2 DEF HasRoom
  <2>7. n + 1 \in 0..Len(v)
    BY <1>2, <2>1
  <2>8. GrantsFirst(t, v, A, n + 1)
    BY <2>1, <2>2, <2>3, <2>5, <2>6 DEF GrantsFirst
  <2> QED
    BY <2>7, <2>8 DEF Grants, v, t
<1>7. CASE ~HasRoom(s)
  <2>1. t = [max |-> s.max, current |-> s.current,
             queue |-> Append(s.queue, c), admitted |-> s.admitted]
    BY <1>7 DEF Acquire, SemaphoresOf
  <2> HIDE DEF t
  <2> DEFINE p == Append(s.queue, c)
             q == SubSeq(v, n + 1, Len(v))
  <2>2. /\ p \in Seq(C) /\ Len(p) = Len(v) - n
        /\ \A j \in 1..Len(s.queue) : p[j] = s.queue[j]
        /\ p[Len(s.queue) + 1] = c
    <3>0. s.queue \in Seq(C) /\ Len(s.queue) \in Nat
      BY <1>3, LenProperties
    <3>1. /\ p \in Seq(C) /\ Len(p) = Len(s.queue) + 1
          /\ \A j \in 1..Len(s.queue) : p[j] = s.queue[j]
          /\ p[Len(s.queue) + 1] = c
      BY <3>0, AppendProperties
    <3>2. Len(s.queue) + 1 = Len(v) - n
      BY <1>1, <1>2, <1>3
    <3> HIDE DEF p
    <3> QED
      BY <3>1, <3>2
  <2>3. /\ q \in Seq(C) /\ Len(q) = Len(v) - n
        /\ \A j \in 1..Len(v) - n : q[j] = v[n + j]
    BY <1>1, <1>2, SubSeqProperties
  <2> HIDE DEF p, q
  <2>4. ASSUME NEW j \in 1..Len(p) PROVE p[j] = q[j]
    <3>1. CASE j \in 1..Len(w) - n
      <4>1. j \in 1..Len(s.queue) /\ n + j \in 1..Len(w) /\ j \in 1..Len(v) - n
        BY <1>1, <1>2, <1>3, <2>2, <3>1
      <4> QED
        BY <1>2, <1>3, <2>2, <2>3, <3>1, <4>1
    <3>2. CASE j \notin 1..Len(w) - n
      <4>1. j = Len(s.queue) + 1 /\ n + j = Len(w) + 1 /\ j \in 1..Len(v) - n
        BY <1>1, <1>2, <1>3, <2>2, <3>2
      <4> QED
        BY <1>2, <2>2, <2>3, <4>1
    <3> QED
      BY <3>1, <3>2
  <2>5. p = q
    BY <2>2, <2>3, <2>4, SeqEqual
  <2>6. t.queue = SubSeq(v, n + 1, Len(v)) /\ t.admitted = A \cup {v[i] : i \in 1..n}
    <3>1. t.queue = p /\ t.admitted = s.admitted
      BY <2>1 DEF p
    <3> QED
      BY <1>4, <1>5, <2>5, <3>1 DEF q
  <2>7. n > 0 => t.max = 0 \/ t.current <= t.max
    BY <1>1, <2>1 DEF GrantsFirst
  <2>8. n \in 0..Len(v)
    BY <1>1, <1>2
  <2>9. GrantsFirst(t, v, A, n)
    BY <2>6, <2>7 DEF GrantsFirst
  <2> QED
    BY <2>8, <2>9 DEF Grants, v, t
<1> QED
  BY <1>6, <1>7

(* release() after whatever was granted before.                            *)
LEMMA ReleaseGrants ==
    ASSUME NEW C, NEW s \in SemaphoresOf(C), NEW w \in Seq(C), NEW A,
           Tight(s), Grants(s, w, A)
    PROVE  Grants(Release(s), w, A)
<1> DEFINE r == [s EXCEPT !.current = IF @ > 0 THEN @ - 1 ELSE @]
<1>1. PICK i \in 0..Len(w) : GrantsFirst(s, w, A, i)
  BY DEF Grants
<1>2. /\ s.max \in Nat /\ s.current \in Nat /\ s.queue \in Seq(C) /\ Len(s.queue) \in Nat
  BY LenProperties DEF SemaphoresOf
<1>3. /\ r \in SemaphoresOf(C) /\ r.queue = s.queue /\ r.admitted = s.admitted
      /\ r.max = s.max /\ r.current \in Nat /\ r.current <= s.current
  BY <1>2 DEF SemaphoresOf
<1> HIDE DEF r
<1>4. /\ r.queue = SubSeq(w, i + 1, Len(w))
      /\ r.admitted = A \cup {w[j] : j \in 1..i}
      /\ i > 0 => s.max = 0 \/ s.current <= s.max
  BY <1>1, <1>3 DEF GrantsFirst
<1>5. CASE HasRoom(r) /\ r.queue # <<>>
  <2>1. Release(s) = AdmitFirst(r, 1)
    BY <1>5 DEF Release, r
  <2>2. 1 \in 0..Len(r.queue)
    BY <1>2, <1>3, <1>5, EmptySeq
  <2>3. r.max = 0 \/ r.current + 1 <= r.max
    BY <1>2, <1>3, <1>5 DEF HasRoom
  <2> QED
    BY <1>3, <1>4, <2>1, <2>2, <2>3, AdmitFirstGrants
<1>6. CASE ~(HasRoom(r) /\ r.queue # <<>>)
  <2>1. Release(s) = r
    BY <1>6 DEF Release, r
  <2>2. i > 0 => r.max = 0 \/ r.current <= r.max
    BY <1>2, <1>3, <1>4
  <2>3. GrantsFirst(r, w, A, i)
    BY <1>4, <2>2 DEF GrantsFirst
  <2> QED
    BY <1>1, <2>1, <2>3 DEF Grants
<1> QED
  BY <1>5, <1>6
=============================================================================
