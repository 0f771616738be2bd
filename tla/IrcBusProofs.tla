---------------------------- MODULE IrcBusProofs ----------------------------
(***************************************************************************)
(* Theorems about the messages between agents, for any agents, messages    *)
(* and waits, and any cap of the mailboxes.                                *)
(***************************************************************************)
EXTENDS IrcBus, SequenceTheorems, FiniteSetTheorems, WellFoundedInduction, TLAPS

-----------------------------------------------------------------------------
(* Sequences: what is in them after an element came or went.               *)

LEMMA Least ==
  ASSUME NEW S \in SUBSET Nat, S # {}
  PROVE  \E k \in S : \A l \in S : k <= l
<1>1. PICK x \in S : \A y \in S : ~(<<y, x>> \in OpToRel(<, Nat))
  BY WFMin, NatLessThanWellFounded
<1>2. \A y \in S : ~(y < x)
  BY <1>1 DEF OpToRel
<1> QED
  BY <1>2

LEMMA EmptyIs ==
  ASSUME NEW S
  PROVE  <<>> \in Seq(S) /\ Len(<<>>) = 0 /\ ToSet(<<>>) = {} /\ IsInjective(<<>>)
BY DEF ToSet, IsInjective

LEMMA OneIs == \A e : ToSet(<<e>>) = {e}
BY DEF ToSet

LEMMA AppendedIs ==
  ASSUME NEW S, NEW s \in Seq(S), NEW e \in S
  PROVE  /\ Append(s, e) \in Seq(S)
         /\ Len(Append(s, e)) = Len(s) + 1
         /\ ToSet(Append(s, e)) = ToSet(s) \cup {e}
         /\ IsInjective(s) /\ e \notin ToSet(s) => IsInjective(Append(s, e))
<1> DEFINE t == Append(s, e)
<1>1. /\ t \in Seq(S) /\ Len(t) = Len(s) + 1
      /\ \A n \in 1..Len(s) : t[n] = s[n]
      /\ t[Len(s) + 1] = e
  BY AppendProperties
<1>2. DOMAIN s = 1..Len(s) /\ DOMAIN t = 1..(Len(s) + 1) /\ Len(s) \in Nat
  BY <1>1, LenProperties
<1> HIDE DEF t
<1>3. ToSet(t) = ToSet(s) \cup {e}
  <2>1. ToSet(t) \subseteq ToSet(s) \cup {e}
    BY <1>1, <1>2 DEF ToSet
  <2>2. ToSet(s) \subseteq ToSet(t)
    BY <1>1, <1>2 DEF ToSet
  <2>3. e \in ToSet(t)
    BY <1>1, <1>2 DEF ToSet
  <2> QED
    BY <2>1, <2>2, <2>3
<1>4. ASSUME IsInjective(s), e \notin ToSet(s)
      PROVE  IsInjective(t)
  BY <1>1, <1>2, <1>4 DEF IsInjective, ToSet
<1> QED
  BY <1>1, <1>3, <1>4 DEF t

LEMMA RemovedAt ==
  ASSUME NEW S, NEW s \in Seq(S), NEW n \in DOMAIN s
  PROVE  /\ RemoveAt(s, n) \in Seq(S)
         /\ Len(RemoveAt(s, n)) = Len(s) - 1
         /\ \A i \in 1..(Len(s) - 1) : RemoveAt(s, n)[i] = IF i < n THEN s[i] ELSE s[i + 1]
<1> DEFINE p == SubSeq(s, 1, n - 1)
           q == SubSeq(s, n + 1, Len(s))
<1>1. Len(s) \in Nat /\ n \in 1..Len(s) /\ \A i \in 1..Len(s) : s[i] \in S
  BY LenProperties
<1>2. /\ p \in Seq(S) /\ Len(p) = n - 1
      /\ \A i \in 1..(n - 1) : p[i] = s[i]
  <2>1. 1 \in Int /\ n - 1 \in Int /\ \A i \in 1..(n - 1) : s[i] \in S
    BY <1>1
  <2> QED
    BY <1>1, <2>1, SubSeqProperties
<1>3. /\ q \in Seq(S) /\ Len(q) = Len(s) - n
      /\ \A i \in 1..(Len(s) - n) : q[i] = s[i + n]
  <2>1. n + 1 \in Int /\ Len(s) \in Int /\ \A i \in (n + 1)..Len(s) : s[i] \in S
    BY <1>1
  <2> QED
    BY <1>1, <2>1, SubSeqProperties
<1> HIDE DEF p, q
<1>4. /\ p \o q \in Seq(S) /\ Len(p \o q) = Len(p) + Len(q)
      /\ \A i \in 1..(Len(p) + Len(q)) : (p \o q)[i] = IF i <= Len(p) THEN p[i] ELSE q[i - Len(p)]
  BY <1>2, <1>3, ConcatProperties
<1>6. Len(p) + Len(q) = Len(s) - 1
  BY <1>1, <1>2, <1>3
<1>5. ASSUME NEW i \in 1..(Len(s) - 1)
      PROVE  (p \o q)[i] = IF i < n THEN s[i] ELSE s[i + 1]
  <2>1. (p \o q)[i] = IF i <= Len(p) THEN p[i] ELSE q[i - Len(p)]
    BY <1>4, <1>6
  <2>2. CASE i < n
    BY <1>1, <1>2, <2>1, <2>2
  <2>3. CASE ~(i < n)
    <3>1. i - (n - 1) \in 1..(Len(s) - n)
      BY <1>1, <2>3
    <3>2. q[i - (n - 1)] = s[(i - (n - 1)) + n] /\ (i - (n - 1)) + n = i + 1
      BY <1>1, <1>3, <3>1
    <3> QED
      BY <1>1, <1>2, <2>1, <2>3, <3>2
  <2> QED
    BY <2>2, <2>3
<1>7. RemoveAt(s, n) = p \o q
  BY DEF RemoveAt, p, q
<1> QED
  BY <1>4, <1>5, <1>6, <1>7

LEMMA RemovedIs ==
  ASSUME NEW S, NEW s \in Seq(S), NEW n \in DOMAIN s, IsInjective(s)
  PROVE  /\ RemoveAt(s, n) \in Seq(S)
         /\ Len(RemoveAt(s, n)) = Len(s) - 1
         /\ ToSet(RemoveAt(s, n)) = ToSet(s) \ {s[n]}
         /\ IsInjective(RemoveAt(s, n))
<1> DEFINE t == RemoveAt(s, n)
<1>1. /\ t \in Seq(S) /\ Len(t) = Len(s) - 1
      /\ \A i \in 1..(Len(s) - 1) : t[i] = IF i < n THEN s[i] ELSE s[i + 1]
  BY RemovedAt
<1>2. DOMAIN s = 1..Len(s) /\ DOMAIN t = 1..(Len(s) - 1) /\ Len(s) \in Nat
  BY <1>1, LenProperties
<1> HIDE DEF t
<1>3. ToSet(t) \subseteq ToSet(s) \ {s[n]}
  BY <1>1, <1>2 DEF ToSet, IsInjective
<1>4. ASSUME NEW i \in DOMAIN s, i # n
      PROVE  s[i] \in ToSet(t)
  <2>1. CASE i < n
    BY <1>1, <1>2, <2>1 DEF ToSet
  <2>2. CASE i > n
    <3>1. i - 1 \in DOMAIN t /\ t[i - 1] = s[i]
      BY <1>1, <1>2, <2>2
    <3> QED
      BY <3>1 DEF ToSet
  <2> QED
    BY <1>2, <1>4, <2>1, <2>2
<1>5. ToSet(t) = ToSet(s) \ {s[n]}
  BY <1>3, <1>4 DEF ToSet
<1>6. ASSUME NEW i \in DOMAIN t, NEW j \in DOMAIN t, t[i] = t[j]
      PROVE  i = j
  <2> DEFINE old(k) == IF k < n THEN k ELSE k + 1
  <2>1. \A k \in DOMAIN t : old(k) \in DOMAIN s /\ t[k] = s[old(k)]
    BY <1>1, <1>2
  <2>2. old(i) = old(j)
    BY <1>6, <2>1 DEF IsInjective
  <2> QED
    BY <1>2, <2>2
<1> QED
  BY <1>1, <1>5, <1>6 DEF t, IsInjective

LEMMA TailIs ==
  ASSUME NEW S, NEW s \in Seq(S), Len(s) > 0
  PROVE  /\ Tail(s) \in Seq(S)
         /\ Len(Tail(s)) = Len(s) - 1
         /\ ToSet(Tail(s)) \subseteq ToSet(s)
         /\ IsInjective(s) => IsInjective(Tail(s))
<1>1. s # <<>>
  OBVIOUS
<1>2. /\ Tail(s) \in Seq(S) /\ Len(Tail(s)) = Len(s) - 1
      /\ \A i \in 1..(Len(s) - 1) : Tail(s)[i] = s[i + 1]
  BY <1>1, HeadTailProperties
<1>3. DOMAIN s = 1..Len(s) /\ DOMAIN Tail(s) = 1..(Len(s) - 1) /\ Len(s) \in Nat
  BY <1>2, LenProperties
<1> QED
  BY <1>2, <1>3 DEF ToSet, IsInjective

(* Rest(): the function that defines it exists, and what it keeps.         *)
Keeping(kept, s, W, m) ==
    kept = [n \in 0..m |->
               IF n = 0 THEN <<>>
               ELSE IF s[n] \in W THEN kept[n - 1] ELSE Append(kept[n - 1], s[n])]

LEMMA RestDefined ==
  ASSUME NEW S, NEW s \in Seq(S), NEW W
  PROVE  \E kept : Keeping(kept, s, W, Len(s)) /\ Rest(s, W) = kept[Len(s)]
<1>0. Len(s) \in Nat
  BY LenProperties
<1> DEFINE T == {m \in 0..Len(s) : ~ \E kept : Keeping(kept, s, W, m)}
<1>1. ASSUME T # {}
      PROVE  FALSE
  <2>1. PICK m \in T : \A l \in T : m <= l
    <3>1. T \in SUBSET Nat
      BY <1>0
    <3> HIDE DEF T
    <3> QED
      BY <1>1, <3>1, Least
  <2>2. m \in 0..Len(s)
    BY <2>1
  <2>3. m # 0
    <3>1. Keeping([n \in 0..0 |-> <<>>], s, W, 0)
      BY DEF Keeping
    <3> QED
      BY <3>1
  <2>4. PICK kept : Keeping(kept, s, W, m - 1)
    <3>1. m - 1 \in 0..Len(s) /\ ~(m <= m - 1)
      BY <1>0, <2>2, <2>3
    <3> QED
      BY <2>1, <3>1
  <2> DEFINE g == [n \in 0..m |-> IF n < m THEN kept[n]
                     ELSE IF s[m] \in W THEN kept[m - 1] ELSE Append(kept[m - 1], s[m])]
             h == [n \in 0..m |->
                     IF n = 0 THEN <<>>
                     ELSE IF s[n] \in W THEN g[n - 1] ELSE Append(g[n - 1], s[n])]
  <2>5. ASSUME NEW n \in 0..m
        PROVE  g[n] = h[n]
    <3>1. CASE n = m
      BY <1>0, <2>2, <2>3, <3>1
    <3>2. CASE n < m
      <4>1. /\ n \in 0..(m - 1)
            /\ n # 0 => n - 1 \in 0..(m - 1) /\ g[n - 1] = kept[n - 1]
            /\ g[n] = kept[n]
        BY <1>0, <2>2, <3>2
      <4>2. kept[n] = IF n = 0 THEN <<>>
                      ELSE IF s[n] \in W THEN kept[n - 1] ELSE Append(kept[n - 1], s[n])
        BY <2>4, <4>1 DEF Keeping
      <4> QED
        BY <4>1, <4>2
    <3> QED
      BY <1>0, <2>2, <3>1, <3>2
  <2>6. g = h
    BY <2>5
  <2>7. Keeping(g, s, W, m)
    BY <2>6 DEF Keeping
  <2> QED
    BY <2>1, <2>7
<1>2. Len(s) \in 0..Len(s)
  BY <1>0
<1>3. \E kept : Keeping(kept, s, W, Len(s))
  BY <1>1, <1>2
<1>4. Keeping(CHOOSE kept : Keeping(kept, s, W, Len(s)), s, W, Len(s))
  BY <1>3
<1> QED
  BY <1>4 DEF Rest, Keeping

LEMMA RestIs ==
  ASSUME NEW S, NEW s \in Seq(S), NEW W
  PROVE  /\ Rest(s, W) \in Seq(S)
         /\ ToSet(Rest(s, W)) = ToSet(s) \ W
         /\ IsInjective(s) => IsInjective(Rest(s, W))
<1>0. Len(s) \in Nat /\ DOMAIN s = 1..Len(s) /\ \A n \in DOMAIN s : s[n] \in S
  BY LenProperties
<1>1. PICK kept : Keeping(kept, s, W, Len(s)) /\ Rest(s, W) = kept[Len(s)]
  BY RestDefined
<1> DEFINE Good(n) ==
             /\ kept[n] \in Seq(S)
             /\ ToSet(kept[n]) = {s[k] : k \in 1..n} \ W
             /\ IsInjective(s) => IsInjective(kept[n])
           T == {m \in 0..Len(s) : ~ Good(m)}
<1>2. ASSUME T # {}
      PROVE  FALSE
  <2>1. PICK m \in T : \A l \in T : m <= l
    <3>1. T \in SUBSET Nat
      BY <1>0
    <3> HIDE DEF T
    <3> QED
      BY <1>2, <3>1, Least
  <2>2. m \in 0..Len(s) /\ ~Good(m)
    BY <2>1
  <2>3. m # 0
    BY <1>1, <2>2, EmptyIs DEF Keeping
  <2>4. Good(m - 1)
    <3>1. m - 1 \in 0..Len(s) /\ ~(m <= m - 1)
      BY <1>0, <2>2, <2>3
    <3> QED
      BY <2>1, <3>1
  <2>5. kept[m] = IF s[m] \in W THEN kept[m - 1] ELSE Append(kept[m - 1], s[m])
    BY <1>0, <1>1, <2>2, <2>3 DEF Keeping
  <2>6. {s[k] : k \in 1..m} = {s[k] : k \in 1..(m - 1)} \cup {s[m]}
    BY <1>0, <2>2, <2>3
  <2>7. CASE s[m] \in W
    BY <2>2, <2>4, <2>5, <2>6, <2>7
  <2>8. CASE s[m] \notin W
    <3>1. s[m] \in S
      BY <1>0, <2>2, <2>3
    <3>2. ASSUME IsInjective(s)
          PROVE  s[m] \notin ToSet(kept[m - 1])
      BY <1>0, <2>2, <2>3, <2>4, <3>2 DEF IsInjective
    <3>3. /\ kept[m] \in Seq(S)
          /\ ToSet(kept[m]) = ToSet(kept[m - 1]) \cup {s[m]}
          /\ IsInjective(s) => IsInjective(kept[m])
      BY <2>4, <2>5, <2>8, <3>1, <3>2, AppendedIs
    <3> QED
      BY <2>2, <2>4, <2>6, <2>8, <3>3
  <2> QED
    BY <2>7, <2>8
<1>3. Good(Len(s))
  <2>1. Len(s) \in 0..Len(s)
    BY <1>0
  <2> QED
    BY <1>2, <2>1
<1> QED
  BY <1>0, <1>1, <1>3 DEF ToSet

-----------------------------------------------------------------------------
(* The lists of waiters and the waits agree, whatever is done to both.     *)

WaitStatuses == {"new", "waiting", "message", "timeout", "aborted", "stopped"}

WaitersOk(ws, wt) ==
    /\ ws \in [Agents -> Seq(Waits)]
    /\ wt \in [Waits -> WaitStatuses]
    /\ \A a \in Agents :
        /\ \A w : w \in ToSet(ws[a]) <=> w \in Waits /\ wt[w] = "waiting" /\ Owner[w] = a
        /\ IsInjective(ws[a])

LEMMA TakenOutOk ==
  ASSUME NEW ws, NEW wt, WaitersOk(ws, wt), NEW W, NEW wt2 \in [Waits -> WaitStatuses],
         \A w \in Waits : wt2[w] = "waiting" <=> w \notin W /\ wt[w] = "waiting"
  PROVE  WaitersOk(Without(ws, W), wt2)
<1>2. ASSUME NEW a \in Agents
      PROVE  /\ Without(ws, W)[a] \in Seq(Waits)
             /\ ToSet(Without(ws, W)[a]) = ToSet(ws[a]) \ W
             /\ IsInjective(Without(ws, W)[a])
  <2>1. ws[a] \in Seq(Waits) /\ IsInjective(ws[a])
    BY DEF WaitersOk
  <2>2. Without(ws, W)[a] = Rest(ws[a], W)
    BY DEF Without
  <2> QED
    BY <2>1, <2>2, RestIs
<1>3. Without(ws, W) \in [Agents -> Seq(Waits)]
  BY <1>2 DEF Without
<1>4. ASSUME NEW a \in Agents, NEW w
      PROVE  w \in ToSet(Without(ws, W)[a])
                <=> w \in Waits /\ wt2[w] = "waiting" /\ Owner[w] = a
  <2>1. w \in ToSet(ws[a]) <=> w \in Waits /\ wt[w] = "waiting" /\ Owner[w] = a
    BY DEF WaitersOk
  <2> QED
    BY <1>2, <2>1
<1> QED
  BY <1>2, <1>3, <1>4 DEF WaitersOk

LEMMA SettledOk ==
  ASSUME NEW ws, NEW wt, WaitersOk(ws, wt), NEW W,
         NEW outcome \in WaitStatuses, outcome # "waiting"
  PROVE  WaitersOk(Without(ws, W), [w \in Waits |-> IF w \in W THEN outcome ELSE wt[w]])
<1> DEFINE wt2 == [w \in Waits |-> IF w \in W THEN outcome ELSE wt[w]]
<1>1. /\ wt2 \in [Waits -> WaitStatuses]
      /\ \A w \in Waits : wt2[w] = "waiting" <=> w \notin W /\ wt[w] = "waiting"
  BY DEF WaitersOk
<1> HIDE DEF wt2
<1>2. WaitersOk(Without(ws, W), wt2)
  BY <1>1, TakenOutOk
<1> QED
  BY <1>2 DEF wt2

LEMMA JoinedOk ==
  ASSUME NEW ws, NEW wt, WaitersOk(ws, wt), NEW w \in Waits, wt[w] # "waiting"
  PROVE  WaitersOk([ws EXCEPT ![Owner[w]] = Append(@, w)], [wt EXCEPT ![w] = "waiting"])
<1> DEFINE a == Owner[w]
           ws2 == [ws EXCEPT ![a] = Append(@, w)]
           wt2 == [wt EXCEPT ![w] = "waiting"]
<1>1. a \in Agents /\ ws \in [Agents -> Seq(Waits)] /\ ws[a] \in Seq(Waits) /\ wt \in [Waits -> WaitStatuses]
  BY IrcBusAssumption DEF WaitersOk
<1>2. w \notin ToSet(ws[a]) /\ IsInjective(ws[a])
  BY <1>1 DEF WaitersOk
<1>3. /\ Append(ws[a], w) \in Seq(Waits)
      /\ ToSet(Append(ws[a], w)) = ToSet(ws[a]) \cup {w}
      /\ IsInjective(Append(ws[a], w))
  BY <1>1, <1>2, AppendedIs
<1>4. ws2 \in [Agents -> Seq(Waits)] /\ wt2 \in [Waits -> WaitStatuses]
  BY <1>1, <1>3 DEF WaitStatuses
<1>5. ASSUME NEW c \in Agents
      PROVE  /\ \A v : v \in ToSet(ws2[c]) <=> v \in Waits /\ wt2[v] = "waiting" /\ Owner[v] = c
             /\ IsInjective(ws2[c])
  <2>1. \A v : v \in ToSet(ws[c]) <=> v \in Waits /\ wt[v] = "waiting" /\ Owner[v] = c
    BY DEF WaitersOk
  <2>2. ws2[c] = IF c = a THEN Append(ws[a], w) ELSE ws[c]
    BY <1>1
  <2>3. \A v \in Waits : wt2[v] = IF v = w THEN "waiting" ELSE wt[v]
    BY <1>1
  <2>4. IsInjective(ws[c])
    BY DEF WaitersOk
  <2> HIDE DEF ws2, wt2
  <2>5. CASE c = a
    BY <1>3, <2>1, <2>2, <2>3, <2>5
  <2>6. CASE c # a
    BY <2>1, <2>2, <2>3, <2>4, <2>6
  <2> QED
    BY <2>5, <2>6
<1> QED
  BY <1>4, <1>5 DEF WaitersOk

LEMMA ServedOk ==
  ASSUME NEW ws, NEW wt, WaitersOk(ws, wt), NEW a \in Agents, NEW n \in DOMAIN ws[a]
  PROVE  /\ ws[a][n] \in Waits /\ wt[ws[a][n]] = "waiting" /\ Owner[ws[a][n]] = a
         /\ WaitersOk([ws EXCEPT ![a] = RemoveAt(@, n)], [wt EXCEPT ![ws[a][n]] = "message"])
<1> DEFINE w == ws[a][n]
           ws2 == [ws EXCEPT ![a] = RemoveAt(@, n)]
           wt2 == [wt EXCEPT ![w] = "message"]
<1>1. ws \in [Agents -> Seq(Waits)] /\ ws[a] \in Seq(Waits) /\ wt \in [Waits -> WaitStatuses]
  BY DEF WaitersOk
<1>2. w \in ToSet(ws[a]) /\ IsInjective(ws[a])
  BY DEF WaitersOk, ToSet
<1>3. w \in Waits /\ wt[w] = "waiting" /\ Owner[w] = a
  BY <1>2 DEF WaitersOk
<1>4. /\ RemoveAt(ws[a], n) \in Seq(Waits)
      /\ ToSet(RemoveAt(ws[a], n)) = ToSet(ws[a]) \ {w}
      /\ IsInjective(RemoveAt(ws[a], n))
  BY <1>1, <1>2, RemovedIs
<1>5. ws2 \in [Agents -> Seq(Waits)] /\ wt2 \in [Waits -> WaitStatuses]
  BY <1>1, <1>4 DEF WaitStatuses
<1>6. ASSUME NEW c \in Agents
      PROVE  /\ \A v : v \in ToSet(ws2[c]) <=> v \in Waits /\ wt2[v] = "waiting" /\ Owner[v] = c
             /\ IsInjective(ws2[c])
  <2>1. \A v : v \in ToSet(ws[c]) <=> v \in Waits /\ wt[v] = "waiting" /\ Owner[v] = c
    BY DEF WaitersOk
  <2>2. ws2[c] = IF c = a THEN RemoveAt(ws[a], n) ELSE ws[c]
    BY <1>1
  <2>3. \A v \in Waits : wt2[v] = IF v = w THEN "message" ELSE wt[v]
    BY <1>1
  <2>4. IsInjective(ws[c])
    BY DEF WaitersOk
  <2> HIDE DEF ws2, wt2, w
  <2>5. CASE c = a
    BY <1>3, <1>4, <2>1, <2>2, <2>3, <2>5
  <2>6. CASE c # a
    BY <1>3, <2>1, <2>2, <2>3, <2>4, <2>6
  <2> QED
    BY <2>5, <2>6
<1> QED
  BY <1>3, <1>5, <1>6 DEF WaitersOk

LEMMA ReadOk ==
  ASSUME NEW ws, NEW wt, WaitersOk(ws, wt), NEW w \in Waits, wt[w] # "waiting",
         NEW outcome \in WaitStatuses, outcome # "waiting"
  PROVE  WaitersOk(ws, [wt EXCEPT ![w] = outcome])
<1> DEFINE wt2 == [wt EXCEPT ![w] = outcome]
<1>1. wt \in [Waits -> WaitStatuses]
  BY DEF WaitersOk
<1>2. wt2 \in [Waits -> WaitStatuses] /\ \A v \in Waits : wt2[v] = "waiting" <=> wt[v] = "waiting"
  BY <1>1
<1> HIDE DEF wt2
<1>3. WaitersOk(ws, wt2)
  BY <1>2 DEF WaitersOk
<1> QED
  BY <1>3 DEF wt2

-----------------------------------------------------------------------------
(* Waits.                                                                  *)

(* What was returned was returned to a wait that is over; the wait of an   *)
(* ask is new until the message is sent.                                   *)
GotOk(wt) == \A w \in Waits : wt[w] # "message" => got[w] = NoMessage

AskOk(wt, M) ==
    \A m \in M : stage[m] = "unsent" /\ AskWait[m] # NoWait => wt[AskWait[m]] = "new"

(* Relays are owed for messages that have one.                             *)
Answerable == {m \in Messages : RelayOf[m] # NoMessage}

OwedOk ==
    \A a \in Agents :
        owed[a] \subseteq Answerable /\ \A t \in due[a] : t.todo \subseteq Answerable

WaitInv ==
    /\ TypeOK /\ OwedOk
    /\ WaitersOk(waiters, wait)
    /\ GotOk(wait)
    /\ AskOk(wait, Messages)

(* What the synchronous part of a send hands to the rest of it.            *)
Ready(m, b) ==
    /\ stage[m] \in {"unsent", "passed", "gate"}
    /\ WaitersOk(b.waiters, b.wait)
    /\ GotOk(b.wait)
    /\ AskOk(b.wait, Messages \ {m})
    /\ \A w \in Asks : b.wait[w] = "stopped" => wait[w] # "waiting"

LEMMA NowReady ==
  ASSUME WaitInv, NEW m \in Messages, stage[m] \in {"unsent", "passed", "gate"}
  PROVE  Ready(m, Now) /\ Now.waiters = waiters /\ Now.wait = wait
BY DEF WaitInv, Ready, Now, GotOk, AskOk, TypeOK

LEMMA RelayedIs ==
  ASSUME due \in [Agents -> SUBSET WakeTurns], NEW m \in Messages
  PROVE  /\ Relayed(m) \in [Agents -> SUBSET WakeTurns]
         /\ \A a \in Agents : \A t \in Relayed(m)[a] : \E u \in due[a] : t.todo \subseteq u.todo
<1> DEFINE left(t) == [t EXCEPT !.todo = {q \in @ : RelayOf[q] # m}]
<1>1. From[m] \in Agents
  BY IrcBusAssumption
<1>2. \A t \in WakeTurns : left(t) \in WakeTurns /\ left(t).todo \subseteq t.todo
  BY DEF WakeTurns
<1> HIDE DEF left
<1>3. Relayed(m) = [due EXCEPT ![From[m]] = {left(t) : t \in due[From[m]]}]
  BY DEF Relayed, left
<1>4. due[From[m]] \subseteq WakeTurns
  BY <1>1
<1>5. {left(t) : t \in due[From[m]]} \subseteq WakeTurns
  BY <1>2, <1>4
<1> QED
  BY <1>1, <1>2, <1>3, <1>4, <1>5

(* What send() leaves of the relays that are due.                          *)
LEMMA RelayedOk ==
  ASSUME WaitInv, NEW m \in Messages, due' = Relayed(m), owed' = owed
  PROVE  OwedOk' /\ due' \in [Agents -> SUBSET WakeTurns]
BY RelayedIs DEF WaitInv, TypeOK, OwedOk

LEMMA SentOk ==
  ASSUME WaitInv, NEW m \in Messages, Settled(m, "ok"), owed' = owed
  PROVE  /\ OwedOk' /\ due' \in [Agents -> SUBSET WakeTurns]
         /\ receipt' = [receipt EXCEPT ![m] = "ok"]
         /\ receipt' \in [Messages -> {"none", "ok", "failed"}]
         /\ lastSent' \in [Adopted -> [Agents -> Messages \cup {NoMessage}]]
<1>1. due' = Relayed(m) /\ receipt' = [receipt EXCEPT ![m] = "ok"]
  BY DEF Settled
<1>2. OwedOk' /\ due' \in [Agents -> SUBSET WakeTurns]
  BY <1>1, RelayedOk
<1>3. lastSent' \in [Adopted -> [Agents -> Messages \cup {NoMessage}]]
  BY IrcBusAssumption DEF Settled, WaitInv, TypeOK
<1> QED
  BY <1>1, <1>2, <1>3 DEF WaitInv, TypeOK

(* What wakes a session is in its conversation; what it owes is answerable. *)
LEMMA WakersAre ==
  ASSUME NEW records \in Seq(Messages)
  PROVE  /\ ToSet(records) \subseteq Messages
         /\ Wakers(records) \subseteq ToSet(records) \cap Answerable
<1>1. \A n \in DOMAIN records : records[n] \in Messages
  OBVIOUS
<1>2. ToSet(records) = {records[n] : n \in DOMAIN records}
  BY DEF ToSet
<1> QED
  BY <1>1, <1>2 DEF Wakers, Answerable

LEMMA WakeOk ==
  ASSUME WaitInv, NEW a \in Agents, NEW records \in Seq(Messages), WakeFor(a, records)
  PROVE  /\ phase' \in [Agents -> {"idle", "turn", "wake", "settling"}]
         /\ seen' = [seen EXCEPT ![a] = @ \cup ToSet(records)]
         /\ seen' \in [Agents -> SUBSET Messages]
         /\ owed' = [owed EXCEPT ![a] = Wakers(records)]
         /\ owed' \in [Agents -> SUBSET Messages]
         /\ \A c \in Agents : owed'[c] \subseteq Answerable
         /\ before' \in [Messages -> SUBSET Messages]
<1>1. /\ ToSet(records) \subseteq Messages
      /\ Wakers(records) \subseteq Messages /\ Wakers(records) \subseteq Answerable
  BY WakersAre
<1>2. \A c \in Agents : owed[c] \subseteq Answerable
  BY DEF WaitInv, OwedOk
<1>3. SentBy(a) \subseteq Messages
  BY DEF SentBy
<1>4. /\ seen' = [seen EXCEPT ![a] = @ \cup ToSet(records)]
      /\ owed' = [owed EXCEPT ![a] = Wakers(records)]
      /\ phase' = [phase EXCEPT ![a] = IF a \in Adopted THEN "wake" ELSE "turn"]
      /\ before' = [m \in Messages |-> IF m \in Wakers(records) THEN SentBy(a) ELSE before[m]]
  BY DEF WakeFor
<1>5. /\ phase \in [Agents -> {"idle", "turn", "wake", "settling"}]
      /\ seen \in [Agents -> SUBSET Messages] /\ owed \in [Agents -> SUBSET Messages]
      /\ before \in [Messages -> SUBSET Messages]
  BY DEF WaitInv, TypeOK
<1> QED
  BY <1>1, <1>2, <1>3, <1>4, <1>5

(* The wake turn that is over is one more whose relays are due.            *)
LEMMA TurnOverOk ==
  ASSUME WaitInv, NEW a \in Agents, NEW failed \in BOOLEAN, TurnOver(a, failed)
  PROVE  /\ owed' \in [Agents -> SUBSET Messages] /\ due' \in [Agents -> SUBSET WakeTurns]
         /\ OwedOk'
<1>1. /\ owed \in [Agents -> SUBSET Messages] /\ due \in [Agents -> SUBSET WakeTurns]
      /\ OwedOk
  BY DEF WaitInv, TypeOK
<1>2. owed' = [owed EXCEPT ![a] = {}]
  BY DEF TurnOver
<1> DEFINE t == [todo |-> owed[a], failed |-> failed]
<1>3. t \in WakeTurns /\ t.todo = owed[a]
  BY <1>1 DEF WakeTurns
<1> HIDE DEF t
<1>4. CASE phase[a] = "wake"
  <2>1. due' = [due EXCEPT ![a] = @ \cup {t}]
    BY <1>4 DEF TurnOver, t
  <2> QED
    BY <1>1, <1>2, <1>3, <2>1 DEF OwedOk
<1>5. CASE phase[a] # "wake"
  <2>1. due' = due
    BY <1>5 DEF TurnOver
  <2> QED
    BY <1>1, <1>2, <2>1 DEF OwedOk
<1> QED
  BY <1>4, <1>5

(* Waits that end with the turn of their owner, and with that of the peer. *)
LEMMA StopsOk ==
  ASSUME WaitInv, NEW a \in Agents, NEW askers \in SUBSET AskersOf(a),
         NEW aborted \in SUBSET WaitingOf(a), Stops(a, askers, aborted),
         got' = got, stage' = stage
  PROVE  /\ WaitersOk(waiters, wait)' /\ GotOk(wait)' /\ AskOk(wait, Messages)'
         /\ waiters' \in [Agents -> Seq(Waits)] /\ wait' \in [Waits -> WaitStatuses]
         /\ ended' \subseteq Asks /\ told' \subseteq Asks
<1> DEFINE now == IF OwesReplies(a) THEN {} ELSE askers
<1>1. /\ wait' = [w \in Waits |-> IF w \in aborted THEN "aborted"
                                  ELSE IF w \in now THEN "stopped" ELSE wait[w]]
      /\ waiters' = Without(waiters, aborted \cup now)
      /\ told' = told \cup {w \in now : QuestionRead(w)}
      /\ ended' = ended \cup (askers \ now)
  BY DEF Stops, SettleBoth
<1>2. now \subseteq askers /\ askers \subseteq Asks
  BY DEF AskersOf
<1>3. \A w \in aborted \cup now : wait[w] = "waiting"
  BY DEF AskersOf, WaitingOf
<1> HIDE DEF now
<1>4. WaitersOk(waiters, wait) /\ wait \in [Waits -> WaitStatuses]
  BY DEF WaitInv, WaitersOk
<1>5. wait' \in [Waits -> WaitStatuses]
  BY <1>1, <1>4 DEF WaitStatuses
<1>6. \A w \in Waits : wait'[w] = "waiting" <=> w \notin aborted \cup now /\ wait[w] = "waiting"
  BY <1>1
<1>7. WaitersOk(waiters', wait')
  BY <1>1, <1>4, <1>5, <1>6, TakenOutOk
<1>8. GotOk(wait)'
  BY <1>1, <1>3 DEF WaitInv, GotOk
<1>9. AskOk(wait, Messages)'
  <2>1. \A m \in Messages : AskWait[m] # NoWait => AskWait[m] \in Waits
    BY IrcBusAssumption
  <2> QED
    BY <1>1, <1>3, <2>1 DEF WaitInv, AskOk
<1> QED
  BY <1>1, <1>2, <1>5, <1>7, <1>8, <1>9 DEF WaitersOk, WaitInv, TypeOK

LEMMA FailsOk ==
  ASSUME WaitInv, NEW m \in Messages, NEW b, Ready(m, b), Fails(m, b)
  PROVE  /\ WaitersOk(waiters', wait')
         /\ \A w \in Waits : wait'[w] # "message" => got[w] = NoMessage
         /\ AskOk(wait', Messages \ {m})
         /\ \A w \in Asks : wait'[w] = "stopped" => wait[w] # "waiting"
         /\ receipt' = [receipt EXCEPT ![m] = "failed"] /\ lastSent' = lastSent
         /\ due' = Relayed(m)
         /\ lost' \subseteq Messages
<1> DEFINE w == AskWait[m]
<1>1. receipt' = [receipt EXCEPT ![m] = "failed"] /\ lastSent' = lastSent /\ due' = Relayed(m)
  BY DEF Fails, Settled
<1>2. CASE w # NoWait /\ b.wait[w] = "waiting"
  <2>1. w \in Waits
    BY <1>2, IrcBusAssumption
  <2>2. waiters' = Without(b.waiters, {w}) /\ wait' = [b.wait EXCEPT ![w] = "aborted"] /\ lost' = lost
    BY <1>2 DEF Fails
  <2>3. b.wait \in [Waits -> WaitStatuses]
    BY DEF Ready, WaitersOk
  <2>4. wait' = [v \in Waits |-> IF v \in {w} THEN "aborted" ELSE b.wait[v]]
    BY <2>2, <2>3
  <2>5. WaitersOk(waiters', wait')
    <3>1. WaitersOk(b.waiters, b.wait) /\ "aborted" \in WaitStatuses
      BY DEF Ready, WaitStatuses
    <3>2. WaitersOk(Without(b.waiters, {w}), [v \in Waits |-> IF v \in {w} THEN "aborted" ELSE b.wait[v]])
      BY <3>1, SettledOk
    <3> QED
      BY <2>2, <2>4, <3>2
  <2>6. \A v \in Waits : wait'[v] # "message" => got[v] = NoMessage
    BY <1>2, <2>4 DEF Ready, GotOk
  <2>7. \A n \in Messages \ {m} : AskWait[n] # NoWait => AskWait[n] # w /\ AskWait[n] \in Waits
    BY <1>2, IrcBusAssumption
  <2>8. AskOk(wait', Messages \ {m})
    BY <2>4, <2>7 DEF Ready, AskOk
  <2>9. \A v \in Asks : wait'[v] = "stopped" => wait[v] # "waiting"
    <3>1. Asks \subseteq Waits
      BY IrcBusAssumption DEF Asks
    <3> QED
      BY <2>4, <3>1 DEF Ready
  <2> QED
    BY <1>1, <2>2, <2>5, <2>6, <2>8, <2>9 DEF WaitInv, TypeOK
<1>3. CASE ~(w # NoWait /\ b.wait[w] = "waiting")
  <2>1. waiters' = b.waiters /\ wait' = b.wait
    BY <1>3 DEF Fails, Keep
  <2>2. lost' \subseteq Messages
    BY <1>3, IrcBusAssumption DEF Fails, WaitInv, TypeOK
  <2> QED
    BY <1>1, <2>1, <2>2 DEF Ready, GotOk
<1> QED
  BY <1>2, <1>3

(* The oldest waiter that matches is one that waits.                       *)
LEMMA OldestWaits ==
  ASSUME NEW m \in Messages, NEW b, Ready(m, b), Matching(m, b) # {}
  PROVE  (CHOOSE k \in Matching(m, b) : \A l \in Matching(m, b) : k <= l)
            \in DOMAIN b.waiters[To[m]]
<1>1. Matching(m, b) \subseteq DOMAIN b.waiters[To[m]]
  BY DEF Matching
<1>2. b.waiters[To[m]] \in Seq(Waits)
  BY IrcBusAssumption DEF Ready, WaitersOk
<1>3. Matching(m, b) \in SUBSET Nat
  BY <1>1, <1>2
<1>4. \E k \in Matching(m, b) : \A l \in Matching(m, b) : k <= l
  BY <1>3, Least
<1> QED
  BY <1>1, <1>4

LEMMA FirstIsReadable ==
  ASSUME NEW w, NEW S, NEW s \in Seq(S), Readable(w, s) # {}
  PROVE  FirstOf(w, s) \in DOMAIN s
<1>1. Readable(w, s) \in SUBSET Nat /\ Readable(w, s) \subseteq DOMAIN s
  BY DEF Readable
<1>2. \E k \in Readable(w, s) : \A l \in Readable(w, s) : k <= l
  BY <1>1, Least
<1> QED
  BY <1>1, <1>2 DEF FirstOf

(* A message that leaves with the waits and the wait of the state b.       *)
LEMMA LeavesOk ==
  ASSUME WaitInv, NEW m \in Messages, NEW b, Ready(m, b),
         Refuse(m, b) \/ AwaitLive(m, b) \/ HandOver(m, b)
            \/ (Fails(m, b) /\ stage' = [stage EXCEPT ![m] = "refused"]
                  /\ UNCHANGED <<session, before, mailbox, got, verdicts, taken>>)
  PROVE  /\ WaitInv'
         /\ \A w \in Asks : wait'[w] = "stopped" => wait[w] # "waiting"
<1> DEFINE a == To[m]
           Goal == /\ WaitInv'
                   /\ \A w \in Asks : wait'[w] = "stopped" => wait[w] # "waiting"
<1>0. a \in Agents /\ m \in Messages /\ Asks \subseteq Waits
  BY IrcBusAssumption DEF Asks
<1>a. ASSUME stage' = [stage EXCEPT ![m] = stage'[m]], stage'[m] # "unsent",
             AskOk(wait', Messages \ {m})
      PROVE  AskOk(wait, Messages)'
  <2>1. stage \in [Messages -> {"unsent", "gate", "passed", "bounced", "refused", "out"}]
    BY DEF WaitInv, TypeOK
  <2>2. \A k \in Messages \ {m} : stage'[k] = stage[k]
    BY <1>a, <2>1
  <2> QED
    BY <1>a, <2>2 DEF AskOk
<1>1. ASSUME Fails(m, b), stage' = [stage EXCEPT ![m] = "refused"],
             UNCHANGED <<session, before, mailbox, got, verdicts, taken>>
      PROVE  Goal
  <2>1. /\ WaitersOk(waiters', wait')
        /\ \A w \in Waits : wait'[w] # "message" => got[w] = NoMessage
        /\ AskOk(wait', Messages \ {m})
        /\ \A w \in Asks : wait'[w] = "stopped" => wait[w] # "waiting"
        /\ receipt' = [receipt EXCEPT ![m] = "failed"] /\ lastSent' = lastSent
        /\ due' = Relayed(m)
        /\ lost' \subseteq Messages
    BY <1>1, FailsOk
  <2>2. AskOk(wait, Messages)'
    BY <1>1, <1>a, <2>1 DEF WaitInv, TypeOK
  <2>3. OwedOk' /\ due' \in [Agents -> SUBSET WakeTurns]
    BY <1>1, <2>1, RelayedOk DEF session
  <2>4. TypeOK'
    BY <1>1, <2>1, <2>3 DEF TypeOK, WaitInv, Ready, WaitersOk, WaitStatuses, session, verdicts
  <2> QED
    BY <1>1, <2>1, <2>2, <2>3, <2>4 DEF WaitInv, GotOk
<1>2. ASSUME waiters' = b.waiters, wait' = b.wait,
             stage' = [stage EXCEPT ![m] = stage'[m]], stage'[m] # "unsent",
             got' = got, OwedOk', TypeOK'
      PROVE  Goal
  <2>1. AskOk(wait, Messages)'
    BY <1>2, <1>a DEF Ready
  <2> QED
    BY <1>2, <2>1 DEF WaitInv, GotOk, OwedOk, Ready
<1>3. CASE Refuse(m, b)
  BY <1>1, <1>3 DEF Refuse
<1>4. CASE AwaitLive(m, b)
  <2>1. TypeOK'
    BY <1>4 DEF AwaitLive, Keep, TypeOK, WaitInv, Ready, WaitersOk, WaitStatuses, session, replies,
          receipts, verdicts
  <2>2. OwedOk' /\ got' = got
    BY <1>4 DEF AwaitLive, WaitInv, OwedOk, session, replies
  <2> QED
    BY <1>2, <1>4, <2>1, <2>2 DEF AwaitLive, Keep, WaitInv, TypeOK
<1>5. CASE ToWaiter(m, b)
  <2> DEFINE n == CHOOSE k \in Matching(m, b) : \A l \in Matching(m, b) : k <= l
             w == b.waiters[a][n]
  <2>1. n \in DOMAIN b.waiters[a]
    BY <1>5, OldestWaits DEF ToWaiter
  <2>2. /\ wait' = [b.wait EXCEPT ![w] = "message"]
        /\ waiters' = [b.waiters EXCEPT ![a] = RemoveAt(@, n)]
        /\ got' = [got EXCEPT ![w] = m]
        /\ stage' = [stage EXCEPT ![m] = "out"]
        /\ Settled(m, "ok")
        /\ UNCHANGED <<session, before, mailbox, verdicts, taken, lost>>
    BY <1>5 DEF ToWaiter
  <2> HIDE DEF n
  <2>3. /\ w \in Waits /\ b.wait[w] = "waiting" /\ Owner[w] = a
        /\ WaitersOk(waiters', wait')
    <3>1. WaitersOk(b.waiters, b.wait)
      BY DEF Ready
    <3>2. /\ w \in Waits /\ b.wait[w] = "waiting" /\ Owner[w] = a
          /\ WaitersOk([b.waiters EXCEPT ![a] = RemoveAt(@, n)], [b.wait EXCEPT ![w] = "message"])
      BY <1>0, <2>1, <3>1, ServedOk
    <3> QED
      BY <2>2, <3>2
  <2> HIDE DEF w
  <2>4. b.wait \in [Waits -> WaitStatuses]
    BY DEF Ready, WaitersOk
  <2>5. AskOk(wait', Messages \ {m})
    <3>1. \A k \in Messages : AskWait[k] # NoWait => AskWait[k] \in Waits
      BY IrcBusAssumption
    <3> QED
      BY <2>2, <2>3, <2>4, <3>1 DEF Ready, AskOk
  <2>6. AskOk(wait, Messages)'
    BY <1>a, <2>2, <2>5 DEF WaitInv, TypeOK
  <2>10. /\ OwedOk' /\ due' \in [Agents -> SUBSET WakeTurns]
         /\ receipt' \in [Messages -> {"none", "ok", "failed"}]
         /\ lastSent' \in [Adopted -> [Agents -> Messages \cup {NoMessage}]]
    BY <2>2, SentOk DEF session
  <2>7. TypeOK'
    BY <2>2, <2>3, <2>10 DEF TypeOK, WaitInv, WaitersOk, WaitStatuses, session, verdicts
  <2>8. GotOk(wait)'
    BY <2>2, <2>3, <2>4 DEF WaitInv, TypeOK, GotOk, Ready
  <2>9. \A v \in Asks : wait'[v] = "stopped" => wait[v] # "waiting"
    BY <1>0, <2>2, <2>3, <2>4 DEF Ready
  <2> QED
    BY <2>2, <2>3, <2>6, <2>7, <2>8, <2>9, <2>10 DEF WaitInv
<1>6. CASE NoSession(m, b)
  BY <1>1, <1>6 DEF NoSession
<1>7. CASE ToDying(m, b)
  <2>1. TypeOK'
    BY <1>7 DEF ToDying, Keep, TypeOK, WaitInv, Ready, WaitersOk, WaitStatuses, session, replies,
          receipts, verdicts
  <2>2. OwedOk' /\ got' = got
    BY <1>7 DEF ToDying, WaitInv, OwedOk, session, replies
  <2> QED
    BY <1>2, <1>7, <2>1, <2>2 DEF ToDying, Keep, WaitInv, TypeOK
<1>8. CASE ToBusy(m, b)
  <2>1. pending' \in [Agents -> Seq(Messages)]
    BY <1>0, <1>8 DEF ToBusy, WaitInv, TypeOK
  <2>2. /\ OwedOk' /\ due' \in [Agents -> SUBSET WakeTurns]
        /\ receipt' \in [Messages -> {"none", "ok", "failed"}]
        /\ lastSent' \in [Adopted -> [Agents -> Messages \cup {NoMessage}]]
    BY <1>8, SentOk DEF ToBusy
  <2>3. TypeOK'
    BY <1>8, <2>1, <2>2 DEF ToBusy, Keep, TypeOK, WaitInv, Ready, WaitersOk, WaitStatuses,
          MailboxAfterHandOff, verdicts
  <2>4. stage' = [stage EXCEPT ![m] = "out"] /\ stage'[m] = "out"
    BY <1>8 DEF ToBusy, WaitInv, TypeOK
  <2>5. waiters' = b.waiters /\ wait' = b.wait /\ got' = got
    BY <1>8 DEF ToBusy, Keep
  <2> QED
    BY <1>2, <2>2, <2>3, <2>4, <2>5
<1>9. CASE ToIdle(m, b)
  <2>1. <<m>> \in Seq(Messages) /\ WakeFor(a, <<m>>)
    BY <1>9 DEF ToIdle
  <2>2. /\ phase' \in [Agents -> {"idle", "turn", "wake", "settling"}]
        /\ seen' \in [Agents -> SUBSET Messages] /\ owed' \in [Agents -> SUBSET Messages]
        /\ \A c \in Agents : owed'[c] \subseteq Answerable
        /\ before' \in [Messages -> SUBSET Messages]
    BY <1>0, <2>1, WakeOk
  <2>3. due' = Relayed(m) /\ due \in [Agents -> SUBSET WakeTurns]
    BY <1>9 DEF ToIdle, Settled, WaitInv, TypeOK
  <2>4. /\ due' \in [Agents -> SUBSET WakeTurns]
        /\ \A c \in Agents : \A t \in due'[c] : \E u \in due[c] : t.todo \subseteq u.todo
    BY <2>3, RelayedIs
  <2>5. OwedOk'
    BY <2>2, <2>4 DEF WaitInv, OwedOk
  <2>6. /\ receipt' \in [Messages -> {"none", "ok", "failed"}]
        /\ lastSent' \in [Adopted -> [Agents -> Messages \cup {NoMessage}]]
    BY <1>9, IrcBusAssumption DEF ToIdle, Settled, WaitInv, TypeOK
  <2>7. TypeOK'
    BY <1>0, <1>9, <2>2, <2>4, <2>6 DEF ToIdle, Keep, TypeOK, WaitInv, Ready, WaitersOk,
          WaitStatuses, verdicts
  <2>8. AskOk(wait, Messages)'
    BY <1>9, <1>a DEF ToIdle, Keep, Ready, WaitInv, TypeOK
  <2> QED
    BY <1>9, <2>5, <2>7, <2>8 DEF ToIdle, Keep, WaitInv, GotOk, Ready
<1> QED
  BY <1>1, <1>3, <1>4, <1>5, <1>6, <1>7, <1>8, <1>9 DEF HandOver

(* A send, up to its first await.                                          *)
LEMMA SubmitOk ==
  ASSUME WaitInv, NEW m \in Messages, NEW b, Ready(m, b), Submit(m, b)
  PROVE  /\ WaitInv'
         /\ \A w \in Asks : wait'[w] = "stopped" => wait[w] # "waiting"
BY LeavesOk DEF Submit

(* The wait an ask begins with.                                            *)
AskContext(m) ==
    LET w == AskWait[m] IN
    IF Gone(To[m])
    THEN [Now EXCEPT !.wait[w] = "stopped"]
    ELSE [Now EXCEPT !.wait[w] = "waiting", !.waiters[From[m]] = Append(@, w)]

LEMMA AskReady ==
  ASSUME WaitInv, NEW m \in Messages, stage[m] = "unsent", AskWait[m] # NoWait
  PROVE  Ready(m, AskContext(m))
<1> DEFINE w == AskWait[m]
           b == AskContext(m)
<1>1. w \in Waits /\ w \in Asks /\ Owner[w] = From[m] /\ wait[w] = "new"
  BY IrcBusAssumption DEF Asks, WaitInv, AskOk
<1>2. wait \in [Waits -> WaitStatuses] /\ waiters \in [Agents -> Seq(Waits)] /\ Asks \subseteq Waits
  BY IrcBusAssumption DEF WaitInv, WaitersOk, Asks
<1>3. \A k \in Messages \ {m} : AskWait[k] # NoWait => AskWait[k] # w /\ AskWait[k] \in Waits
  BY <1>1, IrcBusAssumption
<1>4. CASE Gone(To[m])
  <2>1. b.waiters = waiters /\ b.wait = [wait EXCEPT ![w] = "stopped"]
    BY <1>4 DEF AskContext, Now
  <2> HIDE DEF b
  <2>2. WaitersOk(b.waiters, b.wait)
    <3>1. WaitersOk(waiters, wait) /\ "stopped" \in WaitStatuses /\ wait[w] # "waiting"
      BY <1>1 DEF WaitInv, WaitStatuses
    <3>2. WaitersOk(waiters, [wait EXCEPT ![w] = "stopped"])
      BY <1>1, <3>1, ReadOk
    <3> QED
      BY <2>1, <3>2
  <2>3. GotOk(b.wait) /\ AskOk(b.wait, Messages \ {m})
    BY <1>1, <1>2, <1>3, <2>1 DEF WaitInv, GotOk, AskOk
  <2>4. \A v \in Asks : b.wait[v] = "stopped" => wait[v] # "waiting"
    BY <1>1, <1>2, <2>1
  <2>5. Ready(m, b)
    BY <2>1, <2>2, <2>3, <2>4 DEF Ready, WaitInv, TypeOK
  <2> QED
    BY <2>1, <2>5 DEF b
<1>5. CASE ~Gone(To[m])
  <2>1. /\ b.waiters = [waiters EXCEPT ![From[m]] = Append(@, w)]
        /\ b.wait = [wait EXCEPT ![w] = "waiting"]
    BY <1>5 DEF AskContext, Now
  <2> HIDE DEF b
  <2>2. WaitersOk(b.waiters, b.wait)
    <3>1. WaitersOk([waiters EXCEPT ![Owner[w]] = Append(@, w)], [wait EXCEPT ![w] = "waiting"])
      BY <1>1, JoinedOk DEF WaitInv
    <3> QED
      BY <1>1, <2>1, <3>1
  <2>3. GotOk(b.wait) /\ AskOk(b.wait, Messages \ {m})
    BY <1>1, <1>2, <1>3, <2>1 DEF WaitInv, GotOk, AskOk
  <2>4. \A v \in Asks : b.wait[v] = "stopped" => wait[v] # "waiting"
    BY <1>1, <1>2, <2>1
  <2>5. Ready(m, b)
    BY <2>1, <2>2, <2>3, <2>4 DEF Ready, WaitInv, TypeOK
  <2> QED
    BY <2>1, <2>5 DEF b
<1> QED
  BY <1>4, <1>5

LEMMA AskIs ==
  ASSUME NEW m \in Messages, Ask(m)
  PROVE  /\ Submit(m, AskContext(m)) /\ AskWait[m] # NoWait /\ MaySend(From[m])
         /\ stage[m] = "unsent"
BY DEF Ask, AskContext, Submit

(* Waits that end without a message.                                       *)
LEMMA SettleOk ==
  ASSUME WaitInv, NEW W, \A w \in W \cap Waits : wait[w] = "waiting",
         NEW outcome \in {"timeout", "aborted", "stopped"},
         SettleWaits(W, outcome), got' = got,
         \A m \in Messages : stage'[m] = "unsent" => stage[m] = "unsent"
  PROVE  /\ WaitersOk(waiters, wait)' /\ GotOk(wait)' /\ AskOk(wait, Messages)'
         /\ waiters' \in [Agents -> Seq(Waits)] /\ wait' \in [Waits -> WaitStatuses]
<1>1. /\ wait' = [w \in Waits |-> IF w \in W THEN outcome ELSE wait[w]]
      /\ waiters' = Without(waiters, W)
  BY DEF SettleWaits
<1>2. WaitersOk(Without(waiters, W), [w \in Waits |-> IF w \in W THEN outcome ELSE wait[w]])
  <2>1. WaitersOk(waiters, wait) /\ outcome \in WaitStatuses /\ outcome # "waiting"
    BY DEF WaitInv, WaitStatuses
  <2> QED
    BY <2>1, SettledOk
<1>3. WaitersOk(waiters', wait')
  BY <1>1, <1>2
<1>4. GotOk(wait)'
  BY <1>1 DEF WaitInv, GotOk
<1>5. AskOk(wait, Messages)'
  <2>1. \A m \in Messages : AskWait[m] # NoWait => AskWait[m] \in Waits
    BY IrcBusAssumption
  <2> QED
    BY <1>1, <2>1 DEF WaitInv, AskOk
<1> QED
  BY <1>3, <1>4, <1>5 DEF WaitersOk

LEMMA QuietOk ==
  ASSUME WaitInv, UNCHANGED <<waiters, wait, got>>,
         \A m \in Messages : stage'[m] = "unsent" => stage[m] = "unsent"
  PROVE  WaitersOk(waiters, wait)' /\ GotOk(wait)' /\ AskOk(wait, Messages)'
BY DEF WaitInv, GotOk, AskOk

LEMMA HubWaitOk ==
  ASSUME WaitInv, NEW w \in Waits, HubWait(w)
  PROVE  WaitInv'
<1> DEFINE a == Owner[w]
           p == pending[a]
           b == mailbox[a]
<1>1. /\ a \in Agents /\ p \in Seq(Messages) /\ b \in Seq(Messages) /\ Len(b) <= Cap /\ Cap \in Nat
      /\ wait \in [Waits -> WaitStatuses] /\ WaitersOk(waiters, wait)
  BY IrcBusAssumption DEF WaitInv, TypeOK, WaitersOk
<1>2. /\ wait[w] = "new" /\ w \notin Asks
      /\ UNCHANGED <<ref, sess, phase, owed, seen, replies, stage, receipts, verdicts, taken, lost>>
  BY DEF HubWait
<1>3. AskOk(wait, Messages)' /\ OwedOk'
      /\ ((got' = [got EXCEPT ![w] = got'[w]] /\ wait'[w] = "message") \/ got' = got => GotOk(wait)')
  <2>1. wait' = [wait EXCEPT ![w] = "message"] \/ wait' = [wait EXCEPT ![w] = "waiting"]
    BY DEF HubWait
  <2>2. \A m \in Messages : AskWait[m] # NoWait => AskWait[m] \in Waits /\ AskWait[m] # w
    BY <1>2, IrcBusAssumption DEF Asks
  <2>3. AskOk(wait, Messages)'
    BY <1>1, <1>2, <2>1, <2>2 DEF WaitInv, AskOk
  <2>4. got' = got => GotOk(wait)'
    BY <1>1, <1>2, <2>1 DEF WaitInv, GotOk
  <2>5. got' = [got EXCEPT ![w] = got'[w]] /\ wait'[w] = "message" => GotOk(wait)'
    BY <1>1, <1>2, <2>1 DEF WaitInv, GotOk, TypeOK
  <2>6. OwedOk'
    BY <1>2 DEF WaitInv, OwedOk, replies
  <2> QED
    BY <2>3, <2>4, <2>5, <2>6
<1>4. ASSUME NEW m \in Messages, got' = [got EXCEPT ![w] = m], wait' = [wait EXCEPT ![w] = "message"],
             UNCHANGED waiters, pending' \in [Agents -> Seq(Messages)],
             mailbox' \in [Agents -> Seq(Messages)], \A c \in Agents : Len(mailbox'[c]) <= Cap
      PROVE  WaitInv'
  <2>1. WaitersOk(waiters, [wait EXCEPT ![w] = "message"])
    BY <1>1, <1>2, ReadOk DEF WaitStatuses
  <2>2. WaitersOk(waiters, wait)'
    BY <1>4, <2>1
  <2>3. TypeOK'
    BY <1>1, <1>2, <1>4 DEF WaitInv, TypeOK, replies, receipts, verdicts
  <2>4. GotOk(wait)'
    BY <1>1, <1>3, <1>4 DEF WaitInv, TypeOK
  <2> QED
    BY <1>3, <2>2, <2>3, <2>4 DEF WaitInv
<1>5. \A s \in Seq(Messages) : \A n \in DOMAIN s :
         s[n] \in Messages /\ RemoveAt(s, n) \in Seq(Messages) /\ Len(RemoveAt(s, n)) = Len(s) - 1
  BY RemovedAt
<1>6. CASE Readable(w, p) # {}
  <2>1. FirstOf(w, p) \in DOMAIN p
    BY <1>1, <1>6, FirstIsReadable
  <2>2. /\ got' = [got EXCEPT ![w] = p[FirstOf(w, p)]]
        /\ pending' = [pending EXCEPT ![a] = RemoveAt(p, FirstOf(w, p))]
        /\ wait' = [wait EXCEPT ![w] = "message"]
        /\ UNCHANGED <<mailbox, waiters>>
    BY <1>6 DEF HubWait, TakeOut
  <2>3. p[FirstOf(w, p)] \in Messages /\ RemoveAt(p, FirstOf(w, p)) \in Seq(Messages)
    BY <1>1, <1>5, <2>1
  <2> HIDE DEF p, a
  <2> QED
    BY <1>1, <1>4, <2>2, <2>3 DEF WaitInv, TypeOK
<1>7. CASE Readable(w, p) = {} /\ Readable(w, b) # {}
  <2>1. FirstOf(w, b) \in DOMAIN b
    BY <1>1, <1>7, FirstIsReadable
  <2>2. /\ got' = [got EXCEPT ![w] = b[FirstOf(w, b)]]
        /\ mailbox' = [mailbox EXCEPT ![a] = RemoveAt(b, FirstOf(w, b))]
        /\ wait' = [wait EXCEPT ![w] = "message"]
        /\ UNCHANGED <<pending, waiters>>
    BY <1>7 DEF HubWait, TakeOut
  <2>3. /\ b[FirstOf(w, b)] \in Messages /\ RemoveAt(b, FirstOf(w, b)) \in Seq(Messages)
        /\ Len(RemoveAt(b, FirstOf(w, b))) <= Cap
    BY <1>1, <1>5, <2>1
  <2>4. /\ mailbox' \in [Agents -> Seq(Messages)]
        /\ \A c \in Agents : Len(mailbox'[c]) <= Cap
    BY <1>1, <2>2, <2>3 DEF WaitInv, TypeOK
  <2> HIDE DEF b, p, a
  <2> QED
    BY <1>1, <1>4, <2>2, <2>3, <2>4 DEF WaitInv, TypeOK
<1>8. CASE Readable(w, p) = {} /\ Readable(w, b) = {}
  <2>1. /\ waiters' = [waiters EXCEPT ![a] = Append(@, w)]
        /\ wait' = [wait EXCEPT ![w] = "waiting"]
        /\ UNCHANGED <<got, pending, mailbox>>
    BY <1>8 DEF HubWait
  <2>2. WaitersOk([waiters EXCEPT ![Owner[w]] = Append(@, w)], [wait EXCEPT ![w] = "waiting"])
    BY <1>1, <1>2, JoinedOk
  <2>3. WaitersOk(waiters, wait)'
    BY <2>1, <2>2
  <2>4. TypeOK'
    BY <1>2, <2>1, <2>3 DEF WaitInv, TypeOK, WaitersOk, WaitStatuses, replies, receipts,
       verdicts
  <2> QED
    BY <1>3, <2>1, <2>3, <2>4 DEF WaitInv
<1> QED
  BY <1>6, <1>7, <1>8

LEMMA BounceOk ==
  ASSUME WaitInv, NEW m \in Messages, Bounce(m)
  PROVE  WaitInv'
<1> DEFINE a == To[m]
           mail == Append(mailbox[a], m)
           W == {AskWait[m]} \cap WaitingOf(From[m])
<1>1. a \in Agents /\ mailbox[a] \in Seq(Messages) /\ Len(mailbox[a]) <= Cap /\ Cap \in Nat
  BY IrcBusAssumption DEF WaitInv, TypeOK
<1>2. mail \in Seq(Messages) /\ Len(mail) = Len(mailbox[a]) + 1 /\ Len(mailbox[a]) \in Nat
  BY <1>1, AppendedIs
<1>3. Capped(mail) \in Seq(Messages) /\ Len(Capped(mail)) <= Cap
  <2>1. CASE Len(mail) > Cap
    <3>1. Len(mail) > 0
      BY <1>1, <1>2, <2>1
    <3>2. Tail(mail) \in Seq(Messages) /\ Len(Tail(mail)) = Len(mail) - 1
      BY <1>2, <3>1, TailIs
    <3> QED
      BY <1>1, <1>2, <2>1, <3>2 DEF Capped
  <2>2. CASE ~(Len(mail) > Cap)
    BY <1>1, <1>2, <2>2 DEF Capped
  <2> QED
    BY <2>1, <2>2
<1>4. /\ stage' = [stage EXCEPT ![m] = "out"]
      /\ mailbox' = [mailbox EXCEPT ![a] = Capped(mail)]
      /\ SettleWaits(W, "aborted")
      /\ Settled(m, "failed")
      /\ UNCHANGED <<session, before, got, verdicts, taken>>
  BY DEF Bounce
<1>5. lost' \subseteq Messages
  <2>1. ToSet(mail) \subseteq Messages
    BY <1>2 DEF ToSet
  <2>2. AskWait[m] # NoWait => got[AskWait[m]] \in Messages \cup {NoMessage}
    BY IrcBusAssumption DEF WaitInv, TypeOK
  <2> QED
    BY <2>1, <2>2 DEF Bounce, WaitInv, TypeOK
<1> HIDE DEF mail
<1>6. /\ mailbox' \in [Agents -> Seq(Messages)]
      /\ \A c \in Agents : Len(mailbox'[c]) <= Cap
  BY <1>1, <1>3, <1>4 DEF WaitInv, TypeOK
<1>7. /\ WaitersOk(waiters, wait)' /\ GotOk(wait)' /\ AskOk(wait, Messages)'
      /\ waiters' \in [Agents -> Seq(Waits)] /\ wait' \in [Waits -> WaitStatuses]
  <2>1. \A w \in W \cap Waits : wait[w] = "waiting"
    BY DEF WaitingOf
  <2>2. \A k \in Messages : stage'[k] = "unsent" => stage[k] = "unsent"
    BY <1>4 DEF WaitInv, TypeOK
  <2>3. got' = got /\ "aborted" \in {"timeout", "aborted", "stopped"}
    BY <1>4
  <2> HIDE DEF W
  <2> QED
    BY <1>4, <2>1, <2>2, <2>3, SettleOk
<1>9. OwedOk' /\ due' \in [Agents -> SUBSET WakeTurns]
  BY <1>4, RelayedOk DEF Settled, session
<1>8. TypeOK'
  BY <1>4, <1>5, <1>6, <1>7, <1>9 DEF WaitInv, TypeOK, Settled, session, verdicts, WaitStatuses
<1> QED
  BY <1>7, <1>8, <1>9 DEF WaitInv

LEMMA WaitEndsOk ==
  ASSUME WaitInv, NEW w \in Waits, NEW why \in {"timeout", "aborted"}, WaitEnds(w, why)
  PROVE  WaitInv'
<1>1. /\ wait[w] = "waiting" /\ SettleWaits({w}, why)
      /\ UNCHANGED <<session, replies, mailbox, stage, receipts, got, verdicts, taken, lost>>
  BY DEF WaitEnds
<1>2. /\ WaitersOk(waiters, wait)' /\ GotOk(wait)' /\ AskOk(wait, Messages)'
      /\ waiters' \in [Agents -> Seq(Waits)] /\ wait' \in [Waits -> WaitStatuses]
  BY <1>1, SettleOk
<1> QED
  BY <1>1, <1>2 DEF WaitInv, TypeOK, OwedOk, session, WaitStatuses, replies, receipts,
     verdicts

LEMMA VerdictOk ==
  ASSUME WaitInv, NEW w \in Waits, Verdict(w)
  PROVE  WaitInv'
<1> DEFINE W == {w} \cap WaitingOf(Owner[w])
<1>1. /\ SettleWaits(W, "stopped") /\ ended' = ended \ {w}
      /\ UNCHANGED <<session, replies, mailbox, stage, receipts, got, taken, lost>>
      /\ told' = told \cup {v \in W : QuestionRead(v)}
  BY DEF Verdict
<1>2. \A v \in W \cap Waits : wait[v] = "waiting"
  BY DEF WaitingOf
<1>4. W \subseteq {w} /\ w \in Asks
  BY DEF Verdict, WaitInv, TypeOK
<1> HIDE DEF W
<1>3. /\ WaitersOk(waiters, wait)' /\ GotOk(wait)' /\ AskOk(wait, Messages)'
      /\ waiters' \in [Agents -> Seq(Waits)] /\ wait' \in [Waits -> WaitStatuses]
  BY <1>1, <1>2, SettleOk
<1> QED
  BY <1>1, <1>3, <1>4 DEF WaitInv, TypeOK, OwedOk, session, WaitStatuses, replies, receipts

(* What a session reads, its pending records go to.                        *)
LEMMA TurnOk ==
  ASSUME WaitInv, NEW a \in Agents, Turn(a) \/ Inbox(a)
  PROVE  WaitInv'
<1>0. /\ pending \in [Agents -> Seq(Messages)] /\ mailbox \in [Agents -> Seq(Messages)]
      /\ <<>> \in Seq(Messages) /\ Len(<<>>) <= Cap
  BY IrcBusAssumption, EmptyIs DEF WaitInv, TypeOK
<1>1. \A c \in Agents : ToSet(pending[c]) \subseteq Messages /\ ToSet(mailbox[c]) \subseteq Messages
  BY <1>0 DEF ToSet
<1>3. CASE Prompt(a)
  <2>1. TypeOK' /\ OwedOk'
    BY <1>0, <1>1, <1>3 DEF Prompt, WaitInv, TypeOK, OwedOk, replies, receipts, verdicts
  <2> QED
    BY <1>3, <2>1, QuietOk DEF Prompt, WaitInv
<1>4. CASE StepBoundary(a)
  <2>1. TypeOK' /\ OwedOk'
    BY <1>0, <1>1, <1>4 DEF StepBoundary, WaitInv, TypeOK, OwedOk, replies, receipts, verdicts
  <2> QED
    BY <1>4, <2>1, QuietOk DEF StepBoundary, WaitInv
<1>5. ASSUME NEW failed \in BOOLEAN, EndTurn(a, failed)
      PROVE  WaitInv'
  <2> DEFINE askers == IF pending[a] = <<>> THEN AskersOf(a) ELSE {}
  <2>1. Stops(a, askers, {}) /\ TurnOver(a, failed) /\ got' = got /\ stage' = stage
    BY <1>5 DEF EndTurn
  <2>2. askers \in SUBSET AskersOf(a) /\ {} \in SUBSET WaitingOf(a)
    OBVIOUS
  <2> HIDE DEF askers
  <2>3. /\ WaitersOk(waiters, wait)' /\ GotOk(wait)' /\ AskOk(wait, Messages)'
        /\ waiters' \in [Agents -> Seq(Waits)] /\ wait' \in [Waits -> WaitStatuses]
        /\ ended' \subseteq Asks /\ told' \subseteq Asks
    BY <2>1, <2>2, StopsOk
  <2>4. /\ owed' \in [Agents -> SUBSET Messages] /\ due' \in [Agents -> SUBSET WakeTurns]
        /\ OwedOk'
    BY <2>1, TurnOverOk
  <2>5. TypeOK'
    BY <1>5, <2>3, <2>4 DEF EndTurn, WaitInv, TypeOK, WaitStatuses, receipts
  <2> QED
    BY <2>3, <2>4, <2>5 DEF WaitInv
<1>6. ASSUME NEW failed \in BOOLEAN, Abort(a, failed)
      PROVE  WaitInv'
  <2>1. /\ Stops(a, AskersOf(a), WaitingOf(a)) /\ TurnOver(a, failed)
        /\ got' = got /\ stage' = stage
    BY <1>6 DEF Abort
  <2>3. /\ WaitersOk(waiters, wait)' /\ GotOk(wait)' /\ AskOk(wait, Messages)'
        /\ waiters' \in [Agents -> Seq(Waits)] /\ wait' \in [Waits -> WaitStatuses]
        /\ ended' \subseteq Asks /\ told' \subseteq Asks
    BY <2>1, StopsOk
  <2>4. /\ owed' \in [Agents -> SUBSET Messages] /\ due' \in [Agents -> SUBSET WakeTurns]
        /\ OwedOk'
    BY <2>1, TurnOverOk
  <2>5. TypeOK'
    BY <1>6, <2>3, <2>4 DEF Abort, WaitInv, TypeOK, WaitStatuses, receipts
  <2> QED
    BY <2>3, <2>4, <2>5 DEF WaitInv
<1>7. CASE RelaysAreOut(a)
  <2>1. PICK t \in due[a] : due' = [due EXCEPT ![a] = @ \ {t}]
    BY <1>7 DEF RelaysAreOut
  <2>2. TypeOK' /\ OwedOk'
    BY <1>7, <2>1 DEF RelaysAreOut, WaitInv, TypeOK, OwedOk, receipts, verdicts
  <2> QED
    BY <1>7, <2>2, QuietOk DEF RelaysAreOut, WaitInv
<1>8. CASE Resume(a)
  <2>1. pending[a] \in Seq(Messages) /\ WakeFor(a, pending[a])
    BY <1>0, <1>8 DEF Resume
  <2>2. /\ phase' \in [Agents -> {"idle", "turn", "wake", "settling"}]
        /\ seen' \in [Agents -> SUBSET Messages] /\ owed' \in [Agents -> SUBSET Messages]
        /\ \A c \in Agents : owed'[c] \subseteq Answerable
        /\ before' \in [Messages -> SUBSET Messages]
    BY <2>1, WakeOk
  <2>3. TypeOK' /\ OwedOk'
    BY <1>0, <1>8, <2>2 DEF Resume, WaitInv, TypeOK, OwedOk, receipts, verdicts
  <2> QED
    BY <1>8, <2>3, QuietOk DEF Resume, WaitInv
<1>9. CASE NewSession(a)
  <2>1. TypeOK' /\ OwedOk'
    BY <1>0, <1>1, <1>9 DEF NewSession, WaitInv, TypeOK, OwedOk, replies, receipts, verdicts
  <2> QED
    BY <1>9, <2>1, QuietOk DEF NewSession, WaitInv
<1>10. CASE Inbox(a)
  <2>1. TypeOK' /\ OwedOk'
    BY <1>0, <1>1, <1>10 DEF Inbox, WaitInv, TypeOK, OwedOk, replies, receipts, verdicts
  <2> QED
    BY <1>10, <2>1, QuietOk DEF Inbox, WaitInv
<1> QED
  BY <1>3, <1>4, <1>5, <1>6, <1>7, <1>8, <1>9, <1>10 DEF Turn

LEMMA LifecycleOk ==
  ASSUME WaitInv, NEW a \in Agents, Lifecycle(a)
  PROVE  WaitInv'
<1>0. /\ pending \in [Agents -> Seq(Messages)] /\ <<>> \in Seq(Messages)
      /\ \A c \in Agents : ToSet(pending[c]) \subseteq Messages
  BY EmptyIs DEF WaitInv, TypeOK, ToSet
<1>1. CASE Park(a)
  <2>1. TypeOK' /\ OwedOk'
    BY <1>1 DEF Park, WaitInv, TypeOK, OwedOk, replies, receipts, verdicts
  <2> QED
    BY <1>1, <2>1, QuietOk DEF Park, WaitInv
<1>2. CASE Revive(a)
  <2>1. TypeOK' /\ OwedOk'
    BY <1>2 DEF Revive, WaitInv, TypeOK, OwedOk, replies, receipts, verdicts
  <2> QED
    BY <1>2, <2>1, QuietOk DEF Revive, WaitInv
<1>3. CASE Dispose(a)
  <2>1. /\ SettleWaits(WaitingOf(a), "aborted") /\ got' = got /\ stage' = stage
        /\ \A w \in WaitingOf(a) \cap Waits : wait[w] = "waiting"
    BY <1>3 DEF Dispose, WaitingOf
  <2>2. /\ WaitersOk(waiters, wait)' /\ GotOk(wait)' /\ AskOk(wait, Messages)'
        /\ waiters' \in [Agents -> Seq(Waits)] /\ wait' \in [Waits -> WaitStatuses]
    BY <2>1, SettleOk
  <2>3. PICK failed \in BOOLEAN : TurnOver(a, failed)
    BY <1>3 DEF Dispose
  <2>4. /\ owed' \in [Agents -> SUBSET Messages] /\ due' \in [Agents -> SUBSET WakeTurns]
        /\ OwedOk'
    BY <2>3, TurnOverOk
  <2>5. TypeOK'
    BY <1>0, <1>3, <2>2, <2>4 DEF Dispose, WaitInv, TypeOK, WaitStatuses, receipts, verdicts
  <2> QED
    BY <2>2, <2>4, <2>5 DEF WaitInv
<1>4. CASE Detach(a)
  <2>1. /\ SettleWaits(AskersOf(a), "stopped") /\ got' = got /\ stage' = stage
        /\ \A w \in AskersOf(a) \cap Waits : wait[w] = "waiting"
    BY <1>4 DEF Detach, AskersOf
  <2>2. /\ WaitersOk(waiters, wait)' /\ GotOk(wait)' /\ AskOk(wait, Messages)'
        /\ waiters' \in [Agents -> Seq(Waits)] /\ wait' \in [Waits -> WaitStatuses]
    BY <2>1, SettleOk
  <2>3. ref' \in [Agents -> {"live", "parked", "gone", "aborted"}]
    <3>1. PICK status \in {"gone", "aborted"} : ref' = [ref EXCEPT ![a] = status]
      BY <1>4 DEF Detach
    <3> QED
      BY <3>1 DEF WaitInv, TypeOK
  <2>4. TypeOK' /\ OwedOk'
    BY <1>4, <2>2, <2>3 DEF Detach, WaitInv, TypeOK, OwedOk, WaitStatuses, replies, receipts
  <2> QED
    BY <2>2, <2>4 DEF WaitInv
<1> QED
  BY <1>1, <1>2, <1>3, <1>4 DEF Lifecycle

(* Relays are messages.                                                    *)
LEMMA DueIs ==
  ASSUME WaitInv, NEW q \in Messages, NEW t \in due[To[q]], q \in t.todo
  PROVE  RelayOf[q] \in Messages /\ RelayOf[q] # NoMessage /\ To[q] \in Agents
BY IrcBusAssumption DEF WaitInv, TypeOK, OwedOk, Answerable

LEMMA SkipRelayOk ==
  ASSUME WaitInv, NEW q \in Messages, SkipRelay(q)
  PROVE  WaitInv'
<1>1. RelayOf[q] \in Messages
  BY DueIs DEF SkipRelay
<1>2. /\ due' = Relayed(RelayOf[q])
      /\ UNCHANGED <<session, before, mailbox, waiters, stage, receipts, wait, got, verdicts,
                     taken, lost>>
  BY DEF SkipRelay
<1>3. OwedOk' /\ due' \in [Agents -> SUBSET WakeTurns]
  BY <1>1, <1>2, RelayedOk DEF session
<1>4. TypeOK'
  BY <1>2, <1>3 DEF WaitInv, TypeOK, session, receipts, verdicts
<1> QED
  BY <1>2, <1>3, <1>4, QuietOk DEF WaitInv

LEMMA SendOk ==
  ASSUME WaitInv, NEW m \in Messages, Send(m) \/ Ask(m) \/ Relay(m)
  PROVE  /\ WaitInv'
         /\ \A w \in Asks : wait'[w] = "stopped" => wait[w] # "waiting"
<1> DEFINE Goal == /\ WaitInv'
                   /\ \A w \in Asks : wait'[w] = "stopped" => wait[w] # "waiting"
<1>1. ASSUME NEW k \in Messages, Submit(k, Now)
      PROVE  Goal
  <2>1. stage[k] \in {"unsent", "passed", "gate"}
    BY <1>1 DEF Submit
  <2>2. Ready(k, Now)
    BY <2>1, NowReady
  <2> QED
    BY <1>1, <2>2, SubmitOk
<1>2. CASE Send(m)
  BY <1>1, <1>2 DEF Send
<1>3. CASE Ask(m)
  BY <1>3, AskIs, AskReady, SubmitOk
<1>4. CASE Relay(m)
  <2>1. RelayOf[m] \in Messages
    BY <1>4, DueIs DEF Relay
  <2> QED
    BY <1>1, <1>4, <2>1 DEF Relay
<1> QED
  BY <1>2, <1>3, <1>4

LEMMA InFlightOk ==
  ASSUME WaitInv, NEW m \in Messages, GateOpens(m) \/ GateFails(m) \/ Proceed(m)
  PROVE  /\ WaitInv'
         /\ \A w \in Asks : wait'[w] = "stopped" => wait[w] # "waiting"
<1>1. CASE GateOpens(m)
  <2>1. TypeOK' /\ OwedOk' /\ UNCHANGED <<waiters, wait, got>>
    BY <1>1 DEF GateOpens, WaitInv, TypeOK, OwedOk, session, replies, receipts, verdicts
  <2>2. \A k \in Messages : stage'[k] = "unsent" => stage[k] = "unsent"
    BY <1>1 DEF GateOpens, WaitInv, TypeOK
  <2>3. WaitersOk(waiters, wait)' /\ GotOk(wait)' /\ AskOk(wait, Messages)'
    BY <2>1, <2>2, QuietOk
  <2>4. \A w \in Asks : wait'[w] = "stopped" => wait[w] # "waiting"
    BY <2>1
  <2> QED
    BY <2>1, <2>3, <2>4 DEF WaitInv
<1>2. CASE GateFails(m)
  <2>1. Ready(m, Now)
    BY <1>2, NowReady DEF GateFails
  <2> QED
    BY <1>2, <2>1, LeavesOk DEF GateFails
<1>3. CASE Proceed(m)
  <2>1. Ready(m, Now)
    BY <1>3, NowReady DEF Proceed
  <2> QED
    BY <1>3, <2>1, LeavesOk DEF Proceed
<1> QED
  BY <1>1, <1>2, <1>3

LEMMA InitWaitInv == Init => WaitInv
<1> SUFFICES ASSUME Init
             PROVE  WaitInv
  OBVIOUS
<1>1. TypeOK
  BY IrcBusAssumption, EmptyIs DEF Init, TypeOK
<1>2. WaitersOk(waiters, wait)
  BY EmptyIs DEF Init, WaitersOk, WaitStatuses
<1>3. GotOk(wait) /\ AskOk(wait, Messages) /\ OwedOk
  BY IrcBusAssumption DEF Init, GotOk, AskOk, OwedOk
<1> QED
  BY <1>1, <1>2, <1>3 DEF WaitInv

LEMMA NextWaitInv == WaitInv /\ [Next]_vars => WaitInv'
<1> SUFFICES ASSUME WaitInv, [Next]_vars
             PROVE  WaitInv'
  OBVIOUS
<1>1. ASSUME NEW m \in Messages, Send(m) \/ Ask(m) \/ SkipRelay(m) \/ Relay(m) \/ InFlight(m)
      PROVE  WaitInv'
  BY <1>1, SendOk, SkipRelayOk, InFlightOk, BounceOk DEF InFlight
<1>2. ASSUME NEW w \in Waits, HubWait(w) \/ TimeOut(w) \/ Interrupted(w) \/ NobodyRuns(w) \/ Verdict(w)
      PROVE  WaitInv'
  BY <1>2, HubWaitOk, WaitEndsOk, VerdictOk DEF TimeOut, Interrupted, NobodyRuns
<1>3. ASSUME NEW a \in Agents, Turn(a) \/ Inbox(a) \/ Lifecycle(a)
      PROVE  WaitInv'
  BY <1>3, TurnOk, LifecycleOk
<1>4. CASE UNCHANGED vars
  BY <1>4 DEF vars, session, replies, receipts, verdicts, WaitInv, TypeOK, OwedOk, WaitersOk, GotOk,
     AskOk
<1> QED
  BY <1>1, <1>2, <1>3, <1>4 DEF Next

(* The types of the bus, of its mailboxes and of everything a session has. *)
THEOREM IrcBusType == Spec => []TypeOK
<1>1. WaitInv => TypeOK
  BY DEF WaitInv
<1> QED
  BY <1>1, InitWaitInv, NextWaitInv, PTL DEF Spec

(* #waiters holds exactly the waits that wait, whichever of their settlers *)
(* came first and however the deliveries between them went.                *)
THEOREM WaitersAlwaysWait == Spec => []WaitersWait
<1>1. WaitInv => WaitersWait
  <2> SUFFICES ASSUME WaitInv
               PROVE  WaitersWait
    OBVIOUS
  <2>1. ASSUME NEW a \in Agents
        PROVE  ToSet(waiters[a]) = WaitingOf(a) /\ IsInjective(waiters[a])
    BY DEF WaitInv, WaitersOk, WaitingOf
  <2> QED
    BY <2>1 DEF WaitersWait
<1> QED
  BY <1>1, InitWaitInv, NextWaitInv, PTL DEF Spec

-----------------------------------------------------------------------------
(***************************************************************************)
(* Places.  Every message has one: on its way ("none") or where it went.   *)
(* The variables say the same of it, and a step moves messages.            *)
(***************************************************************************)
PlaceNames == {"none", "mailbox", "pending", "held", "seen", "taken", "lost"}

(* The queues q hold the messages of one place, each once, at its addressee. *)
QueueAt(q, at, place) ==
    \A a \in Agents :
        /\ IsInjective(q[a])
        /\ \A m : m \in ToSet(q[a]) <=> m \in Messages /\ To[m] = a /\ at[m] = place

SeenAt(s, at) ==
    \A a \in Agents : \A m \in Messages : m \in s[a] <=> To[m] = a /\ at[m] = "seen"

SetAt(S, at, place) == \A m \in Messages : m \in S <=> at[m] = place

(* What a wait returned stays with it, or is lost with its answer.         *)
HeldAt(g, at) ==
    /\ \A w \in Waits : g[w] # NoMessage => at[g[w]] \in {"held", "lost"}
    /\ \A v, w \in Waits : g[v] = g[w] /\ g[v] # NoMessage => v = w
    /\ \A m \in Messages : at[m] = "held" => \E w \in Waits : g[w] = m

StageAt(st, at) == \A m \in Messages : at[m] = "none" <=> st[m] # "out"

ReceiptAt(r, at) ==
    \A m \in Messages :
        /\ at[m] = "mailbox" => r[m] = "failed"
        /\ at[m] \in {"pending", "seen"} => r[m] = "ok"

PlaceInv ==
    \E at \in [Messages -> PlaceNames] :
        /\ QueueAt(mailbox, at, "mailbox") /\ QueueAt(pending, at, "pending")
        /\ SeenAt(seen, at) /\ SetAt(taken, at, "taken") /\ SetAt(lost, at, "lost")
        /\ HeldAt(got, at) /\ StageAt(stage, at) /\ ReceiptAt(receipt, at)

BusInv == WaitInv /\ PlaceInv

(* What a queue holds after messages came or went.                         *)
LEMMA QueueKept ==
  ASSUME NEW q, NEW at, NEW at2, NEW place, QueueAt(q, at, place),
         \A m \in Messages : at2[m] = place <=> at[m] = place
  PROVE  QueueAt(q, at2, place)
BY DEF QueueAt

LEMMA QueueGrows ==
  ASSUME NEW q \in [Agents -> Seq(Messages)], NEW at, NEW at2, NEW place, QueueAt(q, at, place),
         NEW m \in Messages, at[m] # place,
         \A k \in Messages : at2[k] = place <=> at[k] = place \/ k = m
  PROVE  QueueAt([q EXCEPT ![To[m]] = Append(@, m)], at2, place)
<1> DEFINE a == To[m]
           q2 == [q EXCEPT ![a] = Append(@, m)]
<1>1. a \in Agents /\ q[a] \in Seq(Messages)
  BY IrcBusAssumption
<1>2. m \notin ToSet(q[a]) /\ IsInjective(q[a])
  BY <1>1 DEF QueueAt
<1>3. ToSet(Append(q[a], m)) = ToSet(q[a]) \cup {m} /\ IsInjective(Append(q[a], m))
  BY <1>1, <1>2, AppendedIs
<1>4. ASSUME NEW c \in Agents
      PROVE  /\ IsInjective(q2[c])
             /\ \A k : k \in ToSet(q2[c]) <=> k \in Messages /\ To[k] = c /\ at2[k] = place
  <2>1. q2[c] = IF c = a THEN Append(q[a], m) ELSE q[c]
    BY <1>1
  <2>2. /\ IsInjective(q[c])
        /\ \A k : k \in ToSet(q[c]) <=> k \in Messages /\ To[k] = c /\ at[k] = place
    BY DEF QueueAt
  <2> HIDE DEF q2
  <2>3. CASE c = a
    BY <1>3, <2>1, <2>2, <2>3
  <2>4. CASE c # a
    BY <2>1, <2>2, <2>4
  <2> QED
    BY <2>3, <2>4
<1> QED
  BY <1>4 DEF QueueAt

LEMMA QueueCleared ==
  ASSUME NEW q \in [Agents -> Seq(Messages)], NEW at, NEW at2, NEW place, QueueAt(q, at, place),
         NEW a \in Agents,
         \A k \in Messages : at2[k] = place <=> at[k] = place /\ To[k] # a
  PROVE  QueueAt([q EXCEPT ![a] = <<>>], at2, place)
BY EmptyIs DEF QueueAt

LEMMA QueueShrinks ==
  ASSUME NEW q \in [Agents -> Seq(Messages)], NEW at, NEW at2, NEW place, QueueAt(q, at, place),
         NEW a \in Agents, NEW n \in DOMAIN q[a],
         \A k \in Messages : at2[k] = place <=> at[k] = place /\ k # q[a][n]
  PROVE  QueueAt([q EXCEPT ![a] = RemoveAt(@, n)], at2, place)
<1> DEFINE m == q[a][n]
           q2 == [q EXCEPT ![a] = RemoveAt(@, n)]
<1>1. q[a] \in Seq(Messages) /\ IsInjective(q[a]) /\ m \in ToSet(q[a])
  BY DEF QueueAt, ToSet
<1>2. m \in Messages /\ To[m] = a
  BY <1>1 DEF QueueAt
<1>3. ToSet(RemoveAt(q[a], n)) = ToSet(q[a]) \ {m} /\ IsInjective(RemoveAt(q[a], n))
  BY <1>1, RemovedIs
<1>4. ASSUME NEW c \in Agents
      PROVE  /\ IsInjective(q2[c])
             /\ \A k : k \in ToSet(q2[c]) <=> k \in Messages /\ To[k] = c /\ at2[k] = place
  <2>1. q2[c] = IF c = a THEN RemoveAt(q[a], n) ELSE q[c]
    OBVIOUS
  <2>2. /\ IsInjective(q[c])
        /\ \A k : k \in ToSet(q[c]) <=> k \in Messages /\ To[k] = c /\ at[k] = place
    BY DEF QueueAt
  <2> HIDE DEF q2, m
  <2>3. \A k \in Messages : at2[k] = place <=> at[k] = place /\ k # m
    BY DEF m
  <2>4. CASE c = a
    BY <1>3, <2>1, <2>2, <2>3, <2>4
  <2>5. CASE c # a
    BY <1>2, <2>1, <2>2, <2>3, <2>5
  <2> QED
    BY <2>4, <2>5
<1> QED
  BY <1>4 DEF QueueAt

(* Steps that move nothing that has left the bus.                          *)
LEMMA Unmoved ==
  ASSUME BusInv, UNCHANGED <<mailbox, pending, seen, taken, lost, got>>,
         \A m \in Messages : /\ stage'[m] = "out" <=> stage[m] = "out"
                             /\ stage[m] = "out" => receipt'[m] = receipt[m]
  PROVE  PlaceInv'
<1>1. PICK at \in [Messages -> PlaceNames] :
        /\ QueueAt(mailbox, at, "mailbox") /\ QueueAt(pending, at, "pending")
        /\ SeenAt(seen, at) /\ SetAt(taken, at, "taken") /\ SetAt(lost, at, "lost")
        /\ HeldAt(got, at) /\ StageAt(stage, at) /\ ReceiptAt(receipt, at)
  BY DEF BusInv, PlaceInv
<1>2. StageAt(stage', at)
  BY <1>1 DEF StageAt
<1>3. ReceiptAt(receipt', at)
  BY <1>1 DEF StageAt, ReceiptAt
<1> QED
  BY <1>1, <1>2, <1>3 DEF PlaceInv

(* The message of a wait is dropped with the answer of its tool call.      *)
LEMMA Swallowed ==
  ASSUME BusInv, NEW w \in Waits, got[w] # NoMessage, lost' = lost \cup {got[w]},
         UNCHANGED <<mailbox, pending, seen, taken, got>>,
         \A m \in Messages : /\ stage'[m] = "out" <=> stage[m] = "out"
                             /\ stage[m] = "out" => receipt'[m] = receipt[m]
  PROVE  PlaceInv'
<1>1. PICK at \in [Messages -> PlaceNames] :
        /\ QueueAt(mailbox, at, "mailbox") /\ QueueAt(pending, at, "pending")
        /\ SeenAt(seen, at) /\ SetAt(taken, at, "taken") /\ SetAt(lost, at, "lost")
        /\ HeldAt(got, at) /\ StageAt(stage, at) /\ ReceiptAt(receipt, at)
  BY DEF BusInv, PlaceInv
<1>2. got[w] \in Messages /\ at[got[w]] \in {"held", "lost"}
  BY <1>1 DEF BusInv, WaitInv, TypeOK, HeldAt
<1> DEFINE x == got[w]
           at2 == [at EXCEPT ![x] = "lost"]
<1>3. /\ at2 \in [Messages -> PlaceNames]
      /\ \A m \in Messages : at2[m] = IF m = x THEN "lost" ELSE at[m]
  BY <1>2 DEF PlaceNames
<1> HIDE DEF at2, x
<1>4. x \in Messages /\ at[x] \in {"held", "lost"} /\ x = got[w]
  BY <1>2 DEF x
<1>5. QueueAt(mailbox', at2, "mailbox") /\ QueueAt(pending', at2, "pending")
  BY <1>1, <1>3, <1>4, QueueKept
<1>6. SeenAt(seen', at2) /\ SetAt(taken', at2, "taken")
  BY <1>1, <1>3, <1>4 DEF SeenAt, SetAt
<1>7. SetAt(lost', at2, "lost")
  BY <1>1, <1>3, <1>4 DEF SetAt
<1>8. HeldAt(got', at2)
  <2>1. \A v \in Waits : got[v] # NoMessage => got[v] \in Messages
    BY DEF BusInv, WaitInv, TypeOK
  <2> QED
    BY <1>1, <1>3, <1>4, <2>1 DEF HeldAt
<1>9. StageAt(stage', at2) /\ ReceiptAt(receipt', at2)
  BY <1>1, <1>3, <1>4 DEF StageAt, ReceiptAt
<1> QED
  BY <1>3, <1>5, <1>6, <1>7, <1>8, <1>9 DEF PlaceInv

LEMMA FailsPlaces ==
  ASSUME BusInv, NEW m \in Messages, stage[m] # "out", NEW b, Ready(m, b), Fails(m, b),
         stage' = [stage EXCEPT ![m] = "refused"],
         UNCHANGED <<mailbox, pending, seen, taken, got>>
  PROVE  PlaceInv'
<1>1. receipt' = [receipt EXCEPT ![m] = "failed"]
  BY DEF Fails, Settled
<1>2. \A k \in Messages : /\ stage'[k] = "out" <=> stage[k] = "out"
                          /\ stage[k] = "out" => receipt'[k] = receipt[k]
  BY <1>1 DEF BusInv, WaitInv, TypeOK
<1>3. CASE lost' = lost
  BY <1>2, <1>3, Unmoved
<1>4. CASE lost' # lost
  <2>1. /\ AskWait[m] # NoWait /\ got[AskWait[m]] # NoMessage
        /\ lost' = lost \cup {got[AskWait[m]]}
    BY <1>4 DEF Fails
  <2>2. AskWait[m] \in Waits
    BY <2>1, IrcBusAssumption
  <2> QED
    BY <1>2, <2>1, <2>2, Swallowed
<1> QED
  BY <1>3, <1>4

(* The session reads its pending records, or leaves them behind.           *)
LEMMA Drained ==
  ASSUME BusInv, NEW a \in Agents,
         pending' = [pending EXCEPT ![a] = <<>>],
         \/ seen' = [seen EXCEPT ![a] = @ \cup ToSet(pending[a])] /\ lost' = lost
         \/ lost' = lost \cup ToSet(pending[a]) /\ seen' = seen,
         UNCHANGED <<mailbox, taken, got, stage, receipt>>
  PROVE  PlaceInv'
<1>1. PICK at \in [Messages -> PlaceNames] :
        /\ QueueAt(mailbox, at, "mailbox") /\ QueueAt(pending, at, "pending")
        /\ SeenAt(seen, at) /\ SetAt(taken, at, "taken") /\ SetAt(lost, at, "lost")
        /\ HeldAt(got, at) /\ StageAt(stage, at) /\ ReceiptAt(receipt, at)
  BY DEF BusInv, PlaceInv
<1>2. \A m : m \in ToSet(pending[a]) <=> m \in Messages /\ To[m] = a /\ at[m] = "pending"
  BY <1>1 DEF QueueAt
<1>3. pending \in [Agents -> Seq(Messages)] /\ seen \in [Agents -> SUBSET Messages]
  BY DEF BusInv, WaitInv, TypeOK
<1>4. ASSUME NEW place \in {"seen", "lost"},
             SeenAt(seen', [m \in Messages |-> IF m \in ToSet(pending[a]) THEN place ELSE at[m]]),
             SetAt(lost', [m \in Messages |-> IF m \in ToSet(pending[a]) THEN place ELSE at[m]], "lost")
      PROVE  PlaceInv'
  <2> DEFINE at2 == [m \in Messages |-> IF m \in ToSet(pending[a]) THEN place ELSE at[m]]
  <2>1. /\ at2 \in [Messages -> PlaceNames]
        /\ \A m \in Messages : at2[m] = IF To[m] = a /\ at[m] = "pending" THEN place ELSE at[m]
    BY <1>2 DEF PlaceNames
  <2>2. SeenAt(seen', at2) /\ SetAt(lost', at2, "lost")
    BY <1>4
  <2> HIDE DEF at2
  <2>3. QueueAt(mailbox', at2, "mailbox")
    BY <1>1, <2>1, QueueKept
  <2>4. QueueAt(pending', at2, "pending")
    BY <1>1, <1>3, <2>1, QueueCleared
  <2>5. SetAt(taken', at2, "taken")
    BY <1>1, <2>1 DEF SetAt
  <2>7. \A v \in Waits : got[v] # NoMessage => got[v] \in Messages
    BY DEF BusInv, WaitInv, TypeOK
  <2>8. HeldAt(got', at2)
    BY <1>1, <2>1, <2>7 DEF HeldAt
  <2>6. StageAt(stage', at2) /\ ReceiptAt(receipt', at2)
    BY <1>1, <2>1 DEF StageAt, ReceiptAt
  <2> QED
    BY <2>1, <2>2, <2>3, <2>4, <2>5, <2>6, <2>8 DEF PlaceInv
<1>5. CASE seen' = [seen EXCEPT ![a] = @ \cup ToSet(pending[a])] /\ lost' = lost
  <2>1. SeenAt(seen', [m \in Messages |-> IF m \in ToSet(pending[a]) THEN "seen" ELSE at[m]])
    BY <1>1, <1>2, <1>3, <1>5 DEF SeenAt
  <2>2. SetAt(lost', [m \in Messages |-> IF m \in ToSet(pending[a]) THEN "seen" ELSE at[m]], "lost")
    BY <1>1, <1>2, <1>5 DEF SetAt
  <2> QED
    BY <1>4, <2>1, <2>2
<1>6. CASE lost' = lost \cup ToSet(pending[a]) /\ seen' = seen
  <2>1. SeenAt(seen', [m \in Messages |-> IF m \in ToSet(pending[a]) THEN "lost" ELSE at[m]])
    BY <1>1, <1>2, <1>6 DEF SeenAt
  <2>2. SetAt(lost', [m \in Messages |-> IF m \in ToSet(pending[a]) THEN "lost" ELSE at[m]], "lost")
    BY <1>1, <1>2, <1>6 DEF SetAt
  <2> QED
    BY <1>4, <2>1, <2>2
<1> QED
  BY <1>5, <1>6

(* A message leaves the bus.                                               *)
LEMMA ToWaiterPlaces ==
  ASSUME BusInv, NEW m \in Messages, stage[m] # "out", NEW b, Ready(m, b), ToWaiter(m, b)
  PROVE  PlaceInv'
<1>1. PICK at \in [Messages -> PlaceNames] :
        /\ QueueAt(mailbox, at, "mailbox") /\ QueueAt(pending, at, "pending")
        /\ SeenAt(seen, at) /\ SetAt(taken, at, "taken") /\ SetAt(lost, at, "lost")
        /\ HeldAt(got, at) /\ StageAt(stage, at) /\ ReceiptAt(receipt, at)
  BY DEF BusInv, PlaceInv
<1>2. /\ pending \in [Agents -> Seq(Messages)] /\ mailbox \in [Agents -> Seq(Messages)]
      /\ seen \in [Agents -> SUBSET Messages] /\ got \in [Waits -> Messages \cup {NoMessage}]
      /\ stage \in [Messages -> {"unsent", "gate", "passed", "bounced", "refused", "out"}]
      /\ receipt \in [Messages -> {"none", "ok", "failed"}]
      /\ NoMessage \notin Messages
  BY IrcBusAssumption DEF BusInv, WaitInv, TypeOK
<1> DEFINE n == CHOOSE k \in Matching(m, b) : \A l \in Matching(m, b) : k <= l
           w == b.waiters[To[m]][n]
           at2 == [at EXCEPT ![m] = "held"]
<1>3. /\ got' = [got EXCEPT ![w] = m]
      /\ stage' = [stage EXCEPT ![m] = "out"]
      /\ receipt' = [receipt EXCEPT ![m] = "ok"]
      /\ UNCHANGED <<pending, seen, mailbox, taken, lost>>
  BY DEF ToWaiter, Settled, session
<1>4. w \in Waits /\ got[w] = NoMessage
  <2>1. n \in DOMAIN b.waiters[To[m]]
    BY OldestWaits DEF ToWaiter
  <2> HIDE DEF n
  <2>2. To[m] \in Agents
    BY IrcBusAssumption
  <2>3. WaitersOk(b.waiters, b.wait)
    BY DEF Ready
  <2>4. /\ w \in Waits /\ b.wait[w] = "waiting" /\ Owner[w] = To[m]
        /\ WaitersOk([b.waiters EXCEPT ![To[m]] = RemoveAt(@, n)], [b.wait EXCEPT ![w] = "message"])
    BY <2>1, <2>2, <2>3, ServedOk
  <2> HIDE DEF w
  <2> QED
    BY <2>4 DEF Ready, GotOk
<1> HIDE DEF w
<1>5. /\ at2 \in [Messages -> PlaceNames] /\ at[m] = "none"
      /\ \A k \in Messages : at2[k] = IF k = m THEN "held" ELSE at[k]
  BY <1>1 DEF PlaceNames, StageAt
<1> HIDE DEF at2
<1>6. QueueAt(mailbox', at2, "mailbox") /\ QueueAt(pending', at2, "pending")
  BY <1>1, <1>3, <1>5, QueueKept
<1>7. SeenAt(seen', at2) /\ SetAt(taken', at2, "taken") /\ SetAt(lost', at2, "lost")
  BY <1>1, <1>3, <1>5 DEF SeenAt, SetAt
<1>8. HeldAt(got', at2)
  <2>1. \A v \in Waits : got'[v] = IF v = w THEN m ELSE got[v]
    BY <1>2, <1>3
  <2>2. \A v \in Waits : got[v] # m
    BY <1>1, <1>2, <1>5 DEF HeldAt
  <2>3. \A v \in Waits : got[v] # NoMessage => got[v] \in Messages
    BY <1>2
  <2>4. \A v \in Waits : got'[v] # NoMessage => at2[got'[v]] \in {"held", "lost"}
    BY <1>1, <1>5, <2>1, <2>2, <2>3 DEF HeldAt
  <2>5. \A v, x \in Waits : got'[v] = got'[x] /\ got'[v] # NoMessage => v = x
    BY <1>1, <2>1, <2>2 DEF HeldAt
  <2>6. ASSUME NEW k \in Messages, at2[k] = "held"
        PROVE  \E v \in Waits : got'[v] = k
    <3>1. CASE k = m
      BY <1>4, <2>1, <3>1
    <3>2. CASE k # m
      <4>1. PICK v \in Waits : got[v] = k
        BY <1>1, <1>5, <2>6, <3>2 DEF HeldAt
      <4>2. v # w
        BY <1>2, <1>4, <4>1
      <4> QED
        BY <2>1, <4>1, <4>2
    <3> QED
      BY <3>1, <3>2
  <2> QED
    BY <2>4, <2>5, <2>6 DEF HeldAt
<1>9. StageAt(stage', at2) /\ ReceiptAt(receipt', at2)
  BY <1>1, <1>2, <1>3, <1>5 DEF StageAt, ReceiptAt
<1> QED
  BY <1>5, <1>6, <1>7, <1>8, <1>9 DEF PlaceInv

LEMMA ToBusyPlaces ==
  ASSUME BusInv, NEW m \in Messages, stage[m] # "out", NEW b, ToBusy(m, b)
  PROVE  PlaceInv'
<1>1. PICK at \in [Messages -> PlaceNames] :
        /\ QueueAt(mailbox, at, "mailbox") /\ QueueAt(pending, at, "pending")
        /\ SeenAt(seen, at) /\ SetAt(taken, at, "taken") /\ SetAt(lost, at, "lost")
        /\ HeldAt(got, at) /\ StageAt(stage, at) /\ ReceiptAt(receipt, at)
  BY DEF BusInv, PlaceInv
<1>2. /\ pending \in [Agents -> Seq(Messages)] /\ mailbox \in [Agents -> Seq(Messages)]
      /\ seen \in [Agents -> SUBSET Messages] /\ got \in [Waits -> Messages \cup {NoMessage}]
      /\ stage \in [Messages -> {"unsent", "gate", "passed", "bounced", "refused", "out"}]
      /\ receipt \in [Messages -> {"none", "ok", "failed"}]
      /\ NoMessage \notin Messages
  BY IrcBusAssumption DEF BusInv, WaitInv, TypeOK
<1> DEFINE at2 == [at EXCEPT ![m] = "pending"]
<1>3. /\ pending' = [pending EXCEPT ![To[m]] = Append(@, m)]
      /\ stage' = [stage EXCEPT ![m] = "out"]
      /\ receipt' = [receipt EXCEPT ![m] = "ok"]
      /\ UNCHANGED <<got, seen, mailbox, taken, lost>>
  BY DEF ToBusy, Settled, MailboxAfterHandOff
<1>5. /\ at2 \in [Messages -> PlaceNames] /\ at[m] = "none"
      /\ \A k \in Messages : at2[k] = IF k = m THEN "pending" ELSE at[k]
  BY <1>1 DEF PlaceNames, StageAt
<1> HIDE DEF at2
<1>6. QueueAt(mailbox', at2, "mailbox")
  BY <1>1, <1>3, <1>5, QueueKept
<1>7. QueueAt(pending', at2, "pending")
  <2>1. /\ QueueAt(pending, at, "pending") /\ at[m] # "pending"
        /\ \A k \in Messages : at2[k] = "pending" <=> at[k] = "pending" \/ k = m
    BY <1>1, <1>5
  <2>2. QueueAt([pending EXCEPT ![To[m]] = Append(@, m)], at2, "pending")
    BY <1>2, <2>1, QueueGrows
  <2> QED
    BY <1>3, <2>2
<1>8. SeenAt(seen', at2) /\ SetAt(taken', at2, "taken") /\ SetAt(lost', at2, "lost")
  BY <1>1, <1>3, <1>5 DEF SeenAt, SetAt
<1>9. HeldAt(got', at2)
  <2>1. \A v \in Waits : got[v] # NoMessage =>
            got[v] \in Messages /\ at[got[v]] \in {"held", "lost"} /\ got[v] # m
    BY <1>1, <1>2, <1>5 DEF HeldAt
  <2>2. \A v \in Waits : got[v] # NoMessage => at2[got[v]] \in {"held", "lost"}
    BY <1>5, <2>1
  <2>3. \A k \in Messages : at2[k] = "held" => at[k] = "held"
    BY <1>5
  <2> QED
    BY <1>1, <1>3, <2>2, <2>3 DEF HeldAt
<1>10. StageAt(stage', at2) /\ ReceiptAt(receipt', at2)
  BY <1>1, <1>2, <1>3, <1>5 DEF StageAt, ReceiptAt
<1> QED
  BY <1>5, <1>6, <1>7, <1>8, <1>9, <1>10 DEF PlaceInv

LEMMA ToIdlePlaces ==
  ASSUME BusInv, NEW m \in Messages, stage[m] # "out", NEW b, ToIdle(m, b)
  PROVE  PlaceInv'
<1>1. PICK at \in [Messages -> PlaceNames] :
        /\ QueueAt(mailbox, at, "mailbox") /\ QueueAt(pending, at, "pending")
        /\ SeenAt(seen, at) /\ SetAt(taken, at, "taken") /\ SetAt(lost, at, "lost")
        /\ HeldAt(got, at) /\ StageAt(stage, at) /\ ReceiptAt(receipt, at)
  BY DEF BusInv, PlaceInv
<1>2. /\ pending \in [Agents -> Seq(Messages)] /\ mailbox \in [Agents -> Seq(Messages)]
      /\ seen \in [Agents -> SUBSET Messages] /\ got \in [Waits -> Messages \cup {NoMessage}]
      /\ stage \in [Messages -> {"unsent", "gate", "passed", "bounced", "refused", "out"}]
      /\ receipt \in [Messages -> {"none", "ok", "failed"}]
      /\ NoMessage \notin Messages
  BY IrcBusAssumption DEF BusInv, WaitInv, TypeOK
<1> DEFINE at2 == [at EXCEPT ![m] = "seen"]
<1>3. /\ seen' = [seen EXCEPT ![To[m]] = @ \cup {m}]
      /\ stage' = [stage EXCEPT ![m] = "out"]
      /\ receipt' = [receipt EXCEPT ![m] = "ok"]
      /\ UNCHANGED <<got, pending, mailbox, taken, lost>>
  BY OneIs DEF ToIdle, WakeFor, Settled
<1>5. /\ at2 \in [Messages -> PlaceNames] /\ at[m] = "none"
      /\ \A k \in Messages : at2[k] = IF k = m THEN "seen" ELSE at[k]
  BY <1>1 DEF PlaceNames, StageAt
<1> HIDE DEF at2
<1>6. QueueAt(mailbox', at2, "mailbox") /\ QueueAt(pending', at2, "pending")
  BY <1>1, <1>3, <1>5, QueueKept
<1>7. SeenAt(seen', at2)
  BY <1>1, <1>2, <1>3, <1>5, IrcBusAssumption DEF SeenAt
<1>8. SetAt(taken', at2, "taken") /\ SetAt(lost', at2, "lost")
  BY <1>1, <1>3, <1>5 DEF SetAt
<1>9. HeldAt(got', at2)
  <2>1. \A v \in Waits : got[v] # NoMessage =>
            got[v] \in Messages /\ at[got[v]] \in {"held", "lost"} /\ got[v] # m
    BY <1>1, <1>2, <1>5 DEF HeldAt
  <2>2. \A v \in Waits : got[v] # NoMessage => at2[got[v]] \in {"held", "lost"}
    BY <1>5, <2>1
  <2>3. \A k \in Messages : at2[k] = "held" => at[k] = "held"
    BY <1>5
  <2> QED
    BY <1>1, <1>3, <2>2, <2>3 DEF HeldAt
<1>10. StageAt(stage', at2) /\ ReceiptAt(receipt', at2)
  BY <1>1, <1>2, <1>3, <1>5 DEF StageAt, ReceiptAt
<1> QED
  BY <1>5, <1>6, <1>7, <1>8, <1>9, <1>10 DEF PlaceInv

(* A failed hand-off is buffered; what has no room, and what the wait of   *)
(* the send had consumed, is lost.                                         *)
LEMMA BouncePlaces ==
  ASSUME BusInv, NEW m \in Messages, Bounce(m)
  PROVE  PlaceInv'
<1>1. PICK at \in [Messages -> PlaceNames] :
        /\ QueueAt(mailbox, at, "mailbox") /\ QueueAt(pending, at, "pending")
        /\ SeenAt(seen, at) /\ SetAt(taken, at, "taken") /\ SetAt(lost, at, "lost")
        /\ HeldAt(got, at) /\ StageAt(stage, at) /\ ReceiptAt(receipt, at)
  BY DEF BusInv, PlaceInv
<1>2. /\ pending \in [Agents -> Seq(Messages)] /\ mailbox \in [Agents -> Seq(Messages)]
      /\ seen \in [Agents -> SUBSET Messages] /\ got \in [Waits -> Messages \cup {NoMessage}]
      /\ stage \in [Messages -> {"unsent", "gate", "passed", "bounced", "refused", "out"}]
      /\ receipt \in [Messages -> {"none", "ok", "failed"}]
      /\ NoMessage \notin Messages
  BY IrcBusAssumption DEF BusInv, WaitInv, TypeOK
<1> DEFINE a == To[m]
           mail == Append(mailbox[a], m)
           w == AskWait[m]
           swallowed == IF w # NoWait /\ got[w] # NoMessage THEN {got[w]} ELSE {}
           dropped == ToSet(mail) \ ToSet(Capped(mail))
           at2 == [k \in Messages |-> IF k \in swallowed \cup dropped THEN "lost"
                                      ELSE IF k = m THEN "mailbox" ELSE at[k]]
<1>3. /\ stage[m] = "bounced" /\ stage' = [stage EXCEPT ![m] = "out"]
      /\ mailbox' = [mailbox EXCEPT ![a] = Capped(mail)]
      /\ lost' = lost \cup swallowed \cup dropped
      /\ receipt' = [receipt EXCEPT ![m] = "failed"]
      /\ UNCHANGED <<got, pending, seen, taken>>
  BY DEF Bounce, Settled, session
<1>4. at[m] = "none" /\ a \in Agents
  BY <1>1, <1>3, IrcBusAssumption DEF StageAt
<1>5. \A k : k \in ToSet(mailbox[a]) <=> k \in Messages /\ To[k] = a /\ at[k] = "mailbox"
  BY <1>1, <1>4 DEF QueueAt
<1>6. /\ mail \in Seq(Messages) /\ ToSet(mail) = ToSet(mailbox[a]) \cup {m} /\ IsInjective(mail)
  <2>1. mailbox[a] \in Seq(Messages) /\ IsInjective(mailbox[a]) /\ m \notin ToSet(mailbox[a])
    BY <1>1, <1>2, <1>4, <1>5 DEF QueueAt
  <2> QED
    BY <2>1, AppendedIs
<1>7. ToSet(Capped(mail)) \subseteq ToSet(mail) /\ IsInjective(Capped(mail))
  <2>1. CASE Len(mail) > Cap
    <3>1. Len(mail) > 0
      BY <1>6, <2>1, IrcBusAssumption
    <3> QED
      BY <1>6, <2>1, <3>1, TailIs DEF Capped
  <2>2. CASE ~(Len(mail) > Cap)
    BY <2>2, <1>6 DEF Capped
  <2> QED
    BY <2>1, <2>2
<1>8. \A k \in swallowed : k \in Messages /\ at[k] \in {"held", "lost"}
  <2>1. w # NoWait => w \in Waits
    BY IrcBusAssumption
  <2> QED
    BY <1>1, <1>2, <2>1 DEF HeldAt
<1>9. \A k \in dropped : k \in Messages /\ To[k] = a /\ (k = m \/ at[k] = "mailbox")
  BY <1>5, <1>6
<1> HIDE DEF swallowed, mail
<1>10. at2 \in [Messages -> PlaceNames]
  BY DEF PlaceNames
<1>11. \A k \in Messages : at2[k] = IF k \in swallowed \cup dropped THEN "lost"
                                    ELSE IF k = m THEN "mailbox" ELSE at[k]
  OBVIOUS
<1>12. \A k : k \in ToSet(Capped(mail)) <=> (k \in ToSet(mailbox[a]) \/ k = m) /\ k \notin dropped
  BY <1>6, <1>7
<1> HIDE DEF at2, dropped
<1>13. QueueAt(mailbox', at2, "mailbox")
  <2>1. ASSUME NEW c \in Agents
        PROVE  /\ IsInjective(mailbox'[c])
               /\ \A k : k \in ToSet(mailbox'[c]) <=> k \in Messages /\ To[k] = c /\ at2[k] = "mailbox"
    <3>1. CASE c = a
      <4>1. mailbox'[c] = Capped(mail)
        BY <1>2, <1>3, <1>4, <3>1
      <4> QED
        BY <1>4, <1>5, <1>7, <1>8, <1>11, <1>12, <3>1, <4>1
    <3>2. CASE c # a
      <4>1. mailbox'[c] = mailbox[c]
        BY <1>2, <1>3, <3>2
      <4>2. /\ IsInjective(mailbox[c])
            /\ \A k : k \in ToSet(mailbox[c]) <=> k \in Messages /\ To[k] = c /\ at[k] = "mailbox"
        BY <1>1 DEF QueueAt
      <4> QED
        BY <1>8, <1>9, <1>11, <3>2, <4>1, <4>2
    <3> QED
      BY <3>1, <3>2
  <2> QED
    BY <2>1 DEF QueueAt
<1>14. QueueAt(pending', at2, "pending")
  <2>1. \A k \in Messages : at2[k] = "pending" <=> at[k] = "pending"
    BY <1>4, <1>8, <1>9, <1>11
  <2> QED
    BY <1>1, <1>3, <2>1, QueueKept
<1>15. SeenAt(seen', at2) /\ SetAt(taken', at2, "taken")
  BY <1>1, <1>3, <1>4, <1>8, <1>9, <1>11 DEF SeenAt, SetAt
<1>16. SetAt(lost', at2, "lost")
  BY <1>1, <1>3, <1>4, <1>11 DEF SetAt
<1>17. HeldAt(got', at2)
  <2>1. \A v \in Waits : got[v] # NoMessage => got[v] \in Messages /\ at[got[v]] \in {"held", "lost"}
    BY <1>1, <1>2 DEF HeldAt
  <2>2. \A k \in Messages : at[k] \in {"held", "lost"} => at2[k] \in {"held", "lost"}
    BY <1>4, <1>11
  <2>3. \A k \in Messages : at2[k] = "held" => at[k] = "held"
    BY <1>11
  <2> QED
    BY <1>1, <1>3, <2>1, <2>2, <2>3 DEF HeldAt
<1>18. StageAt(stage', at2)
  BY <1>1, <1>2, <1>3, <1>8, <1>9, <1>11 DEF StageAt
<1>19. ReceiptAt(receipt', at2)
  BY <1>1, <1>2, <1>3, <1>11 DEF ReceiptAt
<1> QED
  BY <1>10, <1>13, <1>14, <1>15, <1>16, <1>17, <1>18, <1>19 DEF PlaceInv

(* The bus is left on one of these ways, or not at all.                    *)
LEMMA LeavesPlaces ==
  ASSUME BusInv, NEW m \in Messages, NEW b, Ready(m, b),
         Refuse(m, b) \/ AwaitLive(m, b) \/ HandOver(m, b)
  PROVE  PlaceInv'
<1>1. stage[m] # "out"
  BY DEF Ready
<1>2. CASE Refuse(m, b)
  BY <1>1, <1>2, FailsPlaces DEF Refuse, session
<1>3. CASE NoSession(m, b)
  BY <1>1, <1>3, FailsPlaces DEF NoSession, session
<1>4. CASE AwaitLive(m, b)
  BY <1>1, <1>4, Unmoved DEF AwaitLive, BusInv, WaitInv, TypeOK, session, receipts
<1>5. CASE ToDying(m, b)
  BY <1>1, <1>5, Unmoved DEF ToDying, BusInv, WaitInv, TypeOK, session, receipts
<1> QED
  BY <1>1, <1>2, <1>3, <1>4, <1>5, ToWaiterPlaces, ToBusyPlaces, ToIdlePlaces DEF HandOver

(* A wait of the hub takes one message out of a queue.                     *)
LEMMA HubWaitPlaces ==
  ASSUME BusInv, NEW w \in Waits, HubWait(w)
  PROVE  PlaceInv'
<1>1. PICK at \in [Messages -> PlaceNames] :
        /\ QueueAt(mailbox, at, "mailbox") /\ QueueAt(pending, at, "pending")
        /\ SeenAt(seen, at) /\ SetAt(taken, at, "taken") /\ SetAt(lost, at, "lost")
        /\ HeldAt(got, at) /\ StageAt(stage, at) /\ ReceiptAt(receipt, at)
  BY DEF BusInv, PlaceInv
<1>2. /\ pending \in [Agents -> Seq(Messages)] /\ mailbox \in [Agents -> Seq(Messages)]
      /\ got \in [Waits -> Messages \cup {NoMessage}]
      /\ NoMessage \notin Messages /\ Owner[w] \in Agents
  BY IrcBusAssumption DEF BusInv, WaitInv, TypeOK
<1>3. /\ wait[w] = "new"
      /\ UNCHANGED <<seen, stage, receipt, taken, lost>>
  BY DEF HubWait, receipts
<1>4. got[w] = NoMessage
  BY <1>3 DEF BusInv, WaitInv, GotOk
<1>5. ASSUME NEW m \in Messages, at[m] \in {"pending", "mailbox"}, got' = [got EXCEPT ![w] = m],
             NEW at2 \in [Messages -> PlaceNames],
             \A k \in Messages : at2[k] = IF k = m THEN "held" ELSE at[k],
             QueueAt(mailbox', at2, "mailbox"), QueueAt(pending', at2, "pending")
      PROVE  PlaceInv'
  <2>1. SeenAt(seen', at2) /\ SetAt(taken', at2, "taken") /\ SetAt(lost', at2, "lost")
    BY <1>1, <1>3, <1>5 DEF SeenAt, SetAt
  <2>2. \A v \in Waits : got'[v] = IF v = w THEN m ELSE got[v]
    BY <1>2, <1>5
  <2>3. \A v \in Waits : got[v] # NoMessage =>
            got[v] \in Messages /\ at[got[v]] \in {"held", "lost"} /\ got[v] # m
    BY <1>1, <1>2, <1>5 DEF HeldAt
  <2>4. \A v \in Waits : got'[v] # NoMessage => at2[got'[v]] \in {"held", "lost"}
    BY <1>5, <2>2, <2>3
  <2>5. \A v, x \in Waits : got'[v] = got'[x] /\ got'[v] # NoMessage => v = x
    BY <1>1, <1>2, <2>2, <2>3 DEF HeldAt
  <2>6. ASSUME NEW k \in Messages, at2[k] = "held"
        PROVE  \E v \in Waits : got'[v] = k
    <3>1. CASE k = m
      BY <2>2, <3>1
    <3>2. CASE k # m
      <4>1. PICK v \in Waits : got[v] = k
        BY <1>1, <1>5, <2>6, <3>2 DEF HeldAt
      <4>2. v # w
        BY <1>2, <1>4, <4>1
      <4> QED
        BY <2>2, <4>1, <4>2
    <3> QED
      BY <3>1, <3>2
  <2>7. HeldAt(got', at2)
    BY <2>4, <2>5, <2>6 DEF HeldAt
  <2>8. StageAt(stage', at2) /\ ReceiptAt(receipt', at2)
    BY <1>1, <1>3, <1>5 DEF StageAt, ReceiptAt
  <2> QED
    BY <1>5, <2>1, <2>7, <2>8 DEF PlaceInv
<1> DEFINE a == Owner[w]
<1>6. CASE Readable(w, pending[a]) # {}
  <2> DEFINE n == FirstOf(w, pending[a])
             m == pending[a][n]
             at2 == [at EXCEPT ![m] = "held"]
  <2>1. n \in DOMAIN pending[a]
    BY <1>2, <1>6, FirstIsReadable
  <2>2. /\ got' = [got EXCEPT ![w] = m]
        /\ pending' = [pending EXCEPT ![a] = RemoveAt(@, n)]
        /\ mailbox' = mailbox
    BY <1>2, <1>6 DEF HubWait, TakeOut
  <2> HIDE DEF n
  <2>3. m \in Messages /\ at[m] = "pending"
    BY <1>1, <1>2, <2>1 DEF QueueAt, ToSet
  <2>4. /\ at2 \in [Messages -> PlaceNames]
        /\ \A k \in Messages : at2[k] = IF k = m THEN "held" ELSE at[k]
    BY <2>3 DEF PlaceNames
  <2> HIDE DEF at2
  <2>5. QueueAt(mailbox', at2, "mailbox")
    BY <1>1, <2>2, <2>3, <2>4, QueueKept
  <2>6. QueueAt(pending', at2, "pending")
    <3>1. /\ QueueAt(pending, at, "pending")
          /\ \A k \in Messages : at2[k] = "pending" <=> at[k] = "pending" /\ k # pending[a][n]
      BY <1>1, <2>3, <2>4
    <3>2. QueueAt([pending EXCEPT ![a] = RemoveAt(@, n)], at2, "pending")
      BY <1>2, <2>1, <3>1, QueueShrinks
    <3> QED
      BY <2>2, <3>2
  <2> HIDE DEF m
  <2> QED
    BY <1>5, <2>2, <2>3, <2>4, <2>5, <2>6
<1>7. CASE Readable(w, pending[a]) = {} /\ Readable(w, mailbox[a]) # {}
  <2> DEFINE n == FirstOf(w, mailbox[a])
             m == mailbox[a][n]
             at2 == [at EXCEPT ![m] = "held"]
  <2>1. n \in DOMAIN mailbox[a]
    BY <1>2, <1>7, FirstIsReadable
  <2>2. /\ got' = [got EXCEPT ![w] = m]
        /\ mailbox' = [mailbox EXCEPT ![a] = RemoveAt(@, n)]
        /\ pending' = pending
    BY <1>2, <1>7 DEF HubWait, TakeOut
  <2> HIDE DEF n
  <2>3. m \in Messages /\ at[m] = "mailbox"
    BY <1>1, <1>2, <2>1 DEF QueueAt, ToSet
  <2>4. /\ at2 \in [Messages -> PlaceNames]
        /\ \A k \in Messages : at2[k] = IF k = m THEN "held" ELSE at[k]
    BY <2>3 DEF PlaceNames
  <2> HIDE DEF at2
  <2>5. QueueAt(pending', at2, "pending")
    BY <1>1, <2>2, <2>3, <2>4, QueueKept
  <2>6. QueueAt(mailbox', at2, "mailbox")
    <3>1. /\ QueueAt(mailbox, at, "mailbox")
          /\ \A k \in Messages : at2[k] = "mailbox" <=> at[k] = "mailbox" /\ k # mailbox[a][n]
      BY <1>1, <2>3, <2>4
    <3>2. QueueAt([mailbox EXCEPT ![a] = RemoveAt(@, n)], at2, "mailbox")
      BY <1>2, <2>1, <3>1, QueueShrinks
    <3> QED
      BY <2>2, <3>2
  <2> HIDE DEF m
  <2> QED
    BY <1>5, <2>2, <2>3, <2>4, <2>5, <2>6
<1>8. CASE Readable(w, pending[a]) = {} /\ Readable(w, mailbox[a]) = {}
  BY <1>8, Unmoved DEF HubWait, receipts
<1> QED
  BY <1>6, <1>7, <1>8

(* op "inbox" takes all of both queues.                                    *)
LEMMA InboxPlaces ==
  ASSUME BusInv, NEW a \in Agents, Inbox(a)
  PROVE  PlaceInv'
<1>1. PICK at \in [Messages -> PlaceNames] :
        /\ QueueAt(mailbox, at, "mailbox") /\ QueueAt(pending, at, "pending")
        /\ SeenAt(seen, at) /\ SetAt(taken, at, "taken") /\ SetAt(lost, at, "lost")
        /\ HeldAt(got, at) /\ StageAt(stage, at) /\ ReceiptAt(receipt, at)
  BY DEF BusInv, PlaceInv
<1>2. /\ pending \in [Agents -> Seq(Messages)] /\ mailbox \in [Agents -> Seq(Messages)]
      /\ \A v \in Waits : got[v] # NoMessage => got[v] \in Messages
  BY DEF BusInv, WaitInv, TypeOK
<1>3. /\ taken' = taken \cup ToSet(mailbox[a]) \cup ToSet(pending[a])
      /\ mailbox' = [mailbox EXCEPT ![a] = <<>>]
      /\ pending' = [pending EXCEPT ![a] = <<>>]
      /\ UNCHANGED <<seen, stage, receipt, got, lost>>
  BY DEF Inbox, receipts
<1>4. /\ \A m : m \in ToSet(pending[a]) <=> m \in Messages /\ To[m] = a /\ at[m] = "pending"
      /\ \A m : m \in ToSet(mailbox[a]) <=> m \in Messages /\ To[m] = a /\ at[m] = "mailbox"
  BY <1>1 DEF QueueAt
<1> DEFINE at2 == [m \in Messages |->
                     IF To[m] = a /\ at[m] \in {"pending", "mailbox"} THEN "taken" ELSE at[m]]
<1>5. /\ at2 \in [Messages -> PlaceNames]
      /\ \A m \in Messages :
            at2[m] = IF To[m] = a /\ at[m] \in {"pending", "mailbox"} THEN "taken" ELSE at[m]
  BY DEF PlaceNames
<1> HIDE DEF at2
<1>6. QueueAt(mailbox', at2, "mailbox")
  <2>1. \A k \in Messages : at2[k] = "mailbox" <=> at[k] = "mailbox" /\ To[k] # a
    BY <1>5
  <2> QED
    BY <1>1, <1>2, <1>3, <2>1, QueueCleared
<1>7. QueueAt(pending', at2, "pending")
  <2>1. \A k \in Messages : at2[k] = "pending" <=> at[k] = "pending" /\ To[k] # a
    BY <1>5
  <2> QED
    BY <1>1, <1>2, <1>3, <2>1, QueueCleared
<1>8. SeenAt(seen', at2) /\ SetAt(taken', at2, "taken") /\ SetAt(lost', at2, "lost")
  BY <1>1, <1>3, <1>4, <1>5 DEF SeenAt, SetAt
<1>9. HeldAt(got', at2)
  BY <1>1, <1>2, <1>3, <1>5 DEF HeldAt
<1>10. StageAt(stage', at2) /\ ReceiptAt(receipt', at2)
  BY <1>1, <1>3, <1>5 DEF StageAt, ReceiptAt
<1> QED
  BY <1>5, <1>6, <1>7, <1>8, <1>9, <1>10 DEF PlaceInv

LEMMA SubmitPlaces ==
  ASSUME BusInv, NEW m \in Messages, NEW b, Ready(m, b), Submit(m, b)
  PROVE  PlaceInv'
BY LeavesPlaces DEF Submit

LEMMA SendPlaces ==
  ASSUME BusInv, NEW m \in Messages, Send(m) \/ Ask(m) \/ Relay(m)
  PROVE  PlaceInv'
<1>0. WaitInv
  BY DEF BusInv
<1>1. ASSUME NEW k \in Messages, Submit(k, Now)
      PROVE  PlaceInv'
  <2>1. stage[k] \in {"unsent", "passed", "gate"}
    BY <1>1 DEF Submit
  <2>2. Ready(k, Now)
    BY <1>0, <2>1, NowReady
  <2> QED
    BY <1>1, <2>2, SubmitPlaces
<1>2. CASE Send(m)
  BY <1>1, <1>2 DEF Send
<1>3. CASE Ask(m)
  BY <1>0, <1>3, AskIs, AskReady, SubmitPlaces
<1>4. CASE Relay(m)
  <2>1. RelayOf[m] \in Messages
    BY <1>0, <1>4, DueIs DEF Relay
  <2> QED
    BY <1>1, <1>4, <2>1 DEF Relay
<1> QED
  BY <1>2, <1>3, <1>4

LEMMA InFlightPlaces ==
  ASSUME BusInv, NEW m \in Messages, InFlight(m)
  PROVE  PlaceInv'
<1>0. WaitInv
  BY DEF BusInv
<1>1. CASE GateOpens(m)
  BY <1>0, <1>1, Unmoved DEF GateOpens, WaitInv, TypeOK, session, receipts
<1>2. CASE GateFails(m)
  <2>1. Ready(m, Now)
    BY <1>0, <1>2, NowReady DEF GateFails
  <2> QED
    BY <1>2, <2>1, FailsPlaces DEF GateFails, session
<1>3. CASE Proceed(m)
  <2>1. Ready(m, Now)
    BY <1>0, <1>3, NowReady DEF Proceed
  <2> QED
    BY <1>3, <2>1, LeavesPlaces DEF Proceed
<1> QED
  BY <1>1, <1>2, <1>3, BouncePlaces DEF InFlight

LEMMA AgentPlaces ==
  ASSUME BusInv, NEW a \in Agents, Turn(a) \/ Inbox(a) \/ Lifecycle(a)
  PROVE  PlaceInv'
<1>1. CASE Prompt(a)
  BY <1>1, Drained DEF receipts, Prompt
<1>2. CASE StepBoundary(a)
  BY <1>2, Drained DEF receipts, StepBoundary
<1>3. ASSUME NEW failed \in BOOLEAN, EndTurn(a, failed)
      PROVE  PlaceInv'
  BY <1>3, Unmoved DEF EndTurn, receipts
<1>4. ASSUME NEW failed \in BOOLEAN, Abort(a, failed)
      PROVE  PlaceInv'
  BY <1>4, Unmoved DEF Abort, receipts
<1>9. CASE RelaysAreOut(a)
  BY <1>9, Unmoved DEF RelaysAreOut, receipts
<1>5. CASE Resume(a)
  BY <1>5, Drained DEF receipts, Resume, WakeFor
<1>6. CASE NewSession(a)
  BY <1>6, Drained DEF receipts, NewSession
<1>7. CASE Park(a) \/ Revive(a) \/ Detach(a)
  BY <1>7, Unmoved DEF Park, Revive, Detach, receipts
<1>8. CASE Dispose(a)
  BY <1>8, Drained DEF receipts, Dispose
<1> QED
  BY <1>1, <1>2, <1>3, <1>4, <1>5, <1>6, <1>7, <1>8, <1>9, InboxPlaces DEF Turn,
     Lifecycle

LEMMA WaitPlaces ==
  ASSUME BusInv, NEW w \in Waits,
         HubWait(w) \/ TimeOut(w) \/ Interrupted(w) \/ NobodyRuns(w) \/ Verdict(w)
  PROVE  PlaceInv'
<1>1. CASE HubWait(w)
  BY <1>1, HubWaitPlaces
<1>2. ASSUME NEW why \in {"timeout", "aborted"}, WaitEnds(w, why)
      PROVE  PlaceInv'
  BY <1>2, Unmoved DEF WaitEnds, session, receipts
<1>3. CASE Verdict(w)
  BY <1>3, Unmoved DEF Verdict, session, receipts
<1> QED
  BY <1>1, <1>2, <1>3 DEF TimeOut, Interrupted, NobodyRuns

LEMMA InitBusInv == Init => BusInv
<1> SUFFICES ASSUME Init
             PROVE  BusInv
  OBVIOUS
<1> DEFINE at == [m \in Messages |-> "none"]
<1>1. at \in [Messages -> PlaceNames] /\ \A m \in Messages : at[m] = "none"
  BY DEF PlaceNames
<1> HIDE DEF at
<1>2. QueueAt(mailbox, at, "mailbox") /\ QueueAt(pending, at, "pending")
  BY <1>1, EmptyIs DEF Init, QueueAt
<1>3. SeenAt(seen, at) /\ SetAt(taken, at, "taken") /\ SetAt(lost, at, "lost")
  BY <1>1 DEF Init, SeenAt, SetAt
<1>4. HeldAt(got, at) /\ StageAt(stage, at) /\ ReceiptAt(receipt, at)
  BY <1>1 DEF Init, HeldAt, StageAt, ReceiptAt
<1> QED
  BY <1>1, <1>2, <1>3, <1>4, InitWaitInv DEF BusInv, PlaceInv

LEMMA NextBusInv == BusInv /\ [Next]_vars => BusInv'
<1> SUFFICES ASSUME BusInv, [Next]_vars
             PROVE  BusInv'
  OBVIOUS
<1>1. WaitInv'
  BY NextWaitInv DEF BusInv
<1>2. ASSUME NEW m \in Messages, Send(m) \/ Ask(m) \/ SkipRelay(m) \/ Relay(m) \/ InFlight(m)
      PROVE  PlaceInv'
  <2>1. CASE SkipRelay(m)
    BY <2>1, Unmoved DEF SkipRelay, session, receipts
  <2> QED
    BY <1>2, <2>1, SendPlaces, InFlightPlaces
<1>3. ASSUME UNCHANGED vars
      PROVE  PlaceInv'
  <2>1. UNCHANGED <<mailbox, pending, seen, taken, lost, got>> /\ stage' = stage /\ receipt' = receipt
    BY <1>3 DEF vars, session, receipts
  <2> QED
    BY <2>1, Unmoved
<1>4. ASSUME NEW w \in Waits,
             HubWait(w) \/ TimeOut(w) \/ Interrupted(w) \/ NobodyRuns(w) \/ Verdict(w)
      PROVE  PlaceInv'
  BY <1>4, WaitPlaces
<1>5. ASSUME NEW a \in Agents, Turn(a) \/ Inbox(a) \/ Lifecycle(a)
      PROVE  PlaceInv'
  BY <1>5, AgentPlaces
<1>6. ASSUME Next
      PROVE  PlaceInv'
  BY <1>2, <1>4, <1>5, <1>6 DEF Next
<1> QED
  BY <1>1, <1>3, <1>6 DEF BusInv

LEMMA PositionsIs ==
  ASSUME NEW s, NEW m, IsInjective(s)
  PROVE  /\ m \notin ToSet(s) => Positions(s, m) = {}
         /\ m \in ToSet(s) => \E n : Positions(s, m) = {n}
<1>1. ASSUME m \notin ToSet(s)
      PROVE  Positions(s, m) = {}
  BY <1>1 DEF ToSet, Positions
<1>2. ASSUME m \in ToSet(s)
      PROVE  \E n : Positions(s, m) = {n}
  <2>1. PICK n \in DOMAIN s : s[n] = m
    BY <1>2 DEF ToSet
  <2>2. Positions(s, m) = {n}
    BY <2>1 DEF Positions, IsInjective
  <2> QED
    BY <2>2
<1> QED
  BY <1>1, <1>2

(* Every message is in one place once it has left the bus, in none before. *)
LEMMA PlacesIs ==
  ASSUME BusInv, NEW m \in Messages
  PROVE  IF stage[m] = "out" THEN \E x : Places(m) = {x} ELSE Places(m) = {}
<1>1. PICK at \in [Messages -> PlaceNames] :
        /\ QueueAt(mailbox, at, "mailbox") /\ QueueAt(pending, at, "pending")
        /\ SeenAt(seen, at) /\ SetAt(taken, at, "taken") /\ SetAt(lost, at, "lost")
        /\ HeldAt(got, at) /\ StageAt(stage, at) /\ ReceiptAt(receipt, at)
  BY DEF BusInv, PlaceInv
<1> DEFINE InMailbox == {<<"mailbox", n>> : n \in Positions(mailbox[To[m]], m)}
           InPending == {<<"pending", n>> : n \in Positions(pending[To[m]], m)}
           InWait == {<<"wait", w>> : w \in {v \in Waits : got[v] = m /\ m \notin lost}}
           InSeen == {<<"seen", a>> : a \in {b \in Agents : m \in seen[b]}}
           InTaken == {<<"taken", 0>> : x \in {m} \cap taken}
           InLost == {<<"lost", 0>> : x \in {m} \cap lost}
<1>2. Places(m) = InMailbox \cup InPending \cup InWait \cup InSeen \cup InTaken \cup InLost
  BY DEF Places
<1>3. To[m] \in Agents /\ NoMessage \notin Messages
  BY IrcBusAssumption
<1>4. IF at[m] = "mailbox" THEN \E x : InMailbox = {x} ELSE InMailbox = {}
  <2>1. IsInjective(mailbox[To[m]]) /\ (m \in ToSet(mailbox[To[m]]) <=> at[m] = "mailbox")
    BY <1>1, <1>3 DEF QueueAt
  <2>2. CASE at[m] = "mailbox"
    <3>1. PICK n : Positions(mailbox[To[m]], m) = {n}
      BY <2>1, <2>2, PositionsIs
    <3>2. InMailbox = {<<"mailbox", n>>}
      BY <3>1
    <3> QED
      BY <2>2, <3>2
  <2>3. CASE at[m] # "mailbox"
    <3>1. Positions(mailbox[To[m]], m) = {}
      BY <2>1, <2>3, PositionsIs
    <3> QED
      BY <2>3, <3>1
  <2> QED
    BY <2>2, <2>3
<1>5. IF at[m] = "pending" THEN \E x : InPending = {x} ELSE InPending = {}
  <2>1. IsInjective(pending[To[m]]) /\ (m \in ToSet(pending[To[m]]) <=> at[m] = "pending")
    BY <1>1, <1>3 DEF QueueAt
  <2>2. CASE at[m] = "pending"
    <3>1. PICK n : Positions(pending[To[m]], m) = {n}
      BY <2>1, <2>2, PositionsIs
    <3>2. InPending = {<<"pending", n>>}
      BY <3>1
    <3> QED
      BY <2>2, <3>2
  <2>3. CASE at[m] # "pending"
    <3>1. Positions(pending[To[m]], m) = {}
      BY <2>1, <2>3, PositionsIs
    <3> QED
      BY <2>3, <3>1
  <2> QED
    BY <2>2, <2>3
<1>6. IF at[m] = "held" THEN \E x : InWait = {x} ELSE InWait = {}
  <2>1. m \in lost <=> at[m] = "lost"
    BY <1>1 DEF SetAt
  <2>2. CASE at[m] = "held"
    <3>1. PICK w \in Waits : got[w] = m
      BY <1>1, <2>2 DEF HeldAt
    <3>2. {v \in Waits : got[v] = m /\ m \notin lost} = {w}
      BY <1>1, <1>3, <2>1, <2>2, <3>1 DEF HeldAt
    <3>3. InWait = {<<"wait", w>>}
      BY <3>2
    <3> QED
      BY <2>2, <3>3
  <2>3. CASE at[m] # "held"
    <3>1. {v \in Waits : got[v] = m /\ m \notin lost} = {}
      BY <1>1, <1>3, <2>1, <2>3 DEF HeldAt
    <3>2. InWait = {}
      BY <3>1
    <3> QED
      BY <2>3, <3>2
  <2> QED
    BY <2>2, <2>3
<1>7. IF at[m] = "seen" THEN \E x : InSeen = {x} ELSE InSeen = {}
  <2>1. {b \in Agents : m \in seen[b]} = IF at[m] = "seen" THEN {To[m]} ELSE {}
    BY <1>1, <1>3 DEF SeenAt
  <2>2. CASE at[m] = "seen"
    <3>1. InSeen = {<<"seen", To[m]>>}
      BY <2>1, <2>2
    <3> QED
      BY <2>2, <3>1
  <2>3. CASE at[m] # "seen"
    <3>1. InSeen = {}
      BY <2>1, <2>3
    <3> QED
      BY <2>3, <3>1
  <2> QED
    BY <2>2, <2>3
<1>8. IF at[m] = "taken" THEN InTaken = {<<"taken", 0>>} ELSE InTaken = {}
  BY <1>1 DEF SetAt
<1>9. IF at[m] = "lost" THEN InLost = {<<"lost", 0>>} ELSE InLost = {}
  BY <1>1 DEF SetAt
<1>10. at[m] \in PlaceNames /\ (at[m] = "none" <=> stage[m] # "out")
  BY <1>1 DEF StageAt
<1> HIDE DEF InMailbox, InPending, InWait, InSeen, InTaken, InLost
<1>11. CASE at[m] = "none"
  BY <1>2, <1>4, <1>5, <1>6, <1>7, <1>8, <1>9, <1>10, <1>11
<1>12. CASE at[m] = "mailbox"
  BY <1>2, <1>4, <1>5, <1>6, <1>7, <1>8, <1>9, <1>10, <1>12
<1>13. CASE at[m] = "pending"
  BY <1>2, <1>4, <1>5, <1>6, <1>7, <1>8, <1>9, <1>10, <1>13
<1>14. CASE at[m] = "held"
  BY <1>2, <1>4, <1>5, <1>6, <1>7, <1>8, <1>9, <1>10, <1>14
<1>15. CASE at[m] = "seen"
  BY <1>2, <1>4, <1>5, <1>6, <1>7, <1>8, <1>9, <1>10, <1>15
<1>16. CASE at[m] = "taken"
  BY <1>2, <1>4, <1>5, <1>6, <1>7, <1>8, <1>9, <1>10, <1>16
<1>17. CASE at[m] = "lost"
  BY <1>2, <1>4, <1>5, <1>6, <1>7, <1>8, <1>9, <1>10, <1>17
<1> QED
  BY <1>10, <1>11, <1>12, <1>13, <1>14, <1>15, <1>16, <1>17 DEF PlaceNames

(* A message that left the bus is in the mailbox, the session's queues, a  *)
(* wait, the conversation, the answer of an inbox read, or was dropped: in *)
(* one of them, once.                                                      *)
THEOREM EveryMessageInOnePlace == Spec => []OnePlace
<1>1. BusInv => OnePlace
  <2> SUFFICES ASSUME BusInv, NEW m \in Messages
               PROVE  Cardinality(Places(m)) = IF stage[m] = "out" THEN 1 ELSE 0
    BY DEF OnePlace
  <2>1. CASE stage[m] = "out"
    <3>1. PICK x : Places(m) = {x}
      BY <2>1, PlacesIs
    <3>2. Cardinality({x}) = 1
      BY FS_Singleton
    <3> QED
      BY <2>1, <3>1, <3>2
  <2>2. CASE stage[m] # "out"
    <3>1. Places(m) = {}
      BY <2>2, PlacesIs
    <3>2. Cardinality({}) = 0
      BY FS_EmptySet
    <3> QED
      BY <2>2, <3>1, <3>2
  <2> QED
    BY <2>1, <2>2
<1> QED
  BY <1>1, InitBusInv, NextBusInv, PTL DEF Spec

(* What a receipt says of a message stays true: a delivered one is not in  *)
(* the mailbox, a failed one not in the conversation.                      *)
THEOREM ReceiptsStayTrue == Spec => []ReceiptIsTrue
<1>1. BusInv => ReceiptIsTrue
  <2> SUFFICES ASSUME BusInv, NEW m \in Messages
               PROVE  /\ receipt[m] = "ok" => Positions(mailbox[To[m]], m) = {}
                      /\ receipt[m] = "failed" => \A a \in Agents : m \notin seen[a]
    BY DEF ReceiptIsTrue
  <2>1. PICK at \in [Messages -> PlaceNames] :
          QueueAt(mailbox, at, "mailbox") /\ SeenAt(seen, at) /\ ReceiptAt(receipt, at)
    BY DEF BusInv, PlaceInv
  <2>2. ASSUME receipt[m] = "ok"
        PROVE  Positions(mailbox[To[m]], m) = {}
    <3>1. To[m] \in Agents /\ at[m] # "mailbox"
      BY <2>1, <2>2, IrcBusAssumption DEF ReceiptAt
    <3>2. IsInjective(mailbox[To[m]]) /\ m \notin ToSet(mailbox[To[m]])
      BY <2>1, <3>1 DEF QueueAt
    <3> QED
      BY <3>2, PositionsIs
  <2>3. ASSUME receipt[m] = "failed", NEW a \in Agents
        PROVE  m \notin seen[a]
    BY <2>1, <2>3 DEF SeenAt, ReceiptAt
  <2> QED
    BY <2>2, <2>3
<1> QED
  BY <1>1, InitBusInv, NextBusInv, PTL DEF Spec

-----------------------------------------------------------------------------
(***************************************************************************)
(* A question is open as long as a turn may still be woken by it or owes   *)
(* it a reply: pending, in the turn, or due.  Who was told that the peer   *)
(* stopped asked a question that is no longer open, and what is not open   *)
(* never is again, for only the bus puts messages into a session.          *)
(***************************************************************************)
Open ==
    {q \in Messages : \E a \in Agents :
        q \in ToSet(pending[a]) \/ q \in owed[a] \/ \E t \in due[a] : q \in t.todo}

InBus == {m \in Messages : stage[m] # "out"}

(* A session owes what it received, and only while the turn runs.          *)
OwedAt ==
    \A a \in Agents :
        /\ \A q \in owed[a] : To[q] = a /\ phase[a] = "wake"
        /\ \A t \in due[a] : \A q \in t.todo : To[q] = a

ToldOk == \A q \in Messages : AskWait[q] \in told => q \notin Open \cup InBus

ReplyInv == BusInv /\ OwedAt /\ ToldOk

LEMMA PendingAt ==
  ASSUME BusInv, NEW a \in Agents, NEW q \in ToSet(pending[a])
  PROVE  q \in Messages /\ To[q] = a
BY DEF BusInv, PlaceInv, QueueAt

(* Steps that open no question that has left the bus.                      *)
LEMMA NothingOpens ==
  ASSUME ReplyInv, told' = told, Open' \cup InBus' \subseteq Open \cup InBus
  PROVE  ToldOk'
BY DEF ReplyInv, ToldOk

LEMMA RelaysLeft ==
  ASSUME ReplyInv, NEW m \in Messages, due' = Relayed(m) \/ due' = due
  PROVE  \A a \in Agents : \A t \in due'[a] : \E u \in due[a] : t.todo \subseteq u.todo
<1>1. due \in [Agents -> SUBSET WakeTurns]
  BY DEF ReplyInv, BusInv, WaitInv, TypeOK
<1>2. \A a \in Agents : \A t \in Relayed(m)[a] : \E u \in due[a] : t.todo \subseteq u.todo
  BY <1>1, RelayedIs
<1>3. CASE due' = Relayed(m)
  BY <1>2, <1>3
<1>4. CASE due' = due
  BY <1>4
<1> QED
  BY <1>3, <1>4

LEMMA OpenKept ==
  ASSUME UNCHANGED <<pending, owed, due, stage>>
  PROVE  Open' = Open /\ InBus' = InBus
BY DEF Open, InBus

(* send(): the message may open, and a relay closes what it answers.       *)
LEMMA LeavesOpen ==
  ASSUME ReplyInv, NEW m \in Messages, stage[m] # "out", NEW b,
         Refuse(m, b) \/ AwaitLive(m, b) \/ HandOver(m, b)
            \/ (Fails(m, b) /\ stage' = [stage EXCEPT ![m] = "refused"]
                  /\ UNCHANGED <<session, before, mailbox, got, verdicts, taken>>)
  PROVE  /\ OwedAt' /\ ToldOk'
         /\ \A k \in Messages \ {m} : stage'[k] = stage[k]
<1>1. /\ due \in [Agents -> SUBSET WakeTurns] /\ pending \in [Agents -> Seq(Messages)]
      /\ owed \in [Agents -> SUBSET Messages]
      /\ phase \in [Agents -> {"idle", "turn", "wake", "settling"}]
      /\ stage \in [Messages -> {"unsent", "gate", "passed", "bounced", "refused", "out"}]
      /\ To[m] \in Agents
  BY IrcBusAssumption DEF ReplyInv, BusInv, WaitInv, TypeOK
<1>2. ASSUME due' = Relayed(m) \/ due' = due
      PROVE  \A a \in Agents : \A t \in due'[a] : \E u \in due[a] : t.todo \subseteq u.todo
  BY <1>2, RelaysLeft
<1>3. \A k \in Messages \ {m} : stage'[k] = stage[k]
  BY <1>1 DEF Refuse, AwaitLive, HandOver, ToWaiter, NoSession, ToDying, ToBusy, ToIdle
<1>4. /\ due' = Relayed(m) \/ due' = due
      /\ told' = told
  BY DEF Refuse, AwaitLive, HandOver, ToWaiter, NoSession, ToDying, ToBusy, ToIdle, Fails, Settled,
     verdicts, replies
<1>5. InBus' \subseteq InBus
  BY <1>3 DEF InBus
<1>6. ASSUME phase' = phase, owed' = owed,
             \A a \in Agents : ToSet(pending'[a]) \subseteq ToSet(pending[a]) \cup {m}
      PROVE  OwedAt' /\ ToldOk'
  <2>1. OwedAt'
    BY <1>2, <1>4, <1>6 DEF ReplyInv, OwedAt
  <2>2. Open' \subseteq Open \cup {m}
    BY <1>2, <1>4, <1>6 DEF Open
  <2>3. m \in InBus
    BY DEF InBus
  <2> QED
    BY <1>4, <1>5, <2>1, <2>2, <2>3, NothingOpens
<1>7. CASE ToIdle(m, b)
  <2>1. /\ WakeFor(To[m], <<m>>) /\ pending' = pending /\ To[m] \in Agents
    BY <1>1, <1>7 DEF ToIdle
  <2>2. Wakers(<<m>>) \subseteq {m} \cap Answerable
    <3>1. <<m>> \in Seq(Messages)
      OBVIOUS
    <3>2. Wakers(<<m>>) \subseteq ToSet(<<m>>) \cap Answerable
      BY <3>1, WakersAre
    <3> QED
      BY <3>2, OneIs
  <2>3. To[m] \notin Adopted => Wakers(<<m>>) = {}
    BY <2>2, IrcBusAssumption DEF Answerable
  <2>4. /\ owed' = [owed EXCEPT ![To[m]] = Wakers(<<m>>)]
        /\ phase' = [phase EXCEPT ![To[m]] = IF To[m] \in Adopted THEN "wake" ELSE "turn"]
    BY <2>1 DEF WakeFor
  <2>5. OwedAt'
    BY <1>1, <1>2, <1>4, <2>2, <2>3, <2>4 DEF ReplyInv, OwedAt
  <2>6. Open' \subseteq Open \cup {m}
    BY <1>1, <1>2, <1>4, <2>1, <2>2, <2>4 DEF Open
  <2>7. m \in InBus
    BY DEF InBus
  <2> QED
    BY <1>3, <1>4, <1>5, <2>5, <2>6, <2>7, NothingOpens
<1>8. CASE ToBusy(m, b)
  <2>1. /\ phase' = phase /\ owed' = owed
        /\ pending' = [pending EXCEPT ![To[m]] = Append(@, m)]
    BY <1>8 DEF ToBusy
  <2>2. ToSet(Append(pending[To[m]], m)) = ToSet(pending[To[m]]) \cup {m}
    BY <1>1, AppendedIs
  <2>3. \A a \in Agents : ToSet(pending'[a]) \subseteq ToSet(pending[a]) \cup {m}
    BY <1>1, <2>1, <2>2
  <2> QED
    BY <1>3, <1>6, <2>1, <2>3
<1>9. CASE ~ToIdle(m, b) /\ ~ToBusy(m, b)
  <2>1. UNCHANGED session
    BY <1>9 DEF Refuse, AwaitLive, HandOver, ToWaiter, NoSession, ToDying
  <2> QED
    BY <1>3, <1>6, <2>1 DEF session
<1> QED
  BY <1>7, <1>8, <1>9

LEMMA SubmitOpen ==
  ASSUME ReplyInv, NEW m \in Messages, NEW b, Submit(m, b)
  PROVE  /\ OwedAt' /\ ToldOk'
         /\ stage[m] = "unsent" /\ \A k \in Messages \ {m} : stage'[k] = stage[k]
BY LeavesOpen DEF Submit

(* A relay that was unsent is sent only by the turn that owes it.          *)
LEMMA MessageSteps ==
  ASSUME ReplyInv, NEW m \in Messages,
         Send(m) \/ Ask(m) \/ SkipRelay(m) \/ Relay(m) \/ InFlight(m)
  PROVE  /\ OwedAt' /\ ToldOk'
         /\ \A q \in Messages :
              RelayOf[q] # NoMessage /\ stage[RelayOf[q]] = "unsent"
                /\ stage'[RelayOf[q]] # "unsent" => q \in Open
<1> DEFINE Owing == \A q \in Messages :
              RelayOf[q] # NoMessage /\ stage[RelayOf[q]] = "unsent"
                /\ stage'[RelayOf[q]] # "unsent" => q \in Open
<1>0. WaitInv /\ \A q \in Messages : RelayOf[q] # NoMessage => RelayOf[q] \in Messages \cap Relays
  BY IrcBusAssumption DEF ReplyInv, BusInv, Relays
<1>1. ASSUME m \notin Relays, NEW b, Submit(m, b)
      PROVE  OwedAt' /\ ToldOk' /\ Owing
  BY <1>0, <1>1, SubmitOpen
<1>2. CASE Send(m)
  BY <1>1, <1>2 DEF Send
<1>3. CASE Ask(m)
  <2>1. m \notin Relays
    BY <1>3, IrcBusAssumption DEF Ask
  <2> QED
    BY <1>1, <1>3, <2>1 DEF Ask
<1>4. ASSUME NEW q \in Messages, NEW t \in due[To[q]], q \in t.todo
      PROVE  RelayOf[q] \in Messages /\ RelayOf[q] # NoMessage /\ q \in Open
  BY <1>0, <1>4, DueIs DEF Open
<1>5. CASE SkipRelay(m)
  <2>1. RelayOf[m] \in Messages
    BY <1>4, <1>5 DEF SkipRelay
  <2>2. /\ due' = Relayed(RelayOf[m]) /\ UNCHANGED <<session, stage, verdicts>>
    BY <1>5 DEF SkipRelay
  <2>3. \A a \in Agents : \A t \in due'[a] : \E u \in due[a] : t.todo \subseteq u.todo
    BY <2>1, <2>2, RelaysLeft
  <2>4. OwedAt'
    BY <2>2, <2>3 DEF ReplyInv, OwedAt, session
  <2>5. Open' \subseteq Open /\ InBus' = InBus
    BY <2>2, <2>3 DEF Open, InBus, session
  <2> QED
    BY <2>2, <2>4, <2>5, NothingOpens DEF verdicts
<1>6. CASE Relay(m)
  <2>1. RelayOf[m] \in Messages /\ RelayOf[m] # NoMessage /\ m \in Open
    BY <1>4, <1>6 DEF Relay
  <2>2. Submit(RelayOf[m], Now)
    BY <1>6 DEF Relay
  <2>3. /\ OwedAt' /\ ToldOk'
        /\ \A k \in Messages \ {RelayOf[m]} : stage'[k] = stage[k]
    BY <2>1, <2>2, SubmitOpen
  <2>4. \A q \in Messages : RelayOf[q] = RelayOf[m] => q = m
    BY <2>1, IrcBusAssumption
  <2> QED
    BY <1>0, <2>1, <2>3, <2>4
<1>7. CASE GateOpens(m)
  <2>1. /\ UNCHANGED <<pending, owed, due, phase, told>>
        /\ stage[m] = "gate" /\ stage' = [stage EXCEPT ![m] = "passed"]
    BY <1>7 DEF GateOpens, session, replies, verdicts
  <2>2. InBus' = InBus /\ Owing
    BY <1>0, <2>1 DEF InBus, WaitInv, TypeOK
  <2>3. Open' = Open
    BY <2>1 DEF Open
  <2>4. OwedAt'
    BY <2>1 DEF ReplyInv, OwedAt
  <2> QED
    BY <2>1, <2>2, <2>3, <2>4, NothingOpens
<1>8. CASE GateFails(m)
  BY <1>0, <1>8, LeavesOpen DEF GateFails
<1>9. CASE Proceed(m)
  BY <1>0, <1>9, LeavesOpen DEF Proceed
<1>10. CASE Bounce(m)
  <2>1. /\ UNCHANGED <<pending, owed, phase, told>> /\ due' = Relayed(m)
        /\ stage[m] = "bounced" /\ stage' = [stage EXCEPT ![m] = "out"]
    BY <1>10 DEF Bounce, Settled, session, verdicts
  <2>2. InBus' \subseteq InBus /\ Owing
    BY <1>0, <2>1 DEF InBus, WaitInv, TypeOK
  <2>3. \A a \in Agents : \A t \in due'[a] : \E u \in due[a] : t.todo \subseteq u.todo
    BY <2>1, RelaysLeft
  <2>4. Open' \subseteq Open
    BY <2>1, <2>3 DEF Open
  <2>5. OwedAt'
    BY <2>1, <2>3 DEF ReplyInv, OwedAt
  <2> QED
    BY <2>1, <2>2, <2>4, <2>5, NothingOpens
<1> QED
  BY <1>2, <1>3, <1>5, <1>6, <1>7, <1>8, <1>9, <1>10 DEF InFlight

(* Who awaits a peer that owes nothing asked a question that is not open,  *)
(* once it was read.                                                       *)
LEMMA NothingOwed ==
  ASSUME ReplyInv, NEW w \in Asks, ~OwesReplies(Filter[w]), QuestionRead(w),
         NEW q \in Messages, AskWait[q] = w
  PROVE  q \notin Open \cup InBus
<1> DEFINE a == To[q]
<1>1. w # NoWait /\ Filter[w] = a /\ a \in Agents
  BY IrcBusAssumption DEF Asks
<1>2. PICK k \in Messages : AskWait[k] = w /\ stage[k] = "out" /\ k \notin ToSet(pending[To[k]])
  BY DEF QuestionRead
<1>3. k = q
  BY <1>1, <1>2, IrcBusAssumption
<1>4. phase[a] # "wake" /\ due[a] = {}
  BY <1>1 DEF OwesReplies
<1>5. ASSUME NEW c \in Agents
      PROVE  /\ q \notin ToSet(pending[c]) /\ q \notin owed[c]
             /\ \A t \in due[c] : q \notin t.todo
  <2>1. q \notin ToSet(pending[c])
    BY <1>2, <1>3, PendingAt DEF ReplyInv
  <2>2. q \notin owed[c] /\ \A t \in due[c] : q \notin t.todo
    BY <1>4 DEF ReplyInv, OwedAt
  <2> QED
    BY <2>1, <2>2
<1> QED
  BY <1>2, <1>3, <1>5 DEF Open, InBus

(* Verdicts, when those who are told await one peer that owes nothing.     *)
LEMMA VerdictsClose ==
  ASSUME ReplyInv, NEW now \in SUBSET Asks,
         \A w \in now : ~OwesReplies(Filter[w]),
         told' = told \cup {w \in now : QuestionRead(w)},
         Open' \cup InBus' \subseteq Open \cup InBus
  PROVE  ToldOk'
<1> SUFFICES ASSUME NEW q \in Messages, AskWait[q] \in told'
             PROVE  q \notin Open \cup InBus
  BY DEF ToldOk
<1>1. CASE AskWait[q] \in told
  BY <1>1 DEF ReplyInv, ToldOk
<1>2. CASE AskWait[q] \in now /\ QuestionRead(AskWait[q])
  BY <1>2, NothingOwed
<1> QED
  BY <1>1, <1>2

LEMMA WaitSteps ==
  ASSUME ReplyInv, NEW w \in Waits,
         HubWait(w) \/ TimeOut(w) \/ Interrupted(w) \/ NobodyRuns(w) \/ Verdict(w)
  PROVE  OwedAt' /\ ToldOk' /\ stage' = stage
<1>1. CASE HubWait(w)
  <2> DEFINE a == Owner[w]
             p == pending[a]
             n == FirstOf(w, p)
  <2>1. /\ UNCHANGED <<phase, owed, due, stage, told>> /\ a \in Agents
        /\ pending \in [Agents -> Seq(Messages)]
    BY <1>1, IrcBusAssumption DEF HubWait, replies, verdicts, ReplyInv, BusInv, WaitInv, TypeOK
  <2>2. \A c \in Agents : ToSet(pending'[c]) \subseteq ToSet(pending[c])
    <3>1. CASE pending' = pending
      BY <3>1
    <3>2. CASE Readable(w, p) # {} /\ pending' = [pending EXCEPT ![a] = RemoveAt(p, n)]
      <4>1. n \in DOMAIN p /\ p \in Seq(Messages)
        BY <2>1, <3>2, FirstIsReadable
      <4>2. IsInjective(p)
        BY <2>1 DEF ReplyInv, BusInv, PlaceInv, QueueAt
      <4> HIDE DEF n, p
      <4>3. ToSet(RemoveAt(p, n)) \subseteq ToSet(p)
        BY <4>1, <4>2, RemovedIs
      <4> QED
        BY <2>1, <3>2, <4>3 DEF p
    <3> QED
      BY <1>1, <3>1, <3>2 DEF HubWait, TakeOut
  <2>3. OwedAt' /\ Open' \subseteq Open /\ InBus' = InBus
    BY <2>1, <2>2 DEF ReplyInv, OwedAt, Open, InBus
  <2> QED
    BY <2>1, <2>3, NothingOpens
<1>2. ASSUME NEW why \in {"timeout", "aborted"}, WaitEnds(w, why)
      PROVE  OwedAt' /\ ToldOk' /\ stage' = stage
  <2>1. UNCHANGED <<phase, pending, owed, due, stage, told>>
    BY <1>2 DEF WaitEnds, session, replies, verdicts
  <2>2. OwedAt'
    BY <2>1 DEF ReplyInv, OwedAt
  <2> QED
    BY <2>1, <2>2, OpenKept, NothingOpens
<1>3. CASE Verdict(w)
  <2> DEFINE now == {w} \cap WaitingOf(Owner[w])
  <2>1. /\ UNCHANGED <<phase, pending, owed, due, stage>>
        /\ told' = told \cup {v \in now : QuestionRead(v)}
        /\ w \in ended /\ ~OwesReplies(Filter[w])
    BY <1>3 DEF Verdict, session, replies
  <2>2. now \in SUBSET Asks /\ \A v \in now : ~OwesReplies(Filter[v])
    BY <2>1 DEF ReplyInv, BusInv, WaitInv, TypeOK
  <2> HIDE DEF now
  <2>3. OwedAt'
    BY <2>1 DEF ReplyInv, OwedAt
  <2>4. ToldOk'
    BY <2>1, <2>2, OpenKept, VerdictsClose
  <2> QED
    BY <2>1, <2>3, <2>4
<1> QED
  BY <1>1, <1>2, <1>3 DEF TimeOut, Interrupted, NobodyRuns

(* The turn that is over owes what it owed.                                *)
LEMMA TurnOverOpen ==
  ASSUME ReplyInv, NEW a \in Agents, NEW failed \in BOOLEAN, TurnOver(a, failed),
         \A c \in Agents \ {a} : phase'[c] = phase[c],
         \A c \in Agents : ToSet(pending'[c]) \subseteq ToSet(pending[c])
  PROVE  OwedAt' /\ Open' \subseteq Open
<1>1. owed \in [Agents -> SUBSET Messages] /\ due \in [Agents -> SUBSET WakeTurns]
  BY DEF ReplyInv, BusInv, WaitInv, TypeOK
<1>2. owed' = [owed EXCEPT ![a] = {}]
  BY DEF TurnOver
<1>3. ASSUME NEW c \in Agents, NEW t \in due'[c]
      PROVE  t \in due[c] \/ (c = a /\ t.todo = owed[a])
  <2>1. due' = due \/ due' = [due EXCEPT ![a] = @ \cup {[todo |-> owed[a], failed |-> failed]}]
    BY DEF TurnOver
  <2>2. [todo |-> owed[a], failed |-> failed].todo = owed[a]
    OBVIOUS
  <2> QED
    BY <1>1, <1>3, <2>1, <2>2
<1>4. OwedAt'
  BY <1>1, <1>2, <1>3 DEF ReplyInv, OwedAt
<1>5. Open' \subseteq Open
  BY <1>1, <1>2, <1>3 DEF Open
<1> QED
  BY <1>4, <1>5

(* A terminal end tells those who await an agent that owes nothing.        *)
LEMMA StopsClose ==
  ASSUME ReplyInv, NEW a \in Agents, NEW askers \in SUBSET AskersOf(a), NEW aborted,
         Stops(a, askers, aborted), Open' \subseteq Open, stage' = stage
  PROVE  ToldOk'
<1> DEFINE now == IF OwesReplies(a) THEN {} ELSE askers
<1>1. told' = told \cup {w \in now : QuestionRead(w)}
  BY DEF Stops
<1>2. now \in SUBSET Asks /\ \A w \in now : ~OwesReplies(Filter[w])
  BY DEF AskersOf
<1>3. InBus' = InBus
  BY DEF InBus
<1> HIDE DEF now
<1> QED
  BY <1>1, <1>2, <1>3, VerdictsClose

LEMMA AgentSteps ==
  ASSUME ReplyInv, NEW a \in Agents, Turn(a) \/ Inbox(a) \/ Lifecycle(a)
  PROVE  OwedAt' /\ ToldOk' /\ stage' = stage
<1>0. /\ pending \in [Agents -> Seq(Messages)] /\ owed \in [Agents -> SUBSET Messages]
      /\ due \in [Agents -> SUBSET WakeTurns]
      /\ phase \in [Agents -> {"idle", "turn", "wake", "settling"}]
  BY DEF ReplyInv, BusInv, WaitInv, TypeOK
<1>1. ASSUME pending' = [pending EXCEPT ![a] = <<>>] \/ pending' = pending
      PROVE  \A c \in Agents : ToSet(pending'[c]) \subseteq ToSet(pending[c])
  BY <1>0, <1>1, EmptyIs
<1>2. ASSUME UNCHANGED <<owed, due, stage, told>>,
             pending' = [pending EXCEPT ![a] = <<>>] \/ pending' = pending,
             \A c \in Agents : phase[c] = "wake" => phase'[c] = "wake"
      PROVE  OwedAt' /\ ToldOk' /\ stage' = stage
  <2>1. OwedAt' /\ Open' \subseteq Open /\ InBus' = InBus
    BY <1>1, <1>2 DEF ReplyInv, OwedAt, Open, InBus
  <2> QED
    BY <1>2, <2>1, NothingOpens
<1>3. CASE Prompt(a)
  <2>1. /\ UNCHANGED <<owed, due, stage, told>> /\ pending' = [pending EXCEPT ![a] = <<>>]
        /\ phase' = [phase EXCEPT ![a] = "turn"] /\ phase[a] # "wake"
    BY <1>3 DEF Prompt, Resting, Running, replies, verdicts
  <2> QED
    BY <1>0, <1>2, <2>1
<1>4. CASE StepBoundary(a) \/ NewSession(a) \/ Inbox(a)
  BY <1>2, <1>4 DEF StepBoundary, NewSession, Inbox, replies, verdicts
<1>5. ASSUME NEW failed \in BOOLEAN, EndTurn(a, failed)
      PROVE  OwedAt' /\ ToldOk' /\ stage' = stage
  <2>1. /\ TurnOver(a, failed) /\ UNCHANGED <<pending, stage>>
        /\ Stops(a, IF pending[a] = <<>> THEN AskersOf(a) ELSE {}, {})
        /\ \A c \in Agents \ {a} : phase'[c] = phase[c]
    BY <1>0, <1>5 DEF EndTurn
  <2>2. OwedAt' /\ Open' \subseteq Open
    BY <2>1, TurnOverOpen
  <2>3. (IF pending[a] = <<>> THEN AskersOf(a) ELSE {}) \in SUBSET AskersOf(a)
    OBVIOUS
  <2> QED
    BY <2>1, <2>2, <2>3, StopsClose
<1>6. ASSUME NEW failed \in BOOLEAN, Abort(a, failed)
      PROVE  OwedAt' /\ ToldOk' /\ stage' = stage
  <2>1. /\ TurnOver(a, failed) /\ UNCHANGED <<pending, stage>>
        /\ Stops(a, AskersOf(a), WaitingOf(a))
        /\ \A c \in Agents \ {a} : phase'[c] = phase[c]
    BY <1>0, <1>6 DEF Abort
  <2>2. OwedAt' /\ Open' \subseteq Open
    BY <2>1, TurnOverOpen
  <2> QED
    BY <2>1, <2>2, StopsClose
<1>7. CASE RelaysAreOut(a)
  <2>1. /\ UNCHANGED <<owed, pending, stage, told>>
        /\ \A c \in Agents : due'[c] \subseteq due[c]
        /\ \A c \in Agents : phase[c] = "wake" => phase'[c] = "wake"
    BY <1>0, <1>7 DEF RelaysAreOut, verdicts
  <2>2. OwedAt' /\ Open' \subseteq Open /\ InBus' = InBus
    BY <2>1 DEF ReplyInv, OwedAt, Open, InBus
  <2> QED
    BY <2>1, <2>2, NothingOpens
<1>8. CASE Resume(a)
  <2>1. /\ pending' = [pending EXCEPT ![a] = <<>>] /\ UNCHANGED <<due, stage, told>>
        /\ WakeFor(a, pending[a]) /\ pending[a] \in Seq(Messages)
    BY <1>0, <1>8 DEF Resume, verdicts
  <2>2. Wakers(pending[a]) \subseteq ToSet(pending[a]) \cap Answerable
    BY <2>1, WakersAre
  <2>3. \A q \in Wakers(pending[a]) : To[q] = a /\ a \in Adopted
    BY <2>2, PendingAt, IrcBusAssumption DEF ReplyInv, Answerable
  <2>4. /\ owed' = [owed EXCEPT ![a] = Wakers(pending[a])]
        /\ phase' = [phase EXCEPT ![a] = IF a \in Adopted THEN "wake" ELSE "turn"]
    BY <2>1 DEF WakeFor
  <2>5. OwedAt'
    BY <1>0, <2>1, <2>3, <2>4 DEF ReplyInv, OwedAt
  <2>6. Open' \subseteq Open /\ InBus' = InBus
    BY <1>0, <1>1, <2>1, <2>2, <2>4 DEF Open, InBus
  <2> QED
    BY <2>1, <2>5, <2>6, NothingOpens
<1>9. CASE Park(a) \/ Revive(a) \/ Detach(a)
  BY <1>2, <1>9 DEF Park, Revive, Detach, replies, verdicts
<1>10. CASE Dispose(a)
  <2>1. PICK failed \in BOOLEAN : TurnOver(a, failed)
    BY <1>10 DEF Dispose
  <2>2. /\ pending' = [pending EXCEPT ![a] = <<>>] /\ UNCHANGED <<stage, told>>
        /\ \A c \in Agents \ {a} : phase'[c] = phase[c]
    BY <1>0, <1>10 DEF Dispose, verdicts
  <2>3. OwedAt' /\ Open' \subseteq Open /\ InBus' = InBus
    BY <1>1, <2>1, <2>2, TurnOverOpen DEF InBus
  <2> QED
    BY <2>2, <2>3, NothingOpens
<1> QED
  BY <1>3, <1>4, <1>5, <1>6, <1>7, <1>8, <1>9, <1>10 DEF Turn, Lifecycle

LEMMA InitReplyInv == Init => ReplyInv
<1> SUFFICES ASSUME Init
             PROVE  ReplyInv
  OBVIOUS
<1>1. OwedAt /\ told = {}
  BY DEF Init, OwedAt
<1> QED
  BY <1>1, InitBusInv DEF ReplyInv, ToldOk

LEMMA NextReplyInv == ReplyInv /\ [Next]_vars => ReplyInv'
<1> SUFFICES ASSUME ReplyInv, [Next]_vars
             PROVE  ReplyInv'
  OBVIOUS
<1>1. BusInv'
  BY NextBusInv DEF ReplyInv
<1>2. CASE Next
  BY <1>1, <1>2, MessageSteps, WaitSteps, AgentSteps DEF Next, ReplyInv
<1>3. CASE UNCHANGED vars
  <2>1. UNCHANGED <<phase, pending, owed, due, stage, told>>
    BY <1>3 DEF vars, session, replies, verdicts
  <2>2. OwedAt'
    BY <2>1 DEF ReplyInv, OwedAt
  <2> QED
    BY <1>1, <2>1, <2>2, OpenKept, NothingOpens DEF ReplyInv
<1> QED
  BY <1>2, <1>3

(* An asker told that its peer stopped is not answered by the turn its     *)
(* question woke, however the ends, the relays, further wakes and kills of *)
(* any number of agents go: the output of that turn is out, or never will. *)
THEOREM VerdictsAreFinal == Spec => VerdictIsFinal
<1> DEFINE A == \A q \in Messages :
                   RelayOf[q] # NoMessage /\ stage[RelayOf[q]] = "unsent"
                      /\ stage'[RelayOf[q]] # "unsent"
                   => AskWait[q] \notin told
<1>1. ASSUME ReplyInv, [Next]_vars, NEW q \in Messages, RelayOf[q] # NoMessage,
             stage[RelayOf[q]] = "unsent", stage'[RelayOf[q]] # "unsent"
      PROVE  AskWait[q] \notin told
  <2>1. stage' # stage
    BY <1>1
  <2>2. PICK m \in Messages : Send(m) \/ Ask(m) \/ SkipRelay(m) \/ Relay(m) \/ InFlight(m)
    BY <1>1, <2>1, WaitSteps, AgentSteps DEF Next, vars
  <2>3. q \in Open
    BY <1>1, <2>2, MessageSteps
  <2> QED
    BY <1>1, <2>3 DEF ReplyInv, ToldOk
<1>2. ReplyInv /\ [Next]_vars => [A]_vars
  BY <1>1
<1> QED
  BY <1>2, InitReplyInv, NextReplyInv, PTL DEF Spec, VerdictIsFinal
=============================================================================
