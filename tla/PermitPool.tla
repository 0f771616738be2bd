---------------------------- MODULE PermitPool ----------------------------
(***************************************************************************)
(* What a concurrency limiter promises, without its counters: a set of     *)
(* callers that own one permit each, a line of callers that wait for one,  *)
(* and a ceiling that may change at any time (0: unlimited).               *)
(*                                                                         *)
(* There is no counter that could drift, and a permit cannot be given back *)
(* twice: owners are a set.  Whatever a step does first, it ends by        *)
(* admitting waiters, oldest first, until the line is empty or the ceiling *)
(* is reached, and never beyond the ceiling.  Callers that exceed a        *)
(* ceiling lowered under them keep their permits.                          *)
(*                                                                         *)
(* SpawnSlots and ProviderSlots implement this specification with the      *)
(* semaphore of packages/coding-agent/src/task/parallel.ts.                *)
(***************************************************************************)
EXTENDS Naturals, Sequences, FiniteSets

CONSTANT Callers

VARIABLES ceiling,  \* how many callers may own a permit, 0 for any number
          waiting,  \* the callers in line, oldest first
          owners    \* the callers that own a permit

vars == <<ceiling, waiting, owners>>

Init ==
    /\ ceiling \in Nat
    /\ waiting = <<>>
    /\ owners = {}

(* No more callers fit when o own a permit under ceiling m. *)
Full(m, o) == m # 0 /\ Cardinality(o) >= m

(* From line w and owners o, the n oldest are admitted: nobody is left     *)
(* waiting beside a free permit and nobody is admitted above the ceiling.  *)
Admit(w, o) ==
    \E n \in 0..Len(w) :
       /\ waiting' = SubSeq(w, n + 1, Len(w))
       /\ owners' = o \cup {w[i] : i \in 1..n}
       /\ waiting' # <<>> => Full(ceiling', owners')
       /\ n > 0 => ceiling' = 0 \/ Cardinality(owners') <= ceiling'

Acquire(c) ==
    /\ c \notin owners
    /\ \A i \in 1..Len(waiting) : waiting[i] # c
    /\ Admit(Append(waiting, c), owners)

Release(c) ==
    /\ c \in owners
    /\ Admit(waiting, owners \ {c})

Resize == Admit(waiting, owners)

(* The caller at place i gives up; the others keep their order. *)
Abandon(i) ==
    /\ waiting' = SubSeq(waiting, 1, i - 1) \o SubSeq(waiting, i + 1, Len(waiting))
    /\ UNCHANGED <<ceiling, owners>>

(* Every step may find a new ceiling in force. *)
Next ==
    /\ ceiling' \in Nat
    /\ \/ \E c \in Callers : Acquire(c) \/ Release(c)
       \/ Resize
       \/ \E i \in 1..Len(waiting) : Abandon(i)

Spec == Init /\ [][Next]_vars
=============================================================================
