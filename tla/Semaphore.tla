----------------------------- MODULE Semaphore -----------------------------
(***************************************************************************)
(* The counting semaphore of packages/coding-agent/src/task/parallel.ts as *)
(* a value and the operations on it.  A semaphore is a record:             *)
(*                                                                         *)
(*   max       the ceiling, 0 standing for the unbounded one               *)
(*             (Number.POSITIVE_INFINITY in the code)                      *)
(*   current   the permits handed out                                      *)
(*   queue     the callers whose acquire() is pending, oldest first        *)
(*   admitted  the callers whose acquire() promise is resolved but whose   *)
(*             continuation has not run yet; each owns a permit            *)
(*                                                                         *)
(* JavaScript runs every operation to completion, so each is one operator  *)
(* from semaphores to semaphores.  Modules that hold a semaphore in their  *)
(* state (SpawnSlots, ProviderSlots) apply them.                           *)
(***************************************************************************)
EXTENDS Integers, Sequences

SemaphoresOf(Callers) ==
    [max : Nat, current : Nat, queue : Seq(Callers), admitted : SUBSET Callers]

(* Any configured value that is not positive means "unlimited". *)
NormalizeConcurrencyLimit(max) == IF max > 0 THEN max ELSE 0

HasRoom(s) == s.max = 0 \/ s.current < s.max

NewSemaphore(max) ==
    [max |-> NormalizeConcurrencyLimit(max), current |-> 0,
     queue |-> <<>>, admitted |-> {}]

(* Admit the n oldest waiters: the body of both admission loops. *)
AdmitFirst(s, n) ==
    [s EXCEPT !.current = @ + n,
              !.queue = SubSeq(@, n + 1, Len(@)),
              !.admitted = @ \cup {s.queue[i] : i \in 1..n}]

(* Variant: a caller that has to wait goes to the front.                   *)
AcquireLast(s, c) ==
    IF HasRoom(s)
    THEN [s EXCEPT !.current = @ + 1, !.admitted = @ \cup {c}]
    ELSE [s EXCEPT !.queue = <<c>> \o @]

(* acquire(): the caller takes a permit at once or joins the queue. *)
Acquire(s, c) ==
    IF HasRoom(s)
    THEN [s EXCEPT !.current = @ + 1, !.admitted = @ \cup {c}]
    ELSE [s EXCEPT !.queue = Append(@, c)]

(* Variant: an abandoned waiter stays in the queue.                        *)
StayQueued(s, c) == s

(* onAbort: a pending acquire() leaves the queue from wherever it stands. *)
Abandon(s, c) ==
    LET i == CHOOSE j \in 1..Len(s.queue) : s.queue[j] = c
    IN  [s EXCEPT !.queue = SubSeq(@, 1, i - 1) \o SubSeq(@, i + 1, Len(@))]

(* release(): return one permit, then admit one waiter if one fits. *)
Release(s) ==
    LET returned == [s EXCEPT !.current = IF @ > 0 THEN @ - 1 ELSE @]
    IN  IF HasRoom(returned) /\ returned.queue # <<>>
        THEN AdmitFirst(returned, 1)
        ELSE returned

(* The number of waiters the loop of resize() admits. *)
Fitting(s) ==
    CASE s.max = 0                          -> Len(s.queue)
      [] s.max > 0 /\ s.max <= s.current    -> 0
      [] OTHER -> IF s.max - s.current < Len(s.queue)
                  THEN s.max - s.current
                  ELSE Len(s.queue)

(* resize(): change the ceiling in place and admit whoever fits now. *)
Resize(s, max) ==
    LET resized == [s EXCEPT !.max = NormalizeConcurrencyLimit(max)]
    IN  AdmitFirst(resized, Fitting(resized))

(* The await of an admitted caller returns: the caller goes on, with its   *)
(* permit, whatever its signal says by then.                               *)
Resume(s, c) == [s EXCEPT !.admitted = @ \ {c}]

Pending(s) == {s.queue[i] : i \in 1..Len(s.queue)}
=============================================================================
