----------------------------- MODULE EventStore -----------------------------
(***************************************************************************)
(* The events table of python/robomp/src/db.py, as a value and the         *)
(* statements on it.  A row is a record:                                   *)
(*                                                                         *)
(*   state     "none" while no row has that delivery id                    *)
(*   attempts  how often the row was claimed, counted up to one more than  *)
(*             the retry budget: every count past the budget is refused a  *)
(*             retry alike                                                 *)
(*   due       available_at is NULL or has passed                          *)
(*                                                                         *)
(* The order of received_at is kept beside the rows, as a relation.        *)
(* A row without an issue key is a row with a key of its own: both the     *)
(* claim query and the dispatcher treat it so.                             *)
(***************************************************************************)
EXTENDS Naturals

CONSTANTS Events,     \* delivery ids
          Keys,       \* issue keys
          KeyOf,      \* the issue of a delivery
          MaxRetries  \* event_max_retries

ASSUME EventStoreAssumption ==
    /\ KeyOf \in [Events -> Keys]
    /\ MaxRetries \in Nat

States == {"none", "queued", "running", "done", "failed", "skipped"}
Inactive == {"done", "failed", "skipped"}

Rows == [state : States, attempts : 0..(MaxRetries + 1), due : BOOLEAN]
Tables == [Events -> Rows]

NewRow(s) == [state |-> s, attempts |-> 0, due |-> TRUE]
EmptyTable == [e \in Events |-> NewRow("none")]

(* A queued row whose backoff is over and whose issue has no running row. *)
Claimable(t, e) ==
    /\ t[e].state = "queued"
    /\ t[e].due
    /\ \A f \in Events : t[f].state = "running" => KeyOf[f] # KeyOf[e]

(* The oldest such row, and the update of the same transaction. *)
NextToClaim(t, older, e) ==
    /\ Claimable(t, e)
    /\ \A f \in Events : Claimable(t, f) => <<f, e>> \notin older

ClaimRow(t, e) ==
    [t EXCEPT ![e].state = "running",
              ![e].attempts = IF @ <= MaxRetries THEN @ + 1 ELSE @]

MarkEvent(t, e, s) == [t EXCEPT ![e].state = s]

RequeueEvent(t, e) == [t EXCEPT ![e].state = "queued", ![e].due = TRUE]

(* Variant: the counter starts anew with every retry. *)
ScheduleFreshRetry(t, e) ==
    [t EXCEPT ![e].state = "queued", ![e].attempts = 0, ![e].due = FALSE]

ScheduleRetry(t, e) == [t EXCEPT ![e].state = "queued", ![e].due = FALSE]

HasRetriesLeft(t, e) == t[e].attempts \in 1..MaxRetries

(* Variant: rows that were running stay as they are. *)
ResetNothing(t) == t

(* Rows of a process that stopped or died. *)
ResetStuckRunning(t) ==
    [e \in Events |-> IF t[e].state = "running" THEN RequeueEvent(t, e)[e] ELSE t[e]]

(* received_at of an inserted row is later than every other one. *)
ReceivedLast(t, older, e) ==
    {p \in older : p[1] # e /\ p[2] # e}
        \cup {<<f, e>> : f \in {g \in Events \ {e} : t[g].state # "none"}}
=============================================================================
