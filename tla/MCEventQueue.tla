---------------------------- MODULE MCEventQueue ----------------------------
(* Small instances of EventQueue. *)
EXTENDS EventQueue

CONSTANTS e1, e2, e3, k1, k2

TwoEvents == {e1, e2}
ThreeEvents == {e1, e2, e3}
TwoKeys == {k1, k2}

(* e1 and e2 are about the same issue. *)
SameIssue == [e \in TwoEvents |-> k1]
IssueOf == [e \in ThreeEvents |-> IF e = e3 THEN k2 ELSE k1]
=============================================================================
