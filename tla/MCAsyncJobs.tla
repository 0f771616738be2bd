---------------------------- MODULE MCAsyncJobs ----------------------------
(* Small instances of AsyncJobs. *)
EXTENDS AsyncJobs, TLC

CONSTANTS j1, j2

OneJob == {j1}
TwoJobs == {j1, j2}

JobSymmetry == Permutations(TwoJobs)
=============================================================================
