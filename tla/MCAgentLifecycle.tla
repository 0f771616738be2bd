------------------------- MODULE MCAgentLifecycle -------------------------
(* Small instances of AgentLifecycle. *)
EXTENDS AgentLifecycle

CONSTANTS c1, c2, k1, k2, nobody

TwoCallers == {c1, c2}
OneCaller == {c1}
OneKiller == {k1}
OneGen == {1}
NoneIsolated == {}
FirstIsolated == {1}
TwoGens == {1, 2}
TwoSessions == {1, 2}
ThreeSessions == {1, 2, 3}
Tombstoning == {"hubKill", "executorKill"}
PlainReleases == {"hubCancel", "shutdown"}
=============================================================================
