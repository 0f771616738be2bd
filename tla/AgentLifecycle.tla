--------------------------- MODULE AgentLifecycle ---------------------------
(***************************************************************************)
(* The lifecycle of a subagent id: spawned by the task executor, adopted   *)
(* when it finishes, parked after an idle TTL, revived on demand, killed.  *)
(*                                                                         *)
(*   registry/agent-lifecycle.ts   park, ensureLive, release, adopt, ...   *)
(*   registry/agent-registry.ts    the refs (module AgentRegistry)         *)
(*   registry/persisted-agents.ts  the scan that restores parked refs      *)
(*   sdk.ts, task/executor.ts,     who creates, finalizes and kills the    *)
(*   tools/hub/jobs.ts, ...        sessions                                *)
(*                                                                         *)
(* All files are under packages/coding-agent/src.  The module looks at one *)
(* id, since every map of the manager is keyed by it.  An async function   *)
(* is a record with a program counter; one action is the code between two  *)
(* of its awaits, so that other calls interleave exactly where they can.   *)
(***************************************************************************)
EXTENDS AgentRegistry, FiniteSets

CONSTANTS Callers,      \* concurrent callers of ensureLive()
          NoCaller,     \* not a caller
          Killers,      \* concurrent callers of release()
          KillKinds,    \* which kinds of release() occur
          IdleTtl,      \* idleTtlMs of every adoption; 0 disables parking
          ColdRevival,  \* a persisted-subagent reviver factory is installed
          Isolated,     \* the session files of runs in an isolated worktree
          MayRestart    \* the process may die and start again

ASSUME AgentLifecycleAssumption ==
    /\ NoCaller \notin Callers
    /\ KillKinds \subseteq {"hubCancel", "hubKill", "executorKill", "shutdown"}
    /\ IdleTtl \in Nat
    /\ ColdRevival \in BOOLEAN
    /\ Isolated \subseteq Files
    /\ MayRestart \in BOOLEAN

VARIABLES registry,  \* the agent registry
          sess,      \* sess[s]: the AgentSession objects
          adopted,   \* the id's entry in #adopted
          park,      \* the id's entry in #parks
          revival,   \* the id's entry in #revivals: the caller that owns it
          call,      \* call[c]: the ensureLive() call of c
          rel,       \* rel[k]: the release() call of k
          exec,      \* exec[g]: the task executor that spawned generation g
          scan,      \* the persisted-agent scan
          disk,      \* session files with a history, and tombstone sidecars
          killed     \* history: files whose tombstone release has returned
                     \* while their ref still had the id

vars == <<registry, sess, adopted, park, revival, call, rel, exec, scan, disk, killed>>

(* "cold" is the caller whose cold revival created the entry, if any.      *)
Adoptions == [gen : Gens \cup {None}, timer : BOOLEAN, cold : Callers \cup {NoCaller}]
NoAdoption == [gen |-> None, timer |-> FALSE, cold |-> NoCaller]

Parks == [pc : {"none", "yielding", "disposing"}, gen : Gens \cup {None},
          sess : Sessions \cup {None}, cancelled : BOOLEAN]
NoPark == [pc |-> "none", gen |-> None, sess |-> None, cancelled |-> FALSE]

Calls == [pc : {"idle", "keeping", "kept", "waiting", "woken", "joined", "factory",
                "opening", "constructing", "wiring", "failing", "rejecting",
                "returned", "threw"},
          gen : Gens \cup {None}, sess : Sessions \cup {None}, cold : BOOLEAN]
IdleCall == [pc |-> "idle", gen |-> None, sess |-> None, cold |-> FALSE]

Releases == [pc : {"idle", "aborting", "parking", "commit", "persisting", "disposing", "cleanup"},
             kind : KillKinds \cup {"none"},
             target : Gens \cup {None}, gen : Gens \cup {None},
             live : Sessions \cup {None}, hook : BOOLEAN, ok : BOOLEAN]
IdleRelease == [pc |-> "idle", kind |-> "none", target |-> None, gen |-> None,
                live |-> None, hook |-> FALSE, ok |-> TRUE]

Executors == [pc : {"unused", "probing", "claiming", "constructing", "wiring", "failing",
                    "running", "done"},
              sess : Sessions \cup {None}, target : Gens \cup {None}]
IdleExecutor == [pc |-> "unused", sess |-> None, target |-> None]

IdleScan == [pc |-> "idle", file |-> None, expected |-> None, tombstoned |-> FALSE]

NoSession == [state |-> "none", gen |-> None, run |-> FALSE, synced |-> FALSE]

Init ==
    /\ registry = EmptyRegistry
    /\ sess = [s \in Sessions |-> NoSession]
    /\ adopted = NoAdoption
    /\ park = NoPark
    /\ revival = NoCaller
    /\ call = [c \in Callers |-> IdleCall]
    /\ rel = [k \in Killers |-> IdleRelease]
    /\ exec = [g \in Gens |-> IdleExecutor]
    /\ scan = IdleScan
    /\ disk = [history |-> {}, tombs |-> {}]
    /\ killed = {}
-----------------------------------------------------------------------------
(* Object creation: refs and sessions are made in order.                   *)
NextGen(g) == /\ exec[g].pc = "unused"
              /\ registry.ref[g].status = "unused"
              /\ \A h \in Gens : h < g => exec[h].pc # "unused" \/ registry.ref[h].status # "unused"

NextSession(s) == sess[s].state = "none" /\ \A t \in Sessions : t < s => sess[t].state # "none"

(* session.dispose() is idempotent: later calls share the first promise.   *)
Disposing(ss, s) == IF ss[s].state = "live" THEN [ss EXCEPT ![s].state = "disposing"] ELSE ss

Disposed(s) == sess[s].state = "disposed"

Armed == IdleTtl > 0

(***************************************************************************)
(* #onRegistryEvent() for a change of the registry from r to q caused by   *)
(* ref g.  A timer is not armed while a park is in flight.                 *)
(***************************************************************************)
OnRegistryEvent(a, r, q, g) ==
    IF g = None \/ a.gen # g THEN a
    ELSE IF r.cur = g /\ q.cur # g THEN NoAdoption
    ELSE IF r.ref[g].status = q.ref[g].status THEN a
    ELSE IF q.ref[g].status = "running" THEN [a EXCEPT !.timer = FALSE]
    ELSE IF q.ref[g].status = "idle" /\ park.pc = "none" THEN [a EXCEPT !.timer = Armed]
    ELSE a

(* The common tail of every step that changes the registry through ref g.  *)
Publish(q, g) ==
    /\ registry' = q
    /\ adopted' = OnRegistryEvent(adopted, registry, q, g)
-----------------------------------------------------------------------------
(* Parking.                                                                *)

(* Continuations of promises that have settled are microtasks: they run    *)
(* before the event loop takes the next timer or looks at finished I/O.    *)
MicrotasksPending ==
    \/ park.pc = "yielding"
    \/ park.pc = "disposing" /\ Disposed(park.sess)
    \/ \E c \in Callers : \/ call[c].pc \in {"kept", "woken"}
                          \/ call[c].pc \in {"failing", "rejecting"} /\ Disposed(call[c].sess)
    \/ \E k \in Killers : \/ rel[k].pc = "commit"
                          \/ rel[k].pc = "disposing" /\ Disposed(rel[k].live)
                          \/ rel[k].pc = "cleanup" /\ ~rel[k].hook

(* The idle timer fires: park(id).  An in-flight park is joined, and an    *)
(* adoption of another generation or a detached ref makes it a no-op.      *)
TimerFires ==
    /\ adopted.timer
    /\ ~MicrotasksPending
    /\ adopted' = [adopted EXCEPT !.timer = FALSE]
    /\ IF /\ park.pc = "none"
          /\ Registered(registry, adopted.gen)
          /\ Attached(registry) # None
       THEN park' = [NoPark EXCEPT !.pc = "yielding", !.gen = adopted.gen,
                                   !.sess = Attached(registry)]
       ELSE UNCHANGED park
    /\ UNCHANGED <<registry, sess, revival, call, rel, exec, scan, disk, killed>>

(* Variant: a settled park resumes nobody who only waits for it.           *)
WakeOnlyKeepers ==
    /\ call' = [c \in Callers |->
                  IF call[c].pc = "keeping" THEN [call[c] EXCEPT !.pc = "kept"] ELSE call[c]]
    /\ UNCHANGED rel

(* The park promise settles: everyone awaiting it is resumed later.        *)
WakeParkWaiters ==
    /\ call' = [c \in Callers |->
                  CASE call[c].pc = "keeping" -> [call[c] EXCEPT !.pc = "kept"]
                    [] call[c].pc = "waiting" -> [call[c] EXCEPT !.pc = "woken"]
                    [] OTHER -> call[c]]
    /\ rel' = [k \in Killers |->
                  IF rel[k].pc = "parking" THEN [rel[k] EXCEPT !.pc = "commit"] ELSE rel[k]]

(* The park detaches the session and flips the status before the dispose.  *)
Retired(r, g) == SetStatus(Detach(r, g), g, "parked")

(***************************************************************************)
(* The park resumes after its yield and commits, unless it was cancelled   *)
(* or the ref, its session or its adoption changed.                        *)
(***************************************************************************)
ParkCommits ==
    /\ park.pc = "yielding"
    /\ ~park.cancelled
    /\ Registered(registry, park.gen)
    /\ Attached(registry) = park.sess
    /\ adopted.gen = park.gen
    /\ Publish(Retired(registry, park.gen), park.gen)
    /\ park' = [park EXCEPT !.pc = "disposing"]
    /\ sess' = Disposing(sess, park.sess)
    /\ UNCHANGED <<revival, call, rel, exec, scan, disk, killed>>

ParkGivesUp ==
    /\ park.pc = "yielding"
    /\ \/ park.cancelled
       \/ ~Registered(registry, park.gen)
       \/ Attached(registry) # park.sess
       \/ adopted.gen # park.gen
    /\ park' = NoPark
    /\ WakeParkWaiters
    /\ UNCHANGED <<registry, sess, adopted, revival, exec, scan, disk, killed>>

ParkDone ==
    /\ park.pc = "disposing"
    /\ Disposed(park.sess)
    /\ park' = NoPark
    /\ WakeParkWaiters
    /\ UNCHANGED <<registry, sess, adopted, revival, exec, scan, disk, killed>>

(***************************************************************************)
(* session.dispose() finishes.  Its wrapper (unregisterUnlessParked) then  *)
(* forgets the ref the session was created for, unless that ref is parked, *)
(* is a detached tombstone, or is being parked.                            *)
(***************************************************************************)
DisposeDone(s) ==
    LET g == sess[s].gen
        retained == \/ registry.ref[g].status = "parked"
                    \/ registry.ref[g].status = "aborted" /\ registry.ref[g].session = None
                    \/ park.pc # "none" /\ park.gen = g /\ ~park.cancelled
    IN  /\ sess[s].state = "disposing"
        /\ sess' = [sess EXCEPT ![s] = [@ EXCEPT !.state = "disposed", !.run = FALSE]]
        /\ Publish(IF retained THEN registry ELSE Unregister(registry, g), g)
        /\ UNCHANGED <<park, revival, call, rel, exec, scan, disk, killed>>
-----------------------------------------------------------------------------
(* ensureLive().                                                           *)

Returned(s) == [IdleCall EXCEPT !.pc = "returned", !.sess = s]
Threw == [IdleCall EXCEPT !.pc = "threw"]

(* A park is in flight: cancel it while the session is attached, otherwise *)
(* wait for it.                                                            *)
EnsureMeetsPark(c) ==
    /\ call[c].pc = "idle"
    /\ park.pc # "none"
    /\ IF Attached(registry) # None /\ park.pc = "yielding"
       THEN /\ park' = [park EXCEPT !.cancelled = TRUE]
            /\ call' = [call EXCEPT ![c] = [@ EXCEPT !.pc = "keeping", !.gen = registry.cur]]
       ELSE /\ call' = [call EXCEPT ![c].pc = "waiting"]
            /\ UNCHANGED park
    /\ UNCHANGED <<registry, sess, adopted, revival, rel, exec, scan, disk, killed>>

(* Variant: a kept session gets no new timer.                              *)
KeptUnarmed(g) == adopted

(* The idle timer that the cancelled park had cleared is armed again.      *)
Rearmed(g) ==
    IF adopted.gen = g /\ registry.ref[g].status = "idle"
    THEN [adopted EXCEPT !.timer = Armed]
    ELSE adopted

(* The cancelled park has settled and the session is still there.          *)
EnsureKeeps(c) ==
    /\ call[c].pc = "kept"
    /\ Attached(registry) # None
    /\ adopted' = Rearmed(call[c].gen)
    /\ call' = [call EXCEPT ![c] = Returned(Attached(registry))]
    /\ UNCHANGED <<registry, sess, park, revival, rel, exec, scan, disk, killed>>

(* Variant: the call does not look at #parks.                              *)
ResolvingBesidePark(c) ==
    call[c].pc = "idle" \/ call[c].pc = "woken" \/ (call[c].pc = "kept" /\ Attached(registry) = None)

(* The call is past any park and looks the ref up.                         *)
Resolving(c) ==
    \/ call[c].pc = "idle" /\ park.pc = "none"
    \/ call[c].pc = "kept" /\ Attached(registry) = None
    \/ call[c].pc = "woken"

EnsureFindsLive(c) ==
    /\ Resolving(c)
    /\ Attached(registry) # None
    /\ call' = [call EXCEPT ![c] = Returned(Attached(registry))]
    /\ UNCHANGED <<registry, sess, adopted, park, revival, rel, exec, scan, disk, killed>>

(* Variant: revivals do not coalesce.                                      *)
NeverReviving(g) == FALSE

(* A revival of this very ref is in flight.                                *)
Reviving(g) == revival # NoCaller /\ call[revival].gen = g

EnsureJoins(c) ==
    /\ Resolving(c)
    /\ registry.cur # None
    /\ Attached(registry) = None
    /\ Reviving(registry.cur)
    /\ call' = [call EXCEPT ![c] = [IdleCall EXCEPT !.pc = "joined", !.gen = registry.cur]]
    /\ UNCHANGED <<registry, sess, adopted, park, revival, rel, exec, scan, disk, killed>>

(* Adoptions of agents with a session file always carry a reviver.         *)
Warm(g) == adopted.gen = g

Revivable(g) == registry.ref[g].status = "parked" /\ (Warm(g) \/ ColdRevival)

(* #resolveAndRevive() with the adoption's reviver, or up to the await of  *)
(* the persisted-reviver factory.                                          *)
EnsureRevives(c) ==
    LET g == registry.cur
    IN  /\ Resolving(c)
        /\ g # None
        /\ Attached(registry) = None
        /\ ~Reviving(g)
        /\ Revivable(g)
        /\ call' = [call EXCEPT ![c] = [IdleCall EXCEPT !.gen = g,
                                          !.pc = IF Warm(g) THEN "opening" ELSE "factory"]]
        /\ revival' = c
        /\ UNCHANGED <<registry, sess, adopted, park, rel, exec, scan, disk, killed>>

(* Unknown id, or a ref that is neither live nor revivable.                *)
EnsureRefuses(c) ==
    /\ Resolving(c)
    /\ Attached(registry) = None
    /\ registry.cur # None => ~Reviving(registry.cur) /\ ~Revivable(registry.cur)
    /\ call' = [call EXCEPT ![c] = Threw]
    /\ UNCHANGED <<registry, sess, adopted, park, revival, rel, exec, scan, disk, killed>>

(* The revival of caller c settles: its entry goes and everyone who joined *)
(* it gets the same outcome.                                               *)
Settle(c, outcome) ==
    /\ call' = [d \in Callers |->
                  IF d = c \/ (call[d].pc = "joined" /\ call[d].gen = call[c].gen)
                  THEN outcome ELSE call[d]]
    /\ revival' = IF revival = c THEN NoCaller ELSE revival

(* A failed cold revival drops the adoption it made.                       *)
DropCold(c) ==
    IF call[c].cold /\ adopted.cold = c /\ adopted.gen = call[c].gen
    THEN NoAdoption ELSE adopted

(***************************************************************************)
(* The factory's await returns.  A reviver is adopted under the id without *)
(* another look at the registry; only then is the ref checked again.       *)
(***************************************************************************)
ColdAdoption(c) ==
    [gen |-> call[c].gen, timer |-> FALSE, cold |-> c]

FactoryReturns(c) ==
    /\ call[c].pc = "factory"
    /\ registry.ref[call[c].gen].file \notin Isolated
    /\ adopted' = ColdAdoption(c)
    /\ IF Registered(registry, call[c].gen) /\ registry.ref[call[c].gen].status = "parked"
       THEN /\ call' = [call EXCEPT ![c] = [@ EXCEPT !.pc = "opening", !.cold = TRUE]]
            /\ UNCHANGED revival
       ELSE Settle(c, Threw)
    /\ UNCHANGED <<registry, sess, park, rel, exec, scan, disk, killed>>

FactoryDeclines(c) ==
    /\ call[c].pc = "factory"
    /\ Settle(c, Threw)
    /\ UNCHANGED <<registry, sess, adopted, park, rel, exec, scan, disk, killed>>

(* The reviver reopens the session file and createAgentSession() claims    *)
(* the parked ref.                                                         *)
RevivalClaims(c, s) ==
    /\ call[c].pc = "opening"
    /\ NextSession(s)
    /\ Claimable(registry, call[c].gen)
    /\ sess' = [sess EXCEPT ![s] = [@ EXCEPT !.state = "building", !.gen = call[c].gen]]
    /\ call' = [call EXCEPT ![c] = [@ EXCEPT !.pc = "constructing", !.sess = s]]
    /\ UNCHANGED <<registry, adopted, park, revival, rel, exec, scan, disk, killed>>

RevivalAttaches(c) ==
    LET g == call[c].gen
        s == call[c].sess
    IN  /\ call[c].pc = "constructing"
        /\ ~MicrotasksPending
        /\ Attachable(registry, g)
        /\ Publish(SetStatus(Attach(registry, g, s), g, "running"), g)
        /\ sess' = [sess EXCEPT ![s].state = "live"]
        /\ call' = [call EXCEPT ![c].pc = "wiring"]
        /\ UNCHANGED <<park, revival, rel, exec, scan, disk, killed>>

(* The reviver throws before createAgentSession() begins: the file is      *)
(* missing, or the ref is not its to claim.                                *)
RevivalFails(c) ==
    /\ call[c].pc = "opening"
    /\ Settle(c, Threw)
    /\ adopted' = DropCold(c)
    /\ UNCHANGED <<registry, sess, park, rel, exec, scan, disk, killed>>

(* createAgentSession() fails before the attach, or the attach is refused: *)
(* what is made of the session is disposed of before it throws.  Its ref   *)
(* is parked, terminal or gone by then, so that DisposeDone leaves the     *)
(* registry alone: the dispose wrapper is installed after the attach.      *)
RevivalConstructionFails(c) ==
    /\ call[c].pc = "constructing"
    /\ sess' = [sess EXCEPT ![call[c].sess].state = "disposing"]
    /\ call' = [call EXCEPT ![c].pc = "failing"]
    /\ UNCHANGED <<registry, adopted, park, revival, rel, exec, scan, disk, killed>>

(* createAgentSession() fails after the attach and disposes the session    *)
(* before it throws.                                                       *)
RevivalStartupFails(c) ==
    /\ call[c].pc = "wiring"
    /\ ~MicrotasksPending
    /\ sess' = Disposing(sess, call[c].sess)
    /\ call' = [call EXCEPT ![c].pc = "failing"]
    /\ UNCHANGED <<registry, adopted, park, revival, rel, exec, scan, disk, killed>>

(* The reviver itself fails after createAgentSession() returned (tool set, *)
(* extensions): the attached session stays as it is.                       *)
RevivalWiringFails(c) ==
    /\ call[c].pc = "wiring"
    /\ ~MicrotasksPending
    /\ Settle(c, Threw)
    /\ adopted' = DropCold(c)
    /\ UNCHANGED <<registry, sess, park, rel, exec, scan, disk, killed>>

(***************************************************************************)
(* The reviver returns to #revive().  The session is attached if the ref   *)
(* is still parked and detached, accepted if it is the running session of  *)
(* the ref, and disposed of otherwise.                                     *)
(***************************************************************************)
RevivalReturns(c) ==
    LET g == call[c].gen
        s == call[c].sess
        claimed == registry.ref[g].status = "running" /\ registry.ref[g].session = s
        synced == [sess EXCEPT ![s].synced = TRUE]
    IN  /\ call[c].pc = "wiring"
        /\ ~MicrotasksPending
        /\ IF Claimable(registry, g) \/ (Registered(registry, g) /\ claimed)
           THEN /\ Publish(SetStatus(Attach(registry, g, s), g, "idle"), g)
                /\ sess' = synced
                /\ Settle(c, Returned(s))
           ELSE /\ sess' = Disposing(synced, s)
                /\ call' = [call EXCEPT ![c].pc = "rejecting"]
                /\ UNCHANGED <<registry, adopted, revival>>
        /\ UNCHANGED <<park, rel, exec, scan, disk, killed>>

RevivalRejected(c) ==
    /\ call[c].pc \in {"failing", "rejecting"}
    /\ Disposed(call[c].sess)
    /\ Settle(c, Threw)
    /\ adopted' = DropCold(c)
    /\ UNCHANGED <<registry, sess, park, rel, exec, scan, disk, killed>>

(* The caller is done with the outcome and may call again.                 *)
Forget(c) ==
    /\ call[c].pc \in {"returned", "threw"}
    /\ call' = [call EXCEPT ![c] = IdleCall]
    /\ UNCHANGED <<registry, sess, adopted, park, revival, rel, exec, scan, disk, killed>>
-----------------------------------------------------------------------------
(* Agent runs.  Whoever holds a session may prompt it; the session reports *)
(* the run to the registry once syncSessionStatus() has subscribed.        *)

Reported(s, status) ==
    LET g == OwnerOf(registry, s)
    IN  IF sess[s].synced
        THEN Publish(SetStatus(registry, g, status), g)
        ELSE UNCHANGED <<registry, adopted>>

StartRun(s) ==
    /\ sess[s].state = "live"
    /\ ~sess[s].run
    /\ sess' = [sess EXCEPT ![s].run = TRUE]
    /\ Reported(s, "running")
    /\ UNCHANGED <<park, revival, call, rel, exec, scan, disk, killed>>

(* The end of a run leaves a conversation in the session file.             *)
EndRun(s) ==
    /\ sess[s].state \in {"live", "disposing"}
    /\ sess[s].run
    /\ sess' = [sess EXCEPT ![s].run = FALSE]
    /\ Reported(s, "idle")
    /\ disk' = [disk EXCEPT !.history = @ \cup {registry.ref[sess[s].gen].file}]
    /\ UNCHANGED <<park, revival, call, rel, exec, scan, killed>>
-----------------------------------------------------------------------------
(* The task executor: one per spawned generation.                          *)

(* The output manager allocates an id apart from those that have an output *)
(* or a transcript in the session's directory, and the file is named for   *)
(* the id: a later ref of the same id is another root session's, with a    *)
(* file of its own.                                                        *)
FreshFile(f) ==
    /\ f \notin disk.history \cup disk.tombs
    /\ \A g \in Gens : registry.ref[g].file # f

(* reclaimDeadCorpse() applies to a parked ref nobody can or does revive.  *)
Corpse(h) ==
    /\ Claimable(registry, h)
    /\ adopted = NoAdoption
    /\ park.pc = "none"
    /\ revival = NoCaller

(* createAgentSession() registers a new ref, or gets past a dead corpse    *)
(* first: with a reviver factory that takes an await.                      *)
Spawn(g, f) ==
    /\ NextGen(g)
    /\ FreshFile(f)
    /\ \/ /\ registry.cur = None
          /\ registry' = Register(registry, g, "running", f)
          /\ exec' = [exec EXCEPT ![g].pc = "constructing"]
       \/ /\ Corpse(registry.cur)
          /\ ~ColdRevival
          /\ registry' = Unregister(registry, registry.cur)
          /\ exec' = [exec EXCEPT ![g].pc = "claiming"]
       \/ /\ Corpse(registry.cur)
          /\ ColdRevival
          /\ exec' = [exec EXCEPT ![g] = [@ EXCEPT !.pc = "probing", !.target = registry.cur]]
          /\ UNCHANGED registry
    /\ UNCHANGED <<sess, adopted, park, revival, call, rel, scan, disk, killed>>

(* The factory declined the corpse: it is dropped if it still is one.      *)
ProbeReturns(g) ==
    /\ exec[g].pc = "probing"
    /\ LET corpse == Corpse(exec[g].target)
       IN  /\ registry' = IF corpse THEN Unregister(registry, exec[g].target) ELSE registry
           /\ exec' = [exec EXCEPT ![g].pc = IF corpse THEN "claiming" ELSE "done"]
    /\ UNCHANGED <<sess, adopted, park, revival, call, rel, scan, disk, killed>>

(* The factory found a reviver, so the id stays taken.                     *)
ProbeRefuses(g) ==
    /\ exec[g].pc = "probing"
    /\ exec' = [exec EXCEPT ![g].pc = "done"]
    /\ UNCHANGED <<registry, sess, adopted, park, revival, call, rel, scan, disk, killed>>

(* registerIfAvailable(input, null) once the corpse is gone.               *)
SpawnClaims(g, f) ==
    /\ exec[g].pc = "claiming"
    /\ FreshFile(f)
    /\ IF registry.cur = None
       THEN /\ registry' = Register(registry, g, "running", f)
            /\ exec' = [exec EXCEPT ![g].pc = "constructing"]
       ELSE /\ exec' = [exec EXCEPT ![g].pc = "done"]
            /\ UNCHANGED registry
    /\ UNCHANGED <<sess, adopted, park, revival, call, rel, scan, disk, killed>>

SpawnAttaches(g, s) ==
    /\ exec[g].pc = "constructing"
    /\ ~MicrotasksPending
    /\ NextSession(s)
    /\ Attachable(registry, g)
    /\ Publish(SetStatus(Attach(registry, g, s), g, "running"), g)
    /\ sess' = [sess EXCEPT ![s] = [@ EXCEPT !.state = "live", !.gen = g]]
    /\ exec' = [exec EXCEPT ![g] = [@ EXCEPT !.pc = "wiring", !.sess = s]]
    /\ UNCHANGED <<park, revival, call, rel, scan, disk, killed>>

(* createAgentSession() fails before the attach: the ref is forgotten      *)
(* unless it became a tombstone meanwhile.                                 *)
SpawnFails(g) ==
    /\ exec[g].pc = "constructing"
    /\ Publish(IF registry.ref[g].status = "aborted" THEN registry
               ELSE Unregister(registry, g), g)
    /\ exec' = [exec EXCEPT ![g].pc = "done"]
    /\ UNCHANGED <<sess, park, revival, call, rel, scan, disk, killed>>

SpawnStartupFails(g) ==
    /\ exec[g].pc = "wiring"
    /\ sess' = Disposing(sess, exec[g].sess)
    /\ exec' = [exec EXCEPT ![g].pc = "done"]
    /\ UNCHANGED <<registry, adopted, park, revival, call, rel, scan, disk, killed>>

SpawnReturns(g) ==
    /\ exec[g].pc = "wiring"
    /\ ~MicrotasksPending
    /\ sess' = [sess EXCEPT ![exec[g].sess].synced = TRUE]
    /\ exec' = [exec EXCEPT ![g].pc = "running"]
    /\ UNCHANGED <<registry, adopted, park, revival, call, rel, scan, disk, killed>>

OwnsRef(g) == Registered(registry, g) /\ registry.ref[g].session = exec[g].sess

(***************************************************************************)
(* finalizeSubagentLifecycle() of a finished keep-alive run: idle, then    *)
(* adopt().  An executor whose ref was killed or replaced only disposes of *)
(* its own session.                                                        *)
(***************************************************************************)
ExecutorKeepsAlive(g) ==
    /\ exec[g].pc = "running"
    /\ ~MicrotasksPending
    /\ ~sess[exec[g].sess].run
    /\ IF OwnsRef(g)
       THEN /\ registry' = SetStatus(registry, g, "idle")
            /\ adopted' = [gen |-> g, timer |-> Armed, cold |-> NoCaller]
            /\ UNCHANGED sess
       ELSE /\ sess' = Disposing(sess, exec[g].sess)
            /\ UNCHANGED <<registry, adopted>>
    /\ exec' = [exec EXCEPT ![g].pc = "done"]
    /\ UNCHANGED <<park, revival, call, rel, scan, disk, killed>>
-----------------------------------------------------------------------------
(* release().                                                              *)

Tombstones == {"hubKill", "executorKill"}

(* Variant: the session is read after the tombstone detached it.           *)
CapturedTooLate(g) == None

(* The session a release will dispose of, read before it is detached.      *)
Captured(g) == IF Registered(registry, g) THEN registry.ref[g].session ELSE None

(* Variant: the session is detached only after it is disposed of.          *)
TerminalAttached(r, g) == SetStatus(r, g, "aborted")

(* The transition of a killed ref: detached first, then a tombstone.       *)
Terminal(r, g) == SetStatus(Detach(r, g), g, "aborted")

(* Everything from the look at the registry to the next await.  A          *)
(* tombstone detaches the session and turns the ref terminal at once; a    *)
(* plain release disposes of the session while the ref is still there.     *)
ReleaseCommit(k, g, r) ==
    LET live == Captured(g)
        record == [r EXCEPT !.gen = g, !.live = live]
    IN  IF r.kind \in Tombstones
        THEN /\ registry' = Terminal(registry, g)
             /\ rel' = [rel EXCEPT ![k] = [record EXCEPT !.pc = "persisting"]]
             /\ UNCHANGED sess
        ELSE /\ sess' = IF live = None THEN sess ELSE Disposing(sess, live)
             /\ rel' = [rel EXCEPT ![k] = [record EXCEPT
                           !.pc = IF live = None THEN "cleanup" ELSE "disposing"]]
             /\ UNCHANGED registry

(* A release without an expectation concerns whatever ref the id has now.  *)
Matches(h, expected) == h # None /\ (expected = None \/ h = expected)

(***************************************************************************)
(* release(id, expected): pick the ref, drop its adoption and timer, and   *)
(* cancel or join a park of it.                                            *)
(***************************************************************************)
ReleaseFrom(k, expected, r) ==
    LET g == CASE Matches(registry.cur, expected) -> registry.cur
               [] /\ ~Matches(registry.cur, expected)
                  /\ Matches(adopted.gen, expected)  -> adopted.gen
               [] OTHER                              -> None
        hooked == [r EXCEPT !.hook = adopted.gen = g /\ registry.ref[g].file \in Isolated]
    IN  IF g = None
        THEN /\ rel' = [rel EXCEPT ![k] = IdleRelease]
             /\ UNCHANGED <<registry, sess, adopted, park>>
        ELSE /\ adopted' = IF adopted.gen = g THEN NoAdoption ELSE adopted
             /\ IF park.pc # "none" /\ park.gen = g
                THEN /\ park' = [park EXCEPT !.cancelled = @ \/ park.pc = "yielding"]
                     /\ rel' = [rel EXCEPT ![k] = [hooked EXCEPT !.pc = "parking", !.gen = g]]
                     /\ UNCHANGED <<registry, sess>>
                ELSE /\ ReleaseCommit(k, g, hooked)
                     /\ UNCHANGED park

(* The Agent Hub and the hub tool name the ref they see.  A running agent  *)
(* is aborted first, and that await comes before the release.              *)
Kill(k, kind) ==
    LET g == registry.cur
        r == [IdleRelease EXCEPT !.kind = kind, !.target = g]
    IN  /\ rel[k].pc = "idle"
        /\ kind \in KillKinds \cap {"hubCancel", "hubKill"}
        /\ g # None
        /\ IF registry.ref[g].status = "running" /\ registry.ref[g].session # None
           THEN /\ rel' = [rel EXCEPT ![k] = [r EXCEPT !.pc = "aborting"]]
                /\ UNCHANGED <<registry, sess, adopted, park>>
           ELSE ReleaseFrom(k, IF kind = "hubKill" THEN g ELSE None, r)
        /\ UNCHANGED <<revival, call, exec, scan, disk, killed>>

(* session.abort() has returned.  The Agent Hub passes the ref it named,   *)
(* the hub tool only the id.                                               *)
KillAborted(k) ==
    /\ rel[k].pc = "aborting"
    /\ ReleaseFrom(k, IF rel[k].kind = "hubKill" THEN rel[k].target ELSE None, rel[k])
    /\ UNCHANGED <<revival, call, exec, scan, disk, killed>>

(* finalizeSubagentLifecycle() of an aborted run: a tombstone, or a plain  *)
(* release when the job manager shuts down.                                *)
ExecutorAborts(g, k, kind) ==
    /\ exec[g].pc = "running"
    /\ ~MicrotasksPending
    /\ IF OwnsRef(g)
       THEN /\ kind \in KillKinds \cap {"executorKill", "shutdown"}
            /\ rel[k].pc = "idle"
            /\ ReleaseFrom(k, g, [IdleRelease EXCEPT !.kind = kind, !.target = g])
       ELSE /\ sess' = Disposing(sess, exec[g].sess)
            /\ UNCHANGED <<registry, adopted, park, rel>>
    /\ exec' = [exec EXCEPT ![g].pc = "done"]
    /\ UNCHANGED <<revival, call, scan, disk, killed>>

(* The awaited park has settled.                                           *)
ReleaseCommits(k) ==
    /\ rel[k].pc = "commit"
    /\ ReleaseCommit(k, rel[k].gen, rel[k])
    /\ UNCHANGED <<adopted, park, revival, call, exec, scan, disk, killed>>

(* The sidecar is written, or the write fails; either way the captured     *)
(* session is disposed of.                                                 *)
TombstonePersisted(k, ok) ==
    /\ rel[k].pc = "persisting"
    /\ disk' = IF ok THEN [disk EXCEPT !.tombs = @ \cup {registry.ref[rel[k].gen].file}] ELSE disk
    /\ sess' = IF rel[k].live = None THEN sess ELSE Disposing(sess, rel[k].live)
    /\ rel' = [rel EXCEPT ![k] = [@ EXCEPT
                  !.ok = ok, !.pc = IF rel[k].live = None THEN "cleanup" ELSE "disposing"]]
    /\ UNCHANGED <<registry, adopted, park, revival, call, exec, scan, killed>>

ReleaseDisposed(k) ==
    /\ rel[k].pc = "disposing"
    /\ Disposed(rel[k].live)
    /\ rel' = [rel EXCEPT ![k].pc = "cleanup"]
    /\ UNCHANGED <<registry, sess, adopted, park, revival, call, exec, scan, disk, killed>>

(* onRelease() has returned.  A plain release forgets the ref; a failed    *)
(* sidecar write is thrown to the caller here.                             *)
ReleaseFinishes(k) ==
    LET g == rel[k].gen
        tombstone == rel[k].kind \in Tombstones
    IN  /\ rel[k].pc = "cleanup"
        /\ Publish(IF tombstone THEN registry ELSE Unregister(registry, g), g)
        /\ killed' = IF /\ tombstone /\ rel[k].ok
                        /\ Registered(registry, g) /\ registry.ref[g].status = "aborted"
                     THEN killed \cup {registry.ref[g].file} ELSE killed
        /\ rel' = [rel EXCEPT ![k] = IdleRelease]
        /\ UNCHANGED <<sess, park, revival, call, exec, scan, disk>>
-----------------------------------------------------------------------------
(* The persisted-agent scan of a session's directory.                      *)

(* Variant: the scan does not look for a tombstone sidecar.                *)
IgnoresTombstone(f) == FALSE

HasTombstone(f) == f \in disk.tombs

(* A parked, detached ref of another root session gives its id up.         *)
Replaceable(h, f) == Claimable(registry, h) /\ registry.ref[h].file # f

(* The scan has met file f, looked at the id and at the tombstone sidecar, *)
(* and goes on to read the transcript.                                     *)
ScanStarts(f) ==
    /\ scan.pc = "idle"
    /\ f \in disk.history \cup disk.tombs
    /\ registry.cur = None \/ Replaceable(registry.cur, f)
    /\ scan' = [pc |-> "reading", file |-> f, expected |-> registry.cur,
                tombstoned |-> HasTombstone(f)]
    /\ UNCHANGED <<registry, sess, adopted, park, revival, call, rel, exec, disk, killed>>

(* The transcript is read.  If the id still is what it was, it now names   *)
(* the restored ref, terminal when the file carries a tombstone.           *)
ScanRegisters(g) ==
    LET vacated == Unregister(registry, scan.expected)
        status == IF scan.tombstoned THEN "aborted" ELSE "parked"
    IN  /\ scan.pc = "reading"
        /\ NextGen(g)
        /\ registry.cur = scan.expected
        /\ scan.expected # None => Claimable(registry, scan.expected)
        /\ registry' = Register(vacated, g, status, scan.file)
        /\ adopted' = OnRegistryEvent(adopted, registry, vacated, scan.expected)
        /\ scan' = IdleScan
        /\ UNCHANGED <<sess, park, revival, call, rel, exec, disk, killed>>

ScanSkips ==
    /\ scan.pc = "reading"
    /\ \/ registry.cur # scan.expected
       \/ scan.expected # None /\ ~Claimable(registry, scan.expected)
    /\ scan' = IdleScan
    /\ UNCHANGED <<registry, sess, adopted, park, revival, call, rel, exec, disk, killed>>

(* The process dies: only the disk survives.                               *)
Restart ==
    /\ MayRestart
    /\ registry' = EmptyRegistry
    /\ sess' = [s \in Sessions |-> NoSession]
    /\ adopted' = NoAdoption
    /\ park' = NoPark
    /\ revival' = NoCaller
    /\ call' = [c \in Callers |-> IdleCall]
    /\ rel' = [k \in Killers |-> IdleRelease]
    /\ exec' = [g \in Gens |-> IdleExecutor]
    /\ scan' = IdleScan
    /\ UNCHANGED <<disk, killed>>
-----------------------------------------------------------------------------
ParkStep == TimerFires \/ ParkCommits \/ ParkGivesUp \/ ParkDone

EnsureStep(c) ==
    \/ EnsureMeetsPark(c) \/ EnsureKeeps(c) \/ EnsureFindsLive(c)
    \/ EnsureJoins(c) \/ EnsureRevives(c) \/ EnsureRefuses(c)

RevivalStep(c) ==
    \/ FactoryReturns(c) \/ FactoryDeclines(c)
    \/ \E s \in Sessions : RevivalClaims(c, s)
    \/ RevivalAttaches(c) \/ RevivalFails(c)
    \/ RevivalConstructionFails(c) \/ RevivalStartupFails(c)
    \/ RevivalWiringFails(c) \/ RevivalReturns(c) \/ RevivalRejected(c)

ExecutorStep(g) ==
    \/ \E f \in Files : SpawnClaims(g, f)
    \/ ProbeReturns(g) \/ ProbeRefuses(g)
    \/ \E s \in Sessions : SpawnAttaches(g, s)
    \/ SpawnFails(g) \/ SpawnStartupFails(g) \/ SpawnReturns(g)
    \/ ExecutorKeepsAlive(g)

ReleaseStep(k) ==
    \/ KillAborted(k) \/ ReleaseCommits(k)
    \/ \E ok \in BOOLEAN : TombstonePersisted(k, ok)
    \/ ReleaseDisposed(k) \/ ReleaseFinishes(k)

Next ==
    \/ ParkStep
    \/ \E s \in Sessions : DisposeDone(s) \/ StartRun(s) \/ EndRun(s)
    \/ \E c \in Callers : EnsureStep(c) \/ RevivalStep(c) \/ Forget(c)
    \/ \E g \in Gens :
          \/ \E f \in Files : Spawn(g, f)
          \/ ExecutorStep(g)
          \/ \E k \in Killers, kind \in KillKinds : ExecutorAborts(g, k, kind)
          \/ ScanRegisters(g)
    \/ \E k \in Killers :
          \/ \E kind \in KillKinds : Kill(k, kind)
          \/ ReleaseStep(k)
    \/ \E f \in Files : ScanStarts(f)
    \/ ScanSkips
    \/ Restart

(***************************************************************************)
(* Continuations run, timers fire, and file and session I/O settles one    *)
(* way or the other.  The event loop takes its tasks in order, so a task   *)
(* that is ready again and again between the microtasks of others gets its *)
(* turn (SF).  Nobody has to call, kill, spawn, prompt or scan.            *)
(***************************************************************************)
Fairness ==
    /\ SF_vars(TimerFires) /\ WF_vars(ParkCommits \/ ParkGivesUp \/ ParkDone)
    /\ \A s \in Sessions : WF_vars(DisposeDone(s)) /\ WF_vars(EndRun(s))
    /\ \A c \in Callers :
          /\ WF_vars(call[c].pc # "idle" /\ EnsureStep(c))
          /\ SF_vars(RevivalStep(c))
    /\ \A g \in Gens : SF_vars(ExecutorStep(g))
    /\ \A k \in Killers : WF_vars(ReleaseStep(k))

Spec == Init /\ [][Next]_vars

FairSpec == Spec /\ Fairness
-----------------------------------------------------------------------------
SessionStates == [state : {"none", "building", "live", "disposing", "disposed"},
                  gen : Gens \cup {None}, run : BOOLEAN, synced : BOOLEAN]

Scans == [pc : {"idle", "reading"}, file : Files \cup {None},
          expected : Gens \cup {None}, tombstoned : BOOLEAN]

Disks == [history : SUBSET Files, tombs : SUBSET Files]

(* The types of the variables. *)
TypeOK ==
    /\ registry \in Registries
    /\ sess \in [Sessions -> SessionStates]
    /\ adopted \in Adoptions
    /\ park \in Parks
    /\ revival \in Callers \cup {NoCaller}
    /\ call \in [Callers -> Calls]
    /\ rel \in [Killers -> Releases]
    /\ exec \in [Gens -> Executors]
    /\ scan \in Scans
    /\ disk \in Disks
    /\ killed \subseteq Files

(* A parked or aborted ref never reaches a session, whichever of park,     *)
(* revival, kill and executor finalization raced for it ("Null exactly     *)
(* when parked/aborted", agent-registry.ts:96, in the direction the        *)
(* dispose wrapper of sdk.ts relies on).                                   *)
DetachedWhenParkedOrAborted ==
    \A g \in Gens :
       registry.ref[g].status \in {"parked", "aborted"} => registry.ref[g].session = None

(* No live session is out of everybody's reach: it is attached to the ref  *)
(* the id resolves to, or the operation that made or detached it still has *)
(* it in hand.  An orphan would keep its file locked and its tools running *)
(* with no kill able to find it.                                           *)
InHand(s) ==
    \/ \E k \in Killers : rel[k].pc = "persisting" /\ rel[k].live = s
    \/ \E c \in Callers : call[c].pc = "wiring" /\ call[c].sess = s
    \/ \E g \in Gens : exec[g].pc \in {"wiring", "running"} /\ exec[g].sess = s

NoOrphanSession ==
    \A s \in Sessions : sess[s].state = "live" =>
       \/ Attached(registry) = s /\ sess[s].gen = registry.cur
       \/ InHand(s)

(* A plain release (hub cancel, shutdown) may forget a ref whose session a *)
(* revival has attached meanwhile.  Nothing else lets a live session       *)
(* escape: one that is out of reach is left behind on a ref that lost the  *)
(* id with the session attached.                                           *)
LeftBehind(s) ==
    LET g == sess[s].gen
    IN  ~Registered(registry, g) /\ registry.ref[g].session = s

OnlyForgottenEscape ==
    \A s \in Sessions : sess[s].state = "live" =>
       \/ Attached(registry) = s /\ sess[s].gen = registry.cur
       \/ InHand(s)
       \/ LeftBehind(s)

(* At most one session at a time holds the session file of a ref open,     *)
(* counting one that is still disposing: a revival starts only after the   *)
(* park's dispose closed the single-writer file, and revivals coalesce.    *)
OneWriterPerRef ==
    \A g \in Gens :
       Cardinality({s \in Sessions : /\ sess[s].gen = g
                                     /\ sess[s].state \in {"building", "live", "disposing"}}) <= 1

(* An agent whose tombstone release has returned, with the id still its    *)
(* own, never becomes anything but a terminal row again, across scans,     *)
(* plain releases and process restarts.                                    *)
KilledStaysDead ==
    registry.cur # None /\ registry.ref[registry.cur].file \in killed
       => registry.ref[registry.cur].status = "aborted"

(* The manager is disposing of s, for a park or for a kill.                *)
BeingDisposedOf(s) ==
    \/ park.pc = "disposing" /\ park.sess = s
    \/ \E k \in Killers : /\ rel[k].pc \in {"persisting", "disposing"}
                          /\ rel[k].kind \in Tombstones /\ rel[k].live = s

(* "A disposing session is never handed out" (agent-lifecycle.ts:13):      *)
(* ensureLive() returns no session a park or a kill is disposing of.       *)
NeverHandsOutDisposing ==
    [][\A c \in Callers :
          call'[c].pc = "returned" /\ call[c].pc # "returned"
             => ~BeingDisposedOf(call'[c].sess)]_vars

(* If the id names a generation newer than g, its ref, its registration    *)
(* and its adoption are unchanged, and so are all other newer refs.        *)
UntouchedAfter(g) ==
    \A h \in Gens : h > g =>
       /\ registry'.ref[h] = registry.ref[h]
       /\ registry.cur = h =>
             /\ registry'.cur = h
             /\ adopted.gen = h => adopted' = adopted

InRevival(c) ==
    call[c].pc \in {"factory", "opening", "constructing", "wiring", "failing", "rejecting"}

(* "stale async work can never clobber a newer same-id ref"                *)
(* (agent-lifecycle.ts:18): while the process lives, a step of a park, a   *)
(* release, a revival, a dispose or an executor bound to one ref leaves    *)
(* every newer ref, its registration and its adoption alone.  The return   *)
(* of a cold reviver's factory is left out: it adopts without a look.      *)
StaleWorkIsHarmless ==
    [][\/ Restart
       \/ /\ park.pc # "none" /\ park' # park
                => UntouchedAfter(park.gen)
          /\ \A k \in Killers : rel[k].pc \notin {"idle", "aborting"} /\ rel'[k] # rel[k]
                => UntouchedAfter(rel[k].gen)
          /\ \A c \in Callers : InRevival(c) /\ call'[c] # call[c] /\ ~FactoryReturns(c)
                => UntouchedAfter(call[c].gen)
          /\ \A s \in Sessions : sess[s].state = "disposing" /\ sess'[s].state = "disposed"
                => UntouchedAfter(sess[s].gen)
          /\ \A g \in Gens : exec[g].pc \in {"constructing", "wiring", "running"}
                                /\ exec'[g] # exec[g]
                => UntouchedAfter(g)]_vars

(* Every ensureLive() call returns or throws, however parks, revivals and  *)
(* kills interleave with it.                                               *)
EnsureLiveSettles ==
    \A c \in Callers :
       call[c].pc \notin {"idle", "returned", "threw"} ~> call[c].pc \in {"returned", "threw"}

(* Every release() returns: waiting for parks and disposes never deadlocks.*)
ReleaseSettles == \A k \in Killers : rel[k].pc # "idle" ~> rel[k].pc = "idle"

(* An idle agent that nobody asks for does not stay live for ever: its TTL *)
(* timer is never lost, however parks were cancelled and re-armed before.  *)
IdleAgentParks ==
    []<>~(/\ registry.cur # None
          /\ registry.ref[registry.cur].status = "idle"
          /\ exec[registry.cur].pc \in {"unused", "done"}
          /\ \A c \in Callers : call[c].pc = "idle")
=============================================================================
