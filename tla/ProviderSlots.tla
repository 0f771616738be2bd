--------------------------- MODULE ProviderSlots ---------------------------
(***************************************************************************)
(* The per-provider request limiter of                                     *)
(* packages/coding-agent/src/task/provider-concurrency.ts, under a tree of *)
(* agents that all talk to one capped provider.                            *)
(*                                                                         *)
(* An agent alternates provider requests and tool execution.  During tool  *)
(* execution it may spawn child agents and waits for them.  Every request  *)
(* goes through wrapStreamFnWithProviderConcurrency(): it takes one slot   *)
(* of the process-wide semaphore of the provider and returns it when the   *)
(* stream has finished producing.  The sessions of the tree may carry      *)
(* different limits and the user may change them, so each request resizes  *)
(* the shared semaphore to a limit of its own.                             *)
(***************************************************************************)
EXTENDS Semaphore, FiniteSets

CONSTANTS Agents,     \* the agents of one tree
          NoAgent,    \* the parent of the root
          Parent,     \* Parent[a]: the agent whose tool call spawns a
          Limits,     \* values of providers.<name>.maxConcurrency
          MaxTurns    \* bound: provider requests made by one agent

ASSUME ProviderSlotsAssumption ==
    /\ IsFiniteSet(Agents)
    /\ NoAgent \notin Agents
    /\ Parent \in [Agents -> Agents \cup {NoAgent}]
    /\ Limits \subseteq Int
    /\ MaxTurns \in Nat

VARIABLES sem,      \* the provider's semaphore
          limit,    \* the limit of its providerSemaphores entry
          pc,       \* pc[a]: where agent a is
          turns,    \* turns[a]: its requests so far
          aborted   \* the agents whose signal has fired

vars == <<sem, limit, pc, turns, aborted>>

Init ==
    /\ limit \in {NormalizeConcurrencyLimit(l) : l \in Limits}
    /\ sem = NewSemaphore(limit)
    /\ pc = [a \in Agents |-> "new"]
    /\ turns = [a \in Agents |-> 0]
    /\ aborted = {}

Children(a) == {b \in Agents : Parent[b] = a}

(* A tool call of the parent, or the user for the root, starts agent a.    *)
Spawn(a) ==
    /\ pc[a] = "new"
    /\ Parent[a] # NoAgent => pc[Parent[a]] = "tools"
    /\ pc' = [pc EXCEPT ![a] = "ready"]
    /\ UNCHANGED <<sem, limit, turns, aborted>>

(* getProviderSemaphore(): the shared limiter is resized, never replaced.  *)
Limited(l) ==
    IF NormalizeConcurrencyLimit(l) # limit THEN Resize(sem, l) ELSE sem

(***************************************************************************)
(* The agent makes a request under limit l.  With a signal that has        *)
(* already fired acquire() throws and the run ends.                        *)
(***************************************************************************)
Request(a, l) ==
    /\ pc[a] = "ready"
    /\ turns[a] < MaxTurns
    /\ limit' = NormalizeConcurrencyLimit(l)
    /\ turns' = [turns EXCEPT ![a] = @ + 1]
    /\ IF a \in aborted
       THEN /\ sem' = Limited(l)
            /\ pc' = [pc EXCEPT ![a] = "done"]
       ELSE /\ sem' = Acquire(Limited(l), a)
            /\ pc' = [pc EXCEPT ![a] = "acquiring"]
    /\ UNCHANGED aborted

(* The await of acquire() returns and the request goes out.                *)
Admitted(a) ==
    /\ pc[a] = "acquiring"
    /\ a \in sem.admitted
    /\ sem' = Resume(sem, a)
    /\ pc' = [pc EXCEPT ![a] = "streaming"]
    /\ UNCHANGED <<limit, turns, aborted>>

(* Variant: the slot is kept while the agent goes on to its tools.         *)
KeptForTools(s, next) == IF next = "tools" THEN s ELSE Release(s)

(* Variant: the stream's end and the failure handler both release.         *)
AfterStreamTwice(s, next) == Release(Release(s))

(* The slot is given back whatever the agent does next.                    *)
AfterStream(s, next) == Release(s)

(***************************************************************************)
(* The stream has produced its last event, or base() or the stream failed: *)
(* the agent executes tools, retries the request, or ends.                 *)
(***************************************************************************)
StreamEnds(a, next) ==
    /\ pc[a] = "streaming"
    /\ next \in {"tools", "ready"} => turns[a] < MaxTurns /\ a \notin aborted
    /\ sem' = AfterStream(sem, next)
    /\ pc' = [pc EXCEPT ![a] = next]
    /\ UNCHANGED <<limit, turns, aborted>>

(* The tool calls return once every child they spawned has ended.          *)
ToolsReturn(a) ==
    /\ pc[a] = "tools"
    /\ \A b \in Children(a) : pc[b] \in {"new", "done"}
    /\ pc' = [pc EXCEPT ![a] = "ready"]
    /\ UNCHANGED <<sem, limit, turns, aborted>>

(* The signal of an agent fires; a pending acquire() rejects.              *)
Abort(a) ==
    /\ a \notin aborted
    /\ pc[a] # "done"
    /\ aborted' = aborted \cup {a}
    /\ IF a \in Pending(sem)
       THEN /\ sem' = Abandon(sem, a)
            /\ pc' = [pc EXCEPT ![a] = "done"]
       ELSE UNCHANGED <<sem, pc>>
    /\ UNCHANGED <<limit, turns>>

AgentStep(a) ==
    \/ \E l \in Limits : Request(a, l)
    \/ Admitted(a)
    \/ \E next \in {"tools", "ready", "done"} : StreamEnds(a, next)
    \/ ToolsReturn(a)

(* The whole tree has come to rest. *)
Finished ==
    /\ \A a \in Agents : pc[a] = "done" \/ (pc[a] = "new" /\ Parent[a] # NoAgent)
    /\ UNCHANGED vars

Next == (\E a \in Agents : Spawn(a) \/ AgentStep(a) \/ Abort(a)) \/ Finished

(* Requests are made, streams end (the providers' idle timeouts see to it) *)
(* and tools return.  Nobody has to spawn or to abort.                     *)
Fairness == \A a \in Agents : WF_vars(AgentStep(a))

Spec == Init /\ [][Next]_vars /\ Fairness
-----------------------------------------------------------------------------
(* The types of the variables. *)
TypeOK ==
    /\ sem \in SemaphoresOf(Agents)
    /\ limit \in Nat
    /\ pc \in [Agents -> {"new", "ready", "acquiring", "streaming", "tools", "done"}]
    /\ turns \in [Agents -> 0..MaxTurns]
    /\ aborted \subseteq Agents

Streaming == {a \in Agents : pc[a] = "streaming"}

Pool == INSTANCE PermitPool
        WITH Callers <- Agents, ceiling <- limit, waiting <- sem.queue,
             owners <- sem.admitted \cup Streaming

(* The provider limiter behaves as a pool of permits owned by the agents   *)
(* whose request is let through, under the limit of the latest request     *)
(* (task/provider-concurrency.ts, task/parallel.ts:140-213).               *)
ImplementsPermitPool == Pool!Spec

(* A slot is in use exactly for the requests in flight: aborts, failed     *)
(* streams and limits that move in between neither leak one nor return it  *)
(* twice.                                                                  *)
SlotsMatchRequests == sem.current = Cardinality(sem.admitted) + Cardinality(Streaming)

(* However sessions with different limits alternate, no request is let     *)
(* through that would exceed the limit in force ("can never push           *)
(* concurrency past the cap", parallel.ts:201-202).                        *)
RequestsUnderLimit ==
    [][sem'.admitted \ sem.admitted # {} /\ limit' > 0
          => Cardinality(Streaming') + Cardinality(sem'.admitted) <= limit']_vars

(* No spawn tree deadlocks on its own slots, even one that is deeper and   *)
(* wider than the limit (issue #3749, provider-concurrency.ts:4-11): every *)
(* agent that was started ends.                                            *)
EveryAgentEnds == \A a \in Agents : pc[a] # "new" ~> pc[a] = "done"
=============================================================================
