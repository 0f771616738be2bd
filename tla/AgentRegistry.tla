--------------------------- MODULE AgentRegistry ---------------------------
(***************************************************************************)
(* The process-wide agent registry of                                      *)
(* packages/coding-agent/src/registry/agent-registry.ts, seen from one     *)
(* agent id: the entries of different ids never touch each other.          *)
(*                                                                         *)
(* An id may be registered, forgotten and registered again; every          *)
(* registration makes a new AgentRef object, called a generation here.     *)
(* A registry value is a record                                            *)
(*                                                                         *)
(*   cur  the generation the id resolves to, None when it is absent        *)
(*   ref  every generation's AgentRef: its status, attached session and    *)
(*        session file                                                     *)
(*                                                                         *)
(* A ref that has been dropped from the map stays in "ref": operations     *)
(* that were started on it still hold the object.  The operations take the *)
(* generation their caller expects and, like the code, do nothing when the *)
(* id resolves to another one.  "unused" marks refs not created yet.       *)
(***************************************************************************)
EXTENDS Naturals

CONSTANTS Gens,      \* the generations of the id, numbered from 1
          Sessions   \* the AgentSession objects, numbered from 1

ASSUME AgentRegistryAssumption ==
    /\ Gens \subseteq Nat \ {0}
    /\ Sessions \subseteq Nat \ {0}

None == 0

Statuses == {"running", "idle", "parked", "aborted"}

(* A session file is named after the generation that first wrote it.       *)
Files == Gens

Refs == [status : Statuses \cup {"unused"}, session : Sessions \cup {None},
         file : Files \cup {None}]

Registries == [cur : Gens \cup {None}, ref : [Gens -> Refs]]

EmptyRegistry ==
    [cur |-> None,
     ref |-> [g \in Gens |-> [status |-> "unused", session |-> None, file |-> None]]]

Registered(r, g) == g # None /\ r.cur = g

(* The session reached through get(id)?.session. *)
Attached(r) == IF r.cur = None THEN None ELSE r.ref[r.cur].session

(* register(): a new ref becomes the id's entry, detached. *)
Register(r, g, status, f) ==
    [r EXCEPT !.cur = g, !.ref[g] = [status |-> status, session |-> None, file |-> f]]

(* registerIfAvailable() with an expected ref: claim the exact parked,     *)
(* detached ref a revival was started for.                                 *)
Claimable(r, g) ==
    Registered(r, g) /\ r.ref[g].status = "parked" /\ r.ref[g].session = None

(* setStatus(): refused for a ref that lost its id, and "aborted" is       *)
(* terminal.                                                               *)
SetStatus(r, g, status) ==
    IF Registered(r, g) /\ r.ref[g].status # "aborted"
    THEN [r EXCEPT !.ref[g].status = status]
    ELSE r

(* Variant: a terminal ref takes a session.                                *)
AttachableTombstone(r, g) == Registered(r, g)

(* attachSession() succeeds only on the current ref, never on a tombstone. *)
Attachable(r, g) == Registered(r, g) /\ r.ref[g].status # "aborted"

Attach(r, g, s) == [r EXCEPT !.ref[g].session = s]

Detach(r, g) ==
    IF Registered(r, g) THEN [r EXCEPT !.ref[g].session = None] ELSE r

(* Variant: whichever ref has the id loses it.                             *)
UnregisterAny(r, g) == [r EXCEPT !.cur = None]

(* unregister(): only the expected ref loses its id. *)
Unregister(r, g) == IF Registered(r, g) THEN [r EXCEPT !.cur = None] ELSE r

(* setStatus() called with a session as the expectation: it concerns the   *)
(* ref that session is attached to, if that is the current one.            *)
OwnerOf(r, s) == IF r.cur # None /\ Attached(r) = s THEN r.cur ELSE None
=============================================================================
