------------------------ MODULE AgentLifecycleProofs ------------------------
(***************************************************************************)
(* Proofs about AgentLifecycle, for every number of callers, killers,      *)
(* generations and sessions, every kind of release, with and without cold  *)
(* revival and restarts: the types, that a parked or aborted ref is never  *)
(* left with a session, that a kill which names its ref hits that ref,     *)
(* that a ref that was killed for good never comes back, that a session    *)
(* file has one writer, that no live session is orphaned, that stale work  *)
(* leaves newer refs alone, and that no session is handed out while it is  *)
(* being disposed of.                                                      *)
(*                                                                         *)
(* The types need an invariant of their own, because the actions name      *)
(* session files through the ref of a session, a release or a call, and    *)
(* only a ref that was registered has a file: everything that holds a ref  *)
(* holds one that exists.  The argument has two layers.  What the registry *)
(* operations keep is proved about any registry value; the actions then    *)
(* only have to show which operation they are.                             *)
(***************************************************************************)
EXTENDS AgentLifecycle, FiniteSetTheorems, TLAPS

(* A ref that has been registered, whether or not the id names it still.   *)
Exists(r, g) == g \in Gens /\ r.ref[g].status # "unused"

DetachedIn(r) ==
    \A g \in Gens : r.ref[g].status \in {"parked", "aborted"} => r.ref[g].session = None

(* A well-formed registry value. *)
Sound(r) ==
    /\ r \in Registries
    /\ r.cur # None => Exists(r, r.cur)
    /\ \A g \in Gens : Exists(r, g) => r.ref[g].file \in Files
    /\ DetachedIn(r)

(* q may follow r while the process lives: refs never stop existing.       *)
Follows(r, q) ==
    /\ Sound(q)
    /\ \A g \in Gens : Exists(r, g) => Exists(q, g)

(* Changing the record of one ref, the building block of every operation.  *)
LEMMA ChangedRef ==
    ASSUME NEW r, Sound(r), NEW g \in Gens, NEW a \in Refs, NEW u \in Gens \cup {None},
           a.status # "unused", a.file \in Files,
           a.status \in {"parked", "aborted"} => a.session = None,
           u \in {r.cur, g, None}
    PROVE  Follows(r, [cur |-> u, ref |-> [r.ref EXCEPT ![g] = a]])
<1> DEFINE q == [cur |-> u, ref |-> [r.ref EXCEPT ![g] = a]]
<1>1. /\ r.ref \in [Gens -> Refs]
      /\ r.cur \in Gens \cup {None}
  BY DEF Sound, Registries
<1>2. /\ q.cur = u
      /\ q.ref \in [Gens -> Refs]
      /\ q.ref[g] = a
      /\ \A h \in Gens : h # g => q.ref[h] = r.ref[h]
      /\ q \in Registries
  BY <1>1 DEF Registries
<1> HIDE DEF q
<1>3. q.cur # None => Exists(q, q.cur)
  BY <1>1, <1>2 DEF Sound, Exists
<1>4. \A h \in Gens : Exists(q, h) => q.ref[h].file \in Files
  BY <1>2 DEF Sound, Exists
<1>5. DetachedIn(q)
  BY <1>2 DEF Sound, DetachedIn
<1>6. \A h \in Gens : Exists(r, h) => Exists(q, h)
  BY <1>2 DEF Exists
<1>7. Follows(r, q)
  BY <1>2, <1>3, <1>4, <1>5, <1>6 DEF Follows, Sound
<1> QED  BY <1>7 DEF q

LEMMA Unchanged == ASSUME NEW r, Sound(r) PROVE Follows(r, r)
BY DEF Follows

(* register() of a ref with a file. *)
LEMMA RegisterFollows ==
    ASSUME NEW r, Sound(r), NEW g \in Gens, NEW status \in Statuses, NEW f \in Files
    PROVE  Follows(r, Register(r, g, status, f))
<1> DEFINE a == [status |-> status, session |-> None, file |-> f]
<1>1. a \in Refs /\ a.status # "unused" /\ a.file \in Files /\ a.session = None
  BY DEF Refs, Statuses
<1>2. r = [cur |-> r.cur, ref |-> r.ref] /\ r.ref \in [Gens -> Refs]
  BY DEF Sound, Registries
<1>3. Register(r, g, status, f) = [[r EXCEPT !.cur = g] EXCEPT !.ref[g] = a]
  BY DEF Register
<1> HIDE DEF a
<1>4. [r EXCEPT !.cur = g] = [cur |-> g, ref |-> r.ref]
  BY <1>2
<1>5. [[cur |-> g, ref |-> r.ref] EXCEPT !.ref[g] = a]
         = [cur |-> g, ref |-> [r.ref EXCEPT ![g] = a]]
  BY <1>2
<1>6. Register(r, g, status, f) = [cur |-> g, ref |-> [r.ref EXCEPT ![g] = a]]
  BY <1>3, <1>4, <1>5
<1>7. Follows(r, [cur |-> g, ref |-> [r.ref EXCEPT ![g] = a]])
  BY <1>1, ChangedRef
<1> QED  BY <1>6, <1>7

LEMMA UnregisterFollows ==
    ASSUME NEW r, Sound(r), NEW g
    PROVE  Follows(r, Unregister(r, g))
<1>1. CASE ~Registered(r, g)
  BY <1>1, Unchanged DEF Unregister
<1>2. CASE Registered(r, g)
  <2> DEFINE q == Unregister(r, g)
  <2>1. q \in Registries /\ q.cur = None /\ q.ref = r.ref
    BY <1>2 DEF Unregister, Sound, Registries
  <2> QED  BY <2>1 DEF Follows, Sound, Exists, DetachedIn
<1> QED  BY <1>1, <1>2

(* setStatus() to a live status. *)
LEMMA SetStatusFollows ==
    ASSUME NEW r, Sound(r), NEW g, NEW status \in {"running", "idle"}
    PROVE  Follows(r, SetStatus(r, g, status))
<1>1. CASE ~(Registered(r, g) /\ r.ref[g].status # "aborted")
  BY <1>1, Unchanged DEF SetStatus
<1>2. CASE Registered(r, g) /\ r.ref[g].status # "aborted"
  <2> DEFINE a == [r.ref[g] EXCEPT !.status = status]
  <2>1. g = r.cur /\ g \in Gens /\ r.ref[g] \in Refs /\ r.ref[g].file \in Files
    BY <1>2 DEF Registered, Sound, Registries, Exists
  <2>2. a \in Refs /\ a.status = status /\ a.file \in Files
    BY <2>1 DEF Refs, Statuses
  <2>3. r = [cur |-> r.cur, ref |-> r.ref] /\ r.ref \in [Gens -> Refs]
    BY DEF Sound, Registries
  <2>4. SetStatus(r, g, status) = [cur |-> g, ref |-> [r.ref EXCEPT ![g] = a]]
    BY <1>2, <2>1, <2>3 DEF SetStatus
  <2> HIDE DEF a
  <2> QED  BY <2>1, <2>2, <2>4, ChangedRef
<1> QED  BY <1>1, <1>2

(* attachSession() of a revival or an executor, with the status it sets.   *)
LEMMA AttachFollows ==
    ASSUME NEW r, Sound(r), NEW g, Attachable(r, g), NEW s \in Sessions \cup {None},
           NEW status \in {"running", "idle"}
    PROVE  Follows(r, SetStatus(Attach(r, g, s), g, status))
<1> DEFINE a == [status |-> status, session |-> s, file |-> r.ref[g].file]
           b == [status |-> r.ref[g].status, session |-> s, file |-> r.ref[g].file]
<1>1. g = r.cur /\ g \in Gens /\ r.ref[g] \in Refs /\ r.ref[g].file \in Files
  BY DEF Attachable, Registered, Sound, Registries, Exists
<1>2. r = [cur |-> r.cur, ref |-> r.ref] /\ r.ref \in [Gens -> Refs]
  BY DEF Sound, Registries
<1>3. /\ [r.ref[g] EXCEPT !.session = s] = b
      /\ [b EXCEPT !.status = status] = a
      /\ b \in Refs /\ b.status = r.ref[g].status
  BY <1>1 DEF Refs
<1>4. a \in Refs /\ a.status = status /\ a.file \in Files
  BY <1>1 DEF Refs, Statuses
<1>5. Attach(r, g, s) = [cur |-> g, ref |-> [r.ref EXCEPT ![g] = b]]
  BY <1>1, <1>2, <1>3 DEF Attach
<1> HIDE DEF a, b
<1>6. /\ Attach(r, g, s).cur = g
      /\ Attach(r, g, s).ref[g] = b
      /\ b.status # "aborted"
      /\ g # None
  BY <1>1, <1>2, <1>3, <1>5 DEF Attachable, Registered
<1>7. SetStatus(Attach(r, g, s), g, status) = [Attach(r, g, s) EXCEPT !.ref[g].status = status]
  BY <1>6 DEF SetStatus, Registered
<1>8. [Attach(r, g, s) EXCEPT !.ref[g].status = status]
         = [cur |-> g, ref |-> [r.ref EXCEPT ![g] = a]]
  BY <1>1, <1>2, <1>3, <1>5
<1>9. Follows(r, [cur |-> g, ref |-> [r.ref EXCEPT ![g] = a]])
  BY <1>1, <1>4, ChangedRef
<1> QED  BY <1>7, <1>8, <1>9

(* A park and a tombstone detach the session in the same step.             *)
LEMMA DetachFollows ==
    ASSUME NEW r, Sound(r), NEW g, NEW status \in {"parked", "aborted"}
    PROVE  Follows(r, SetStatus(Detach(r, g), g, status))
<1>1. CASE ~Registered(r, g)
  BY <1>1, Unchanged DEF Detach, SetStatus
<1>2. CASE Registered(r, g)
  <2> DEFINE b == [status |-> r.ref[g].status, session |-> None, file |-> r.ref[g].file]
             a == [status |-> status, session |-> None, file |-> r.ref[g].file]
  <2>1. g = r.cur /\ g \in Gens /\ r.ref[g] \in Refs /\ r.ref[g].file \in Files
        /\ r.ref[g].status # "unused"
    BY <1>2 DEF Registered, Sound, Registries, Exists
  <2>2. r = [cur |-> r.cur, ref |-> r.ref] /\ r.ref \in [Gens -> Refs]
    BY DEF Sound, Registries
  <2>3. /\ [r.ref[g] EXCEPT !.session = None] = b
        /\ [b EXCEPT !.status = status] = a
        /\ b \in Refs /\ b.status = r.ref[g].status /\ b.session = None
        /\ b.file = r.ref[g].file
    BY <2>1 DEF Refs
  <2>4. a \in Refs /\ a.status = status /\ a.session = None /\ a.file \in Files
    BY <2>1 DEF Refs, Statuses
  <2>5. Detach(r, g) = [cur |-> g, ref |-> [r.ref EXCEPT ![g] = b]]
    BY <1>2, <2>1, <2>2, <2>3 DEF Detach
  <2> HIDE DEF a, b
  <2>6. /\ Detach(r, g).cur = g
        /\ Detach(r, g).ref[g] = b
    BY <2>1, <2>2, <2>5
  <2>7. CASE b.status = "aborted"
    <3>1. SetStatus(Detach(r, g), g, status) = Detach(r, g)
      BY <2>6, <2>7 DEF SetStatus
    <3>2. Follows(r, [cur |-> g, ref |-> [r.ref EXCEPT ![g] = b]])
      BY <2>1, <2>3, ChangedRef
    <3> QED  BY <2>5, <3>1, <3>2
  <2>8. CASE b.status # "aborted"
    <3>1. SetStatus(Detach(r, g), g, status) = [Detach(r, g) EXCEPT !.ref[g].status = status]
      BY <1>2, <2>6, <2>8 DEF SetStatus, Registered
    <3>2. [Detach(r, g) EXCEPT !.ref[g].status = status]
             = [cur |-> g, ref |-> [r.ref EXCEPT ![g] = a]]
      BY <2>1, <2>2, <2>3, <2>5
    <3>3. Follows(r, [cur |-> g, ref |-> [r.ref EXCEPT ![g] = a]])
      BY <2>1, <2>4, ChangedRef
    <3> QED  BY <3>1, <3>2, <3>3
  <2> QED  BY <2>7, <2>8
<1> QED  BY <1>1, <1>2
-----------------------------------------------------------------------------
(* What the other variables hold exists in the registry r.                 *)
AdoptedOK(r, a) == a \in Adoptions /\ (a.gen # None => Exists(r, a.gen))

SessOK(r, ss) ==
    /\ ss \in [Sessions -> SessionStates]
    /\ \A s \in Sessions : ss[s].state # "none" => Exists(r, ss[s].gen)

RelOK(r, re) ==
    /\ re \in [Killers -> Releases]
    /\ \A k \in Killers : re[k].pc \notin {"idle", "aborting"} => Exists(r, re[k].gen)

CallOK(r, ss, ca) ==
    /\ ca \in [Callers -> Calls]
    /\ \A c \in Callers :
          /\ ca[c].pc = "factory" => Exists(r, ca[c].gen)
          /\ ca[c].pc \in {"factory", "opening"} => ca[c].sess = None
          /\ ca[c].pc = "constructing" => /\ ca[c].sess \in Sessions
                                          /\ ss[ca[c].sess].state # "none"

ScanOK(sc) == sc \in Scans /\ (sc.pc = "reading" => sc.file \in Files)

(* The inductive invariant. *)
IInv ==
    /\ Sound(registry)
    /\ SessOK(registry, sess)
    /\ AdoptedOK(registry, adopted)
    /\ park \in Parks
    /\ revival \in Callers \cup {NoCaller}
    /\ CallOK(registry, sess, call)
    /\ RelOK(registry, rel)
    /\ exec \in [Gens -> Executors]
    /\ ScanOK(scan)
    /\ disk \in Disks
    /\ killed \subseteq Files

(* Sessions, once created, stay created. *)
Grows(ss, tt) == \A s \in Sessions : ss[s].state # "none" => tt[s].state # "none"

LEMMA StillOK ==
    ASSUME NEW r, NEW q, Follows(r, q), NEW ss, NEW tt, Grows(ss, tt)
    PROVE  /\ \A a : AdoptedOK(r, a) => AdoptedOK(q, a)
           /\ \A x : SessOK(r, x) => SessOK(q, x)
           /\ \A x : RelOK(r, x) => RelOK(q, x)
           /\ \A x : CallOK(r, ss, x) => CallOK(q, tt, x)
<1>1. \A g : Exists(r, g) => Exists(q, g)
  BY DEF Follows, Exists
<1>2. \A a : AdoptedOK(r, a) => AdoptedOK(q, a)
  BY <1>1 DEF AdoptedOK
<1>3. \A x : SessOK(r, x) => SessOK(q, x)
  BY <1>1 DEF SessOK
<1>4. \A x : RelOK(r, x) => RelOK(q, x)
  BY <1>1 DEF RelOK
<1>5. \A x : CallOK(r, ss, x) => CallOK(q, tt, x)
  BY <1>1 DEF CallOK, Grows
<1> QED  BY <1>2, <1>3, <1>4, <1>5

(* #onRegistryEvent() only drops the adoption or changes its timer.        *)
LEMMA EventOK ==
    ASSUME NEW a, NEW r, NEW q, NEW g, AdoptedOK(q, a)
    PROVE  AdoptedOK(q, OnRegistryEvent(a, r, q, g))
<1>1. AdoptedOK(q, NoAdoption)
  BY DEF AdoptedOK, NoAdoption, Adoptions
<1>2. \A t \in BOOLEAN : AdoptedOK(q, [a EXCEPT !.timer = t])
  BY DEF AdoptedOK, Adoptions
<1>3. Armed \in BOOLEAN
  BY DEF Armed
<1> QED  BY <1>1, <1>2, <1>3 DEF OnRegistryEvent

LEMMA DisposingOK ==
    ASSUME NEW r, NEW ss, SessOK(r, ss), NEW s
    PROVE  SessOK(r, Disposing(ss, s)) /\ Grows(ss, Disposing(ss, s))
BY DEF Disposing, SessOK, SessionStates, Grows

(* A step that publishes a registry which may follow the current one.      *)
LEMMA PublishOK ==
    ASSUME IInv, NEW q, Follows(registry, q), NEW g, Publish(q, g)
    PROVE  Sound(registry') /\ Follows(registry, registry') /\ AdoptedOK(registry', adopted')
<1>1. AdoptedOK(q, adopted)
  BY StillOK DEF IInv, Grows
<1> QED  BY <1>1, EventOK DEF Publish, Follows

(* What a step leaves alone stays well-formed beside what it changes.      *)
LEMMA Rest ==
    ASSUME IInv, Follows(registry, registry'), Grows(sess, sess')
    PROVE  /\ Sound(registry')
           /\ SessOK(registry', sess)
           /\ AdoptedOK(registry', adopted)
           /\ CallOK(registry', sess', call)
           /\ RelOK(registry', rel)
BY StillOK DEF IInv, Follows

LEMMA SameSessions == Grows(sess, sess)
BY DEF Grows

LEMMA CallUpdated ==
    ASSUME NEW r, NEW ss, NEW ca, CallOK(r, ss, ca), NEW c, NEW v \in Calls,
           v.pc \notin {"factory", "opening", "constructing"}
    PROVE  CallOK(r, ss, [ca EXCEPT ![c] = v])
BY DEF CallOK

LEMMA RelUpdated ==
    ASSUME NEW r, NEW re, RelOK(r, re), NEW k, NEW v \in Releases,
           v.pc \notin {"idle", "aborting"} => Exists(r, v.gen)
    PROVE  RelOK(r, [re EXCEPT ![k] = v])
BY DEF RelOK

(* A settled park resumes calls and releases that keep their ref. *)
LEMMA WakeOK ==
    ASSUME NEW r, NEW ss, CallOK(r, ss, call), RelOK(r, rel), WakeParkWaiters
    PROVE  CallOK(r, ss, call') /\ RelOK(r, rel')
<1>1. call' \in [Callers -> Calls]
  BY DEF WakeParkWaiters, CallOK, Calls
<1>2. \A c \in Callers : call'[c] = call[c]
                          \/ (call'[c].pc \in {"kept", "woken"})
  BY DEF WakeParkWaiters, CallOK, Calls
<1>3. CallOK(r, ss, call')
  BY <1>1, <1>2 DEF CallOK
<1>4. rel' \in [Killers -> Releases]
  BY DEF WakeParkWaiters, RelOK, Releases
<1>5. \A k \in Killers : rel'[k] = rel[k]
                          \/ (rel[k].pc = "parking" /\ rel'[k].gen = rel[k].gen)
  BY DEF WakeParkWaiters, RelOK, Releases
<1>6. RelOK(r, rel')
  BY <1>4, <1>5 DEF RelOK
<1> QED  BY <1>3, <1>6

(* A settled revival ends its call and those that joined it. *)
LEMMA SettleOK ==
    ASSUME NEW r, NEW ss, CallOK(r, ss, call), NEW c \in Callers,
           revival \in Callers \cup {NoCaller},
           NEW outcome \in Calls, outcome.pc \in {"returned", "threw"}, Settle(c, outcome)
    PROVE  CallOK(r, ss, call') /\ revival' \in Callers \cup {NoCaller}
BY DEF Settle, CallOK

LEMMA Outcomes ==
    /\ Threw \in Calls /\ Threw.pc = "threw"
    /\ IdleCall \in Calls /\ IdleCall.pc = "idle"
    /\ \A s \in Sessions \cup {None} : Returned(s) \in Calls /\ Returned(s).pc = "returned"
BY DEF Threw, IdleCall, Returned, Calls

(* A failed cold revival at most removes the adoption. *)
LEMMA DropColdOK ==
    ASSUME NEW r, AdoptedOK(r, adopted), NEW c
    PROVE  AdoptedOK(r, DropCold(c))
BY DEF DropCold, AdoptedOK, NoAdoption, Adoptions

LEMMA AttachedType ==
    ASSUME NEW r, Sound(r) PROVE Attached(r) \in Sessions \cup {None}
BY DEF Sound, Registries, Refs, Attached
-----------------------------------------------------------------------------
LEMMA InitIInv == Init => IInv
<1> SUFFICES ASSUME Init PROVE IInv
  OBVIOUS
<1>1. Sound(registry)
  BY DEF Init, EmptyRegistry, Sound, Registries, Refs, Exists, DetachedIn
<1>2. SessOK(registry, sess) /\ AdoptedOK(registry, adopted)
  BY DEF Init, SessOK, NoSession, SessionStates, AdoptedOK, NoAdoption, Adoptions
<1>3. CallOK(registry, sess, call) /\ RelOK(registry, rel)
  BY DEF Init, CallOK, IdleCall, Calls, RelOK, IdleRelease, Releases
<1>4. park \in Parks /\ revival \in Callers \cup {NoCaller} /\ exec \in [Gens -> Executors]
  BY DEF Init, Parks, NoPark, Executors, IdleExecutor
<1>5. ScanOK(scan) /\ disk \in Disks /\ killed \subseteq Files
  BY DEF Init, IdleScan, Scans, ScanOK, Disks
<1> QED  BY <1>1, <1>2, <1>3, <1>4, <1>5 DEF IInv

(* Parks keep the invariant. *)
LEMMA ParkStepIInv == ASSUME IInv, ParkStep PROVE IInv'
<1>1. CASE TimerFires
  <2>1. Follows(registry, registry') /\ Grows(sess, sess')
    BY <1>1, Unchanged, SameSessions DEF TimerFires, IInv
  <2>2. AdoptedOK(registry', adopted')
    BY <1>1 DEF TimerFires, IInv, AdoptedOK, Adoptions
  <2>3. park' \in Parks
    BY <1>1, AttachedType DEF TimerFires, IInv, Parks, NoPark, AdoptedOK, Adoptions
  <2> QED  BY <1>1, <2>1, <2>2, <2>3, Rest DEF TimerFires, IInv
<1>2. CASE ParkCommits
  <2>1. Follows(registry, Retired(registry, park.gen))
    BY DetachFollows DEF IInv, Retired
  <2>2. Follows(registry, registry') /\ AdoptedOK(registry', adopted')
    BY <1>2, <2>1, PublishOK DEF ParkCommits
  <2>3. Grows(sess, sess') /\ SessOK(registry, sess')
    BY <1>2, DisposingOK DEF ParkCommits, IInv
  <2>4. SessOK(registry', sess')
    BY <2>2, <2>3, StillOK
  <2>5. park' \in Parks
    BY <1>2 DEF ParkCommits, IInv, Parks
  <2> QED  BY <1>2, <2>2, <2>3, <2>4, <2>5, Rest DEF ParkCommits, IInv
<1>3. CASE ParkGivesUp \/ ParkDone
  <2>1. Follows(registry, registry') /\ Grows(sess, sess')
    BY <1>3, Unchanged, SameSessions DEF ParkGivesUp, ParkDone, IInv
  <2>2. CallOK(registry', sess', call') /\ RelOK(registry', rel')
    BY <1>3, WakeOK DEF ParkGivesUp, ParkDone, IInv
  <2>3. NoPark \in Parks
    BY DEF NoPark, Parks
  <2>4. park' = NoPark
    BY <1>3 DEF ParkGivesUp, ParkDone
  <2> QED  BY <1>3, <2>1, <2>2, <2>3, <2>4, Rest DEF ParkGivesUp, ParkDone, IInv
<1> QED  BY <1>1, <1>2, <1>3 DEF ParkStep

(* Sessions keep the invariant. *)
LEMMA SessionStepIInv ==
    ASSUME IInv, NEW s \in Sessions, DisposeDone(s) \/ StartRun(s) \/ EndRun(s)
    PROVE  IInv'
<1> DEFINE g == sess[s].gen
<1>0. sess \in [Sessions -> SessionStates] /\ registry \in Registries
  BY DEF IInv, SessOK, Sound
<1>1. CASE DisposeDone(s)
  <2>1. \A q \in {registry, Unregister(registry, g)} : Follows(registry, q)
    BY Unchanged, UnregisterFollows DEF IInv
  <2>2. Follows(registry, registry') /\ AdoptedOK(registry', adopted')
    BY <1>1, <2>1, PublishOK DEF DisposeDone
  <2>3. Grows(sess, sess') /\ SessOK(registry, sess')
    BY <1>1 DEF DisposeDone, IInv, SessOK, SessionStates, Grows
  <2>4. SessOK(registry', sess')
    BY <2>2, <2>3, StillOK
  <2> QED  BY <1>1, <2>2, <2>3, <2>4, Rest DEF DisposeDone, IInv
<1>2. ASSUME NEW status \in {"running", "idle"}, Reported(s, status)
      PROVE  Follows(registry, registry') /\ AdoptedOK(registry', adopted')
  <2>1. Follows(registry, SetStatus(registry, OwnerOf(registry, s), status))
    BY SetStatusFollows DEF IInv
  <2>2. Follows(registry, registry)
    BY Unchanged DEF IInv
  <2> QED  BY <1>2, <2>1, <2>2, PublishOK DEF Reported, IInv
<1>3. CASE StartRun(s)
  <2>1. Follows(registry, registry') /\ AdoptedOK(registry', adopted')
    BY <1>2, <1>3 DEF StartRun
  <2>2. Grows(sess, sess') /\ SessOK(registry, sess')
    BY <1>3 DEF StartRun, IInv, SessOK, SessionStates, Grows
  <2>3. SessOK(registry', sess')
    BY <2>1, <2>2, StillOK
  <2> QED  BY <1>3, <2>1, <2>2, <2>3, Rest DEF StartRun, IInv
<1>4. CASE EndRun(s)
  <2>1. Follows(registry, registry') /\ AdoptedOK(registry', adopted')
    BY <1>2, <1>4 DEF EndRun
  <2>2. Grows(sess, sess') /\ SessOK(registry, sess')
    BY <1>4 DEF EndRun, IInv, SessOK, SessionStates, Grows
  <2>3. SessOK(registry', sess')
    BY <2>1, <2>2, StillOK
  <2>4. registry.ref[g].file \in Files
    BY <1>4 DEF EndRun, IInv, SessOK, Sound, Exists
  <2>5. disk' \in Disks
    BY <1>4, <2>4 DEF EndRun, IInv, Disks
  <2> QED  BY <1>4, <2>1, <2>2, <2>3, <2>5, Rest DEF EndRun, IInv
<1> QED  BY <1>1, <1>3, <1>4

(* Calls of ensureLive() keep the invariant. *)
LEMMA EnsureStepIInv ==
    ASSUME IInv, NEW c \in Callers, EnsureStep(c) \/ Forget(c)
    PROVE  IInv'
<1>1. call \in [Callers -> Calls] /\ registry.cur \in Gens \cup {None}
  BY DEF IInv, CallOK, Sound, Registries
<1>2. ASSUME registry' = registry, sess' = sess
      PROVE  Follows(registry, registry') /\ Grows(sess, sess')
  BY <1>2, Unchanged, SameSessions DEF IInv
<1>3. ASSUME NEW v \in Calls, v.pc \notin {"factory", "opening", "constructing"}
      PROVE  CallOK(registry, sess, [call EXCEPT ![c] = v])
  BY <1>3, CallUpdated DEF IInv
<1>4. Attached(registry) \in Sessions \cup {None}
  BY AttachedType DEF IInv
<1>5. CASE EnsureMeetsPark(c)
  <2>1. [call[c] EXCEPT !.pc = "waiting"] \in Calls /\ [call[c] EXCEPT !.pc = "waiting"].pc = "waiting"
    BY <1>1 DEF Calls
  <2>2. /\ [call[c] EXCEPT !.pc = "keeping", !.gen = registry.cur] \in Calls
        /\ [call[c] EXCEPT !.pc = "keeping", !.gen = registry.cur].pc = "keeping"
    BY <1>1 DEF Calls
  <2>3. CallOK(registry, sess, call')
    BY <1>3, <1>5, <2>1, <2>2 DEF EnsureMeetsPark
  <2>4. park' \in Parks
    BY <1>5 DEF EnsureMeetsPark, IInv, Parks
  <2> QED  BY <1>2, <1>5, <2>3, <2>4, Rest DEF EnsureMeetsPark, IInv
<1>6. CASE EnsureKeeps(c)
  <2>1. CallOK(registry, sess, call')
    BY <1>3, <1>4, <1>6, Outcomes DEF EnsureKeeps
  <2>2. Armed \in BOOLEAN
    BY DEF Armed
  <2>3. AdoptedOK(registry, Rearmed(call[c].gen))
    BY <2>2 DEF Rearmed, IInv, AdoptedOK, Adoptions
  <2> QED  BY <1>2, <1>6, <2>1, <2>3, Rest DEF EnsureKeeps, IInv
<1>7. CASE EnsureFindsLive(c) \/ EnsureRefuses(c) \/ Forget(c)
  <2>1. CallOK(registry, sess, call')
    BY <1>3, <1>4, <1>7, Outcomes DEF EnsureFindsLive, EnsureRefuses, Forget
  <2> QED  BY <1>2, <1>7, <2>1, Rest DEF EnsureFindsLive, EnsureRefuses, Forget, IInv
<1>8. CASE EnsureJoins(c)
  <2>1. /\ [IdleCall EXCEPT !.pc = "joined", !.gen = registry.cur] \in Calls
        /\ [IdleCall EXCEPT !.pc = "joined", !.gen = registry.cur].pc = "joined"
    BY <1>1 DEF IdleCall, Calls
  <2>2. CallOK(registry, sess, call')
    BY <1>3, <1>8, <2>1 DEF EnsureJoins
  <2> QED  BY <1>2, <1>8, <2>2, Rest DEF EnsureJoins, IInv
<1>9. CASE EnsureRevives(c)
  <2> DEFINE g == registry.cur
             v == [IdleCall EXCEPT !.gen = g, !.pc = IF Warm(g) THEN "opening" ELSE "factory"]
  <2>1. v \in Calls /\ v.gen = g /\ v.sess = None /\ v.pc \in {"opening", "factory"}
    BY <1>1 DEF Calls, IdleCall
  <2>2. Exists(registry, g) /\ call' = [call EXCEPT ![c] = v]
    BY <1>9 DEF EnsureRevives, IInv, Sound
  <2> HIDE DEF v, g
  <2>3. CallOK(registry, sess, call')
    BY <2>1, <2>2 DEF IInv, CallOK
  <2> QED  BY <1>2, <1>9, <2>3, Rest DEF EnsureRevives, IInv
<1> QED  BY <1>5, <1>6, <1>7, <1>8, <1>9 DEF EnsureStep

(* Revivals keep the invariant. *)
LEMMA RevivalStepIInv ==
    ASSUME IInv, NEW c \in Callers, RevivalStep(c)
    PROVE  IInv'
<1> DEFINE g == call[c].gen
           s == call[c].sess
<1>1. /\ call \in [Callers -> Calls] /\ sess \in [Sessions -> SessionStates]
      /\ call[c] \in Calls /\ s \in Sessions \cup {None}
  BY DEF IInv, CallOK, SessOK, Calls
<1>2. ASSUME registry' = registry, sess' = sess
      PROVE  Follows(registry, registry') /\ Grows(sess, sess')
  BY <1>2, Unchanged, SameSessions DEF IInv
<1>3. ASSUME NEW outcome \in Calls, outcome.pc \in {"returned", "threw"}, Settle(c, outcome),
             Follows(registry, registry'), Grows(sess, sess')
      PROVE  CallOK(registry', sess', call') /\ revival' \in Callers \cup {NoCaller}
  BY <1>3, Rest, SettleOK DEF IInv
<1>4. ASSUME NEW pc \in {"wiring", "failing", "rejecting"},
             call' = [call EXCEPT ![c].pc = pc],
             Follows(registry, registry'), Grows(sess, sess')
      PROVE  CallOK(registry', sess', call')
  <2>1. [call[c] EXCEPT !.pc = pc] \in Calls /\ [call[c] EXCEPT !.pc = pc].pc = pc
    BY <1>1 DEF Calls
  <2>2. CallOK(registry', sess', [call EXCEPT ![c] = [call[c] EXCEPT !.pc = pc]])
    BY <1>4, <2>1, Rest, CallUpdated
  <2> QED  BY <1>4, <2>2
<1>5. Threw \in Calls /\ Threw.pc = "threw"
  BY Outcomes
<1>6. ASSUME Follows(registry, registry'), Grows(sess, sess'), adopted' = DropCold(c)
      PROVE  AdoptedOK(registry', adopted')
  BY <1>6, Rest, DropColdOK
<1>7. CASE FactoryReturns(c)
  <2>1. AdoptedOK(registry, adopted')
    <3>1. ColdAdoption(c).gen = g /\ ColdAdoption(c) \in Adoptions
      BY <1>1 DEF ColdAdoption, Adoptions, Calls
    <3> QED  BY <1>7, <3>1 DEF FactoryReturns, IInv, CallOK, AdoptedOK
  <2>2. CASE /\ call' = [call EXCEPT ![c] = [@ EXCEPT !.pc = "opening", !.cold = TRUE]]
             /\ UNCHANGED revival
    <3> DEFINE v == [call[c] EXCEPT !.pc = "opening", !.cold = TRUE]
    <3>1. v \in Calls /\ v.pc = "opening" /\ v.sess = s
      BY <1>1 DEF Calls
    <3>2. s = None
      BY <1>7 DEF FactoryReturns, IInv, CallOK
    <3> HIDE DEF v
    <3>3. [call EXCEPT ![c] = v] = call'
      BY <1>1, <2>2 DEF v
    <3>4. CallOK(registry, sess, call')
      BY <3>1, <3>2, <3>3 DEF IInv, CallOK
    <3>5. UNCHANGED <<registry, sess, park, rel, exec, scan, disk, killed>>
      BY <1>7 DEF FactoryReturns
    <3> QED  BY <1>2, <2>1, <2>2, <3>4, <3>5, Rest DEF IInv
  <2>3. CASE Settle(c, Threw)
    BY <1>2, <1>3, <1>5, <1>7, <2>1, <2>3, Rest DEF FactoryReturns, IInv
  <2> QED  BY <1>7, <2>2, <2>3 DEF FactoryReturns
<1>8. CASE FactoryDeclines(c)
  BY <1>2, <1>3, <1>5, <1>8, Rest DEF FactoryDeclines, IInv
<1>9. ASSUME NEW t \in Sessions, RevivalClaims(c, t) PROVE IInv'
  <2>1. Exists(registry, g)
    BY <1>9 DEF RevivalClaims, Claimable, Registered, IInv, Sound
  <2>2. SessOK(registry, sess') /\ Grows(sess, sess') /\ sess'[t].state # "none"
    BY <1>9, <2>1 DEF RevivalClaims, IInv, SessOK, SessionStates, Grows, Exists
  <2>3. Follows(registry, registry')
    BY <1>9, Unchanged DEF RevivalClaims, IInv
  <2> DEFINE v == [call[c] EXCEPT !.pc = "constructing", !.sess = t]
  <2>4. v \in Calls /\ v.pc = "constructing" /\ v.sess = t
    BY <1>1 DEF Calls
  <2>5. call' = [call EXCEPT ![c] = v]
    BY <1>9 DEF RevivalClaims
  <2> HIDE DEF v
  <2>6. CallOK(registry, sess', call)
    BY <1>9, <2>2, <2>3, Rest DEF RevivalClaims
  <2>7. CallOK(registry, sess', call')
    BY <2>2, <2>4, <2>5, <2>6 DEF CallOK
  <2> QED  BY <1>9, <2>2, <2>3, <2>7, Rest DEF RevivalClaims, IInv
<1>10. CASE RevivalAttaches(c)
  <2>1. Follows(registry, SetStatus(Attach(registry, g, s), g, "running"))
    BY <1>1, <1>10, AttachFollows DEF RevivalAttaches, IInv
  <2>2. Follows(registry, registry') /\ AdoptedOK(registry', adopted')
    BY <1>10, <2>1, PublishOK DEF RevivalAttaches
  <2>3. s \in Sessions /\ sess[s].state # "none"
    BY <1>10 DEF RevivalAttaches, IInv, CallOK
  <2>4. SessOK(registry, sess') /\ Grows(sess, sess')
    BY <1>10, <2>3 DEF RevivalAttaches, IInv, SessOK, SessionStates, Grows
  <2>5. SessOK(registry', sess')
    BY <2>2, <2>4, StillOK
  <2>6. CallOK(registry', sess', call')
    BY <1>4, <1>10, <2>2, <2>4 DEF RevivalAttaches
  <2> QED  BY <1>10, <2>2, <2>4, <2>5, <2>6, Rest DEF RevivalAttaches, IInv
<1>11. CASE RevivalFails(c)
  BY <1>2, <1>3, <1>5, <1>6, <1>11, Rest DEF RevivalFails, IInv
<1>12. ASSUME sess' = Disposing(sess, s) \/ sess' = Disposing([sess EXCEPT ![s].synced = TRUE], s)
       PROVE  SessOK(registry, sess') /\ Grows(sess, sess')
  <2>1. SessOK(registry, [sess EXCEPT ![s].synced = TRUE]) /\ Grows(sess, [sess EXCEPT ![s].synced = TRUE])
    BY <1>1 DEF IInv, SessOK, SessionStates, Grows
  <2>2. CASE sess' = Disposing(sess, s)
    BY <2>2, DisposingOK DEF IInv
  <2>3. CASE sess' = Disposing([sess EXCEPT ![s].synced = TRUE], s)
    <3>1. SessOK(registry, sess') /\ Grows([sess EXCEPT ![s].synced = TRUE], sess')
      BY <2>1, <2>3, DisposingOK
    <3> QED  BY <2>1, <3>1 DEF Grows
  <2> QED  BY <1>12, <2>2, <2>3
<1>13. CASE RevivalStartupFails(c)
  <2>1. Follows(registry, registry')
    BY <1>13, Unchanged DEF RevivalStartupFails, IInv
  <2>2. CallOK(registry', sess', call')
    BY <1>4, <1>12, <1>13, <2>1 DEF RevivalStartupFails
  <2> QED  BY <1>12, <1>13, <2>1, <2>2, Rest DEF RevivalStartupFails, IInv
<1>14. CASE RevivalWiringFails(c)
  BY <1>2, <1>3, <1>5, <1>6, <1>14, Rest DEF RevivalWiringFails, IInv
<1>15. CASE RevivalReturns(c)
  <2>1. ASSUME Publish(SetStatus(Attach(registry, g, s), g, "idle"), g), Attachable(registry, g),
               sess' = [sess EXCEPT ![s].synced = TRUE], Settle(c, Returned(s))
        PROVE  IInv'
    <3>1. Follows(registry, SetStatus(Attach(registry, g, s), g, "idle"))
      BY <1>1, <2>1, AttachFollows DEF IInv
    <3>2. Follows(registry, registry') /\ AdoptedOK(registry', adopted')
      BY <2>1, <3>1, PublishOK
    <3>3. SessOK(registry, sess') /\ Grows(sess, sess')
      BY <1>1, <2>1 DEF IInv, SessOK, SessionStates, Grows
    <3>4. SessOK(registry', sess')
      BY <3>2, <3>3, StillOK
    <3>5. CallOK(registry', sess', call') /\ revival' \in Callers \cup {NoCaller}
      BY <1>1, <1>3, <2>1, <3>2, <3>3, Outcomes
    <3> QED  BY <1>15, <3>2, <3>3, <3>4, <3>5, Rest DEF RevivalReturns, IInv
  <2>2. ASSUME sess' = Disposing([sess EXCEPT ![s].synced = TRUE], s),
               call' = [call EXCEPT ![c].pc = "rejecting"],
               UNCHANGED <<registry, adopted, revival>>
        PROVE  IInv'
    <3>1. Follows(registry, registry')
      BY <2>2, Unchanged DEF IInv
    <3>2. CallOK(registry', sess', call')
      BY <1>4, <1>12, <2>2, <3>1
    <3> QED  BY <1>12, <1>15, <2>2, <3>1, <3>2, Rest DEF RevivalReturns, IInv
  <2>3. (Claimable(registry, g) \/ (Registered(registry, g) /\ registry.ref[g].status = "running"))
           => Attachable(registry, g)
    BY DEF Claimable, Attachable
  <2> QED  BY <1>15, <2>1, <2>2, <2>3 DEF RevivalReturns
<1>16. CASE RevivalRejected(c)
  BY <1>2, <1>3, <1>5, <1>6, <1>16, Rest DEF RevivalRejected, IInv
<1>17. CASE RevivalConstructionFails(c)
  <2>1. s \in Sessions /\ sess[s].state # "none"
    BY <1>17 DEF RevivalConstructionFails, IInv, CallOK
  <2>2. SessOK(registry, sess') /\ Grows(sess, sess')
    BY <1>17, <2>1 DEF RevivalConstructionFails, IInv, SessOK, SessionStates, Grows
  <2>3. Follows(registry, registry')
    BY <1>17, Unchanged DEF RevivalConstructionFails, IInv
  <2>4. CallOK(registry', sess', call')
    BY <1>4, <1>17, <2>2, <2>3 DEF RevivalConstructionFails
  <2> QED  BY <1>17, <2>2, <2>3, <2>4, Rest DEF RevivalConstructionFails, IInv
<1> QED
  BY <1>7, <1>8, <1>9, <1>10, <1>11, <1>13, <1>14, <1>15, <1>16, <1>17 DEF RevivalStep

(* Executors keep the invariant, their aborts apart. *)
LEMMA ExecutorStepIInv ==
    ASSUME IInv, NEW g \in Gens, ExecutorStep(g) \/ \E f \in Files : Spawn(g, f)
    PROVE  IInv'
<1>1. /\ exec \in [Gens -> Executors] /\ exec[g] \in Executors
      /\ sess \in [Sessions -> SessionStates] /\ registry.cur \in Gens \cup {None}
  BY DEF IInv, SessOK, Sound, Registries
<1>2. Follows(registry, registry) /\ Grows(sess, sess)
  BY Unchanged, SameSessions DEF IInv
<1>3. \A h : Follows(registry, Unregister(registry, h))
  BY UnregisterFollows DEF IInv
<1>4. \A f \in Files : Follows(registry, Register(registry, g, "running", f))
  BY RegisterFollows DEF IInv, Statuses
<1>5. \A pc \in {"probing", "claiming", "constructing", "running", "done"} :
         [exec EXCEPT ![g].pc = pc] \in [Gens -> Executors]
  BY <1>1 DEF Executors
(* Every step but two only moves the registry, the executor and sessions.  *)
<1>6. ASSUME Follows(registry, registry'), Grows(sess, sess'), SessOK(registry, sess'),
             AdoptedOK(registry', adopted'), exec' \in [Gens -> Executors],
             UNCHANGED <<park, revival, call, rel, scan, disk, killed>>
      PROVE  IInv'
  BY <1>6, Rest, StillOK DEF IInv
<1>7. ASSUME Follows(registry, registry'), exec' \in [Gens -> Executors],
             UNCHANGED <<sess, adopted, park, revival, call, rel, scan, disk, killed>>
      PROVE  IInv'
  BY <1>2, <1>6, <1>7, Rest DEF IInv
<1>8. ASSUME NEW f \in Files, Spawn(g, f) PROVE IInv'
  <2>1. [exec EXCEPT ![g] = [@ EXCEPT !.pc = "probing", !.target = registry.cur]] \in [Gens -> Executors]
    BY <1>1 DEF Executors
  <2> QED  BY <1>2, <1>3, <1>4, <1>5, <1>7, <1>8, <2>1 DEF Spawn
<1>9. ASSUME NEW f \in Files, SpawnClaims(g, f) PROVE IInv'
  BY <1>2, <1>4, <1>5, <1>7, <1>9 DEF SpawnClaims
<1>10. CASE ProbeReturns(g)
  BY <1>2, <1>3, <1>5, <1>7, <1>10 DEF ProbeReturns
<1>11. CASE ProbeRefuses(g)
  BY <1>2, <1>5, <1>7, <1>11 DEF ProbeRefuses
<1>12. ASSUME NEW s \in Sessions, SpawnAttaches(g, s) PROVE IInv'
  <2>1. Follows(registry, SetStatus(Attach(registry, g, s), g, "running"))
    BY <1>12, AttachFollows DEF SpawnAttaches, IInv
  <2>2. Follows(registry, registry') /\ AdoptedOK(registry', adopted')
    BY <1>12, <2>1, PublishOK DEF SpawnAttaches
  <2>3. Exists(registry, g)
    BY <1>12 DEF SpawnAttaches, Attachable, Registered, IInv, Sound
  <2>4. SessOK(registry, sess') /\ Grows(sess, sess')
    BY <1>12, <2>3 DEF SpawnAttaches, IInv, SessOK, SessionStates, Grows, Exists
  <2>5. exec' \in [Gens -> Executors]
    BY <1>1, <1>12 DEF SpawnAttaches, Executors
  <2> QED  BY <1>6, <1>12, <2>2, <2>4, <2>5 DEF SpawnAttaches
<1>13. CASE SpawnFails(g)
  <2>1. Follows(registry, registry') /\ AdoptedOK(registry', adopted')
    BY <1>2, <1>3, <1>13, PublishOK DEF SpawnFails
  <2>2. SessOK(registry, sess)
    BY DEF IInv
  <2> QED  BY <1>2, <1>5, <1>6, <1>13, <2>1, <2>2 DEF SpawnFails
<1>14. CASE SpawnStartupFails(g)
  <2>1. SessOK(registry, sess') /\ Grows(sess, sess')
    BY <1>14, DisposingOK DEF SpawnStartupFails, IInv
  <2>2. AdoptedOK(registry, adopted)
    BY DEF IInv
  <2> QED  BY <1>2, <1>5, <1>6, <1>14, <2>1, <2>2 DEF SpawnStartupFails
<1>15. CASE SpawnReturns(g)
  <2>1. SessOK(registry, sess') /\ Grows(sess, sess')
    BY <1>15 DEF SpawnReturns, IInv, SessOK, SessionStates, Grows
  <2>2. AdoptedOK(registry, adopted)
    BY DEF IInv
  <2> QED  BY <1>2, <1>5, <1>6, <1>15, <2>1, <2>2 DEF SpawnReturns
<1>16. CASE ExecutorKeepsAlive(g)
  <2>1. CASE OwnsRef(g)
    <3>1. Follows(registry, registry') /\ Exists(registry, g)
      BY <1>16, <2>1, SetStatusFollows
      DEF ExecutorKeepsAlive, OwnsRef, Registered, IInv, Sound
    <3>2. Armed \in BOOLEAN
      BY DEF Armed
    <3>3. [gen |-> g, timer |-> Armed, cold |-> NoCaller] \in Adoptions
      BY <3>2 DEF Adoptions
    <3>4. AdoptedOK(registry', adopted')
      BY <1>16, <2>1, <3>1, <3>3 DEF ExecutorKeepsAlive, AdoptedOK, Follows
    <3>5. SessOK(registry, sess)
      BY DEF IInv
    <3> QED  BY <1>2, <1>5, <1>6, <1>16, <2>1, <3>1, <3>4, <3>5 DEF ExecutorKeepsAlive
  <2>2. CASE ~OwnsRef(g)
    <3>1. SessOK(registry, sess') /\ Grows(sess, sess')
      BY <1>16, <2>2, DisposingOK DEF ExecutorKeepsAlive, IInv
    <3>2. AdoptedOK(registry, adopted)
      BY DEF IInv
    <3> QED  BY <1>2, <1>5, <1>6, <1>16, <2>2, <3>1, <3>2 DEF ExecutorKeepsAlive
  <2> QED  BY <2>1, <2>2
<1> QED
  BY <1>8, <1>9, <1>10, <1>11, <1>12, <1>13, <1>14, <1>15, <1>16 DEF ExecutorStep

(* The commit of a release: a tombstone, or the start of a dispose. *)
LEMMA ReleaseCommitOK ==
    ASSUME IInv, NEW k \in Killers, NEW g, Exists(registry, g), NEW r \in Releases,
           ReleaseCommit(k, g, r)
    PROVE  /\ Follows(registry, registry')
           /\ SessOK(registry, sess') /\ Grows(sess, sess')
           /\ RelOK(registry, rel')
<1> DEFINE live == Captured(g)
           record == [r EXCEPT !.gen = g, !.live = live]
<1>1. g \in Gens /\ live \in Sessions \cup {None}
  BY DEF Exists, Captured, IInv, Sound, Registries, Refs
<1>2. record \in Releases /\ record.gen = g
  BY <1>1 DEF Releases
<1> HIDE DEF record
<1>3. ASSUME NEW pc \in {"persisting", "cleanup", "disposing"},
             rel' = [rel EXCEPT ![k] = [record EXCEPT !.pc = pc]]
      PROVE  RelOK(registry, rel')
  <2>1. [record EXCEPT !.pc = pc] \in Releases /\ [record EXCEPT !.pc = pc].gen = g
    BY <1>2 DEF Releases
  <2> QED  BY <1>3, <2>1, RelUpdated DEF IInv
<1>4. CASE r.kind \in Tombstones
  <2>1. Follows(registry, registry')
    BY <1>4, DetachFollows DEF ReleaseCommit, Terminal, IInv
  <2>2. SessOK(registry, sess') /\ Grows(sess, sess')
    BY <1>4, SameSessions DEF ReleaseCommit, IInv
  <2>3. RelOK(registry, rel')
    BY <1>3, <1>4 DEF ReleaseCommit, record
  <2> QED  BY <2>1, <2>2, <2>3
<1>5. CASE r.kind \notin Tombstones
  <2>1. Follows(registry, registry')
    BY <1>5, Unchanged DEF ReleaseCommit, IInv
  <2>2. SessOK(registry, sess') /\ Grows(sess, sess')
    BY <1>5, SameSessions, DisposingOK DEF ReleaseCommit, IInv
  <2>3. RelOK(registry, rel')
    BY <1>3, <1>5 DEF ReleaseCommit, record
  <2> QED  BY <2>1, <2>2, <2>3
<1> QED  BY <1>4, <1>5

(* release() up to its first await. *)
LEMMA ReleaseFromOK ==
    ASSUME IInv, NEW k \in Killers, NEW expected, NEW r \in Releases, ReleaseFrom(k, expected, r)
    PROVE  /\ Follows(registry, registry')
           /\ SessOK(registry, sess') /\ Grows(sess, sess')
           /\ AdoptedOK(registry, adopted')
           /\ park' \in Parks
           /\ RelOK(registry, rel')
<1> DEFINE g == CASE Matches(registry.cur, expected) -> registry.cur
                  [] /\ ~Matches(registry.cur, expected)
                     /\ Matches(adopted.gen, expected)  -> adopted.gen
                  [] OTHER                              -> None
           hooked == [r EXCEPT !.hook = adopted.gen = g /\ registry.ref[g].file \in Isolated]
<1>1. g # None => Exists(registry, g)
  BY DEF Matches, IInv, Sound, AdoptedOK
<1> HIDE DEF g
<1>2. Follows(registry, registry) /\ Grows(sess, sess) /\ AdoptedOK(registry, NoAdoption)
  BY Unchanged, SameSessions DEF IInv, AdoptedOK, NoAdoption, Adoptions
<1>3. CASE g = None
  <2>1. IdleRelease \in Releases /\ IdleRelease.pc = "idle"
    BY DEF IdleRelease, Releases
  <2>2. rel' = [rel EXCEPT ![k] = IdleRelease] /\ UNCHANGED <<registry, sess, adopted, park>>
    BY <1>3 DEF ReleaseFrom, g
  <2>3. RelOK(registry, rel')
    BY <2>1, <2>2, RelUpdated DEF IInv
  <2> QED  BY <1>2, <2>2, <2>3 DEF IInv
<1>4. CASE g # None
  <2>1. hooked \in Releases
    BY DEF Releases
  <2> HIDE DEF hooked
  <2>2. adopted' = NoAdoption \/ adopted' = adopted
    BY <1>4 DEF ReleaseFrom, g
  <2>3. AdoptedOK(registry, adopted')
    BY <1>2, <2>2 DEF IInv
  <2>4. CASE park.pc # "none" /\ park.gen = g
    <3>1. /\ park' = [park EXCEPT !.cancelled = @ \/ park.pc = "yielding"]
          /\ rel' = [rel EXCEPT ![k] = [hooked EXCEPT !.pc = "parking", !.gen = g]]
          /\ UNCHANGED <<registry, sess>>
      BY <1>4, <2>4 DEF ReleaseFrom, g, hooked
    <3>2. park' \in Parks
      BY <3>1 DEF IInv, Parks
    <3>3. /\ [hooked EXCEPT !.pc = "parking", !.gen = g] \in Releases
          /\ [hooked EXCEPT !.pc = "parking", !.gen = g].gen = g
      BY <1>1, <1>4, <2>1 DEF Releases, Exists
    <3>4. RelOK(registry, rel')
      BY <1>1, <1>4, <3>1, <3>3, RelUpdated DEF IInv
    <3> QED  BY <1>2, <2>3, <3>1, <3>2, <3>4 DEF IInv
  <2>5. CASE ~(park.pc # "none" /\ park.gen = g)
    <3>1. ReleaseCommit(k, g, hooked) /\ UNCHANGED park
      BY <1>4, <2>5 DEF ReleaseFrom, g, hooked
    <3> QED  BY <1>1, <1>4, <2>1, <2>3, <3>1, ReleaseCommitOK DEF IInv
  <2> QED  BY <2>4, <2>5
<1> QED  BY <1>3, <1>4

(* Releases, and the aborts of executors that start one, keep the          *)
(* invariant.                                                              *)
LEMMA ReleaseStepIInv ==
    ASSUME IInv, NEW k \in Killers,
           \/ \E kind \in KillKinds : Kill(k, kind)
           \/ \E g \in Gens, kind \in KillKinds : ExecutorAborts(g, k, kind)
           \/ ReleaseStep(k)
    PROVE  IInv'
<1>1. rel \in [Killers -> Releases] /\ rel[k] \in Releases
  BY DEF IInv, RelOK
<1>2. Follows(registry, registry) /\ Grows(sess, sess)
  BY Unchanged, SameSessions DEF IInv
(* What is shown about the old registry holds of the new one.              *)
<1>3. ASSUME Follows(registry, registry'), Grows(sess, sess'), SessOK(registry, sess'),
             AdoptedOK(registry, adopted'), park' \in Parks, RelOK(registry, rel'),
             exec' \in [Gens -> Executors], disk' \in Disks,
             UNCHANGED <<revival, call, scan, killed>>
      PROVE  IInv'
  BY <1>3, Rest, StillOK DEF IInv
<1>4. \A kind \in KillKinds, g \in Gens :
         /\ [IdleRelease EXCEPT !.kind = kind, !.target = g] \in Releases
         /\ [[IdleRelease EXCEPT !.kind = kind, !.target = g] EXCEPT !.pc = "aborting"] \in Releases
         /\ [[IdleRelease EXCEPT !.kind = kind, !.target = g] EXCEPT !.pc = "aborting"].pc = "aborting"
  BY DEF IdleRelease, Releases
<1>5. ASSUME NEW kind \in KillKinds, Kill(k, kind) PROVE IInv'
  <2> DEFINE g == registry.cur
             r == [IdleRelease EXCEPT !.kind = kind, !.target = g]
  <2>1. g \in Gens
    BY <1>5 DEF Kill, IInv, Sound, Registries
  <2>2. r \in Releases /\ [r EXCEPT !.pc = "aborting"] \in Releases
        /\ [r EXCEPT !.pc = "aborting"].pc = "aborting"
    BY <1>4, <2>1
  <2>3. CASE /\ rel' = [rel EXCEPT ![k] = [r EXCEPT !.pc = "aborting"]]
             /\ UNCHANGED <<registry, sess, adopted, park>>
    <3>1. RelOK(registry, rel')
      BY <2>2, <2>3, RelUpdated DEF IInv
    <3> QED  BY <1>2, <1>3, <1>5, <2>3, <3>1 DEF Kill, IInv
  <2>4. CASE \E expected : ReleaseFrom(k, expected, r)
    BY <1>3, <1>5, <2>2, <2>4, ReleaseFromOK DEF Kill, IInv
  <2> QED  BY <1>5, <2>3, <2>4 DEF Kill
<1>6. CASE KillAborted(k)
  <2>1. PICK expected : ReleaseFrom(k, expected, rel[k])
    BY <1>6 DEF KillAborted
  <2> QED  BY <1>1, <1>3, <1>6, <2>1, ReleaseFromOK DEF KillAborted, IInv
<1>7. ASSUME NEW g \in Gens, NEW kind \in KillKinds, ExecutorAborts(g, k, kind) PROVE IInv'
  <2>1. exec' \in [Gens -> Executors]
    BY <1>7 DEF ExecutorAborts, IInv, Executors
  <2>2. CASE ReleaseFrom(k, g, [IdleRelease EXCEPT !.kind = kind, !.target = g])
    BY <1>3, <1>4, <1>7, <2>1, <2>2, ReleaseFromOK DEF ExecutorAborts, IInv
  <2>3. CASE sess' = Disposing(sess, exec[g].sess) /\ UNCHANGED <<registry, adopted, park, rel>>
    <3>1. SessOK(registry, sess') /\ Grows(sess, sess')
      BY <2>3, DisposingOK DEF IInv
    <3> QED  BY <1>2, <1>3, <1>7, <2>1, <2>3, <3>1 DEF ExecutorAborts, IInv
  <2> QED  BY <1>7, <2>2, <2>3 DEF ExecutorAborts
<1>8. CASE ReleaseCommits(k)
  <2>1. Exists(registry, rel[k].gen)
    BY <1>8 DEF ReleaseCommits, IInv, RelOK
  <2> QED  BY <1>1, <1>3, <1>8, <2>1, ReleaseCommitOK DEF ReleaseCommits, IInv
<1>9. ASSUME NEW ok \in BOOLEAN, TombstonePersisted(k, ok) PROVE IInv'
  <2>1. Exists(registry, rel[k].gen) /\ registry.ref[rel[k].gen].file \in Files
    BY <1>9 DEF TombstonePersisted, IInv, RelOK, Sound, Exists
  <2>2. disk' \in Disks
    BY <1>9, <2>1 DEF TombstonePersisted, IInv, Disks
  <2>3. SessOK(registry, sess') /\ Grows(sess, sess')
    BY <1>2, <1>9, DisposingOK DEF TombstonePersisted, IInv
  <2>4. \A pc \in {"cleanup", "disposing"} :
           /\ [rel[k] EXCEPT !.ok = ok, !.pc = pc] \in Releases
           /\ [rel[k] EXCEPT !.ok = ok, !.pc = pc].gen = rel[k].gen
    BY <1>1 DEF Releases
  <2>5. RelOK(registry, rel')
    BY <1>9, <2>1, <2>4, RelUpdated DEF TombstonePersisted, IInv
  <2> QED  BY <1>2, <1>3, <1>9, <2>2, <2>3, <2>5 DEF TombstonePersisted, IInv
<1>10. CASE ReleaseDisposed(k)
  <2>1. RelOK(registry, rel')
    BY <1>1, <1>10 DEF ReleaseDisposed, IInv, RelOK, Releases
  <2> QED  BY <1>2, <1>3, <1>10, <2>1 DEF ReleaseDisposed, IInv
<1>11. CASE ReleaseFinishes(k)
  <2> DEFINE g == rel[k].gen
  <2>1. registry.ref[g].file \in Files
    BY <1>11 DEF ReleaseFinishes, IInv, RelOK, Sound, Exists
  <2>2. killed' \subseteq Files
    BY <1>11, <2>1 DEF ReleaseFinishes, IInv
  <2>3. \A q \in {registry, Unregister(registry, g)} : Follows(registry, q)
    BY <1>2, UnregisterFollows DEF IInv
  <2>4. Follows(registry, registry') /\ AdoptedOK(registry', adopted')
    BY <1>11, <2>3, PublishOK DEF ReleaseFinishes
  <2>5. IdleRelease \in Releases /\ IdleRelease.pc = "idle"
    BY DEF IdleRelease, Releases
  <2>6. RelOK(registry, rel')
    BY <1>11, <2>5, RelUpdated DEF ReleaseFinishes, IInv
  <2>7. RelOK(registry', rel') /\ SessOK(registry', sess)
    BY <1>2, <2>4, <2>6, StillOK DEF IInv
  <2>8. sess' = sess
    BY <1>11 DEF ReleaseFinishes
  <2> QED  BY <1>2, <1>11, <2>2, <2>4, <2>7, <2>8, Rest DEF ReleaseFinishes, IInv
<1> QED
  BY <1>5, <1>6, <1>7, <1>8, <1>9, <1>10, <1>11 DEF ReleaseStep

(* The scan keeps the invariant, and so does a restart. *)
LEMMA ScanStepIInv ==
    ASSUME IInv,
           (\E g \in Gens : ScanRegisters(g)) \/ (\E f \in Files : ScanStarts(f)) \/ ScanSkips
    PROVE  IInv'
<1>1. Follows(registry, registry) /\ Grows(sess, sess) /\ ScanOK(IdleScan)
  BY Unchanged, SameSessions DEF IInv, ScanOK, IdleScan, Scans
<1>2. ASSUME NEW g \in Gens, ScanRegisters(g) PROVE IInv'
  <2> DEFINE vacated == Unregister(registry, scan.expected)
             status == IF scan.tombstoned THEN "aborted" ELSE "parked"
  <2>1. Follows(registry, vacated)
    BY UnregisterFollows DEF IInv
  <2>2. scan.file \in Files /\ status \in Statuses
    BY <1>2 DEF ScanRegisters, IInv, ScanOK, Statuses
  <2>3. registry' = Register(vacated, g, status, scan.file)
    BY <1>2 DEF ScanRegisters
  <2>4. adopted' = OnRegistryEvent(adopted, registry, vacated, scan.expected)
    BY <1>2 DEF ScanRegisters
  <2> HIDE DEF vacated, status
  <2>5. Follows(vacated, registry')
    BY <2>1, <2>2, <2>3, RegisterFollows DEF Follows
  <2>6. Follows(registry, registry')
    BY <2>1, <2>5 DEF Follows
  <2>7. AdoptedOK(vacated, adopted)
    BY <1>1, <2>1, StillOK DEF IInv
  <2>8. AdoptedOK(vacated, adopted')
    BY <2>4, <2>7, EventOK
  <2>9. AdoptedOK(registry', adopted')
    BY <1>1, <2>5, <2>8, StillOK
  <2> QED  BY <1>1, <1>2, <2>6, <2>9, Rest DEF ScanRegisters, IInv
<1>3. ASSUME NEW f \in Files, ScanStarts(f) PROVE IInv'
  <2>1. registry.cur \in Gens \cup {None} /\ HasTombstone(f) \in BOOLEAN
    BY DEF IInv, Sound, Registries, HasTombstone
  <2>2. ScanOK(scan')
    BY <1>3, <2>1 DEF ScanStarts, ScanOK, Scans
  <2> QED  BY <1>1, <1>3, <2>2, Rest DEF ScanStarts, IInv
<1>4. CASE ScanSkips
  BY <1>1, <1>4, Rest DEF ScanSkips, IInv
<1> QED  BY <1>2, <1>3, <1>4

LEMMA RestartIInv == ASSUME IInv, Restart PROVE IInv'
<1>1. Sound(EmptyRegistry)
  BY DEF EmptyRegistry, Sound, Registries, Refs, Exists, DetachedIn
<1>2. \A r : /\ SessOK(r, [s \in Sessions |-> NoSession])
             /\ AdoptedOK(r, NoAdoption)
             /\ CallOK(r, [s \in Sessions |-> NoSession], [c \in Callers |-> IdleCall])
             /\ RelOK(r, [k \in Killers |-> IdleRelease])
  BY DEF SessOK, NoSession, SessionStates, AdoptedOK, NoAdoption, Adoptions,
         CallOK, IdleCall, Calls, RelOK, IdleRelease, Releases
<1>3. NoPark \in Parks /\ [g \in Gens |-> IdleExecutor] \in [Gens -> Executors] /\ ScanOK(IdleScan)
  BY DEF NoPark, Parks, IdleExecutor, Executors, IdleScan, Scans, ScanOK
<1> QED  BY <1>1, <1>2, <1>3 DEF Restart, IInv

LEMMA NextIInv == IInv /\ [Next]_vars => IInv'
<1> SUFFICES ASSUME IInv, [Next]_vars PROVE IInv'
  OBVIOUS
<1>1. CASE ParkStep
  BY <1>1, ParkStepIInv
<1>2. ASSUME NEW s \in Sessions, DisposeDone(s) \/ StartRun(s) \/ EndRun(s) PROVE IInv'
  BY <1>2, SessionStepIInv
<1>3. ASSUME NEW c \in Callers, EnsureStep(c) \/ RevivalStep(c) \/ Forget(c) PROVE IInv'
  BY <1>3, EnsureStepIInv, RevivalStepIInv
<1>4. ASSUME NEW g \in Gens, ExecutorStep(g) \/ \E f \in Files : Spawn(g, f) PROVE IInv'
  BY <1>4, ExecutorStepIInv
<1>5. ASSUME NEW k \in Killers,
             \/ \E kind \in KillKinds : Kill(k, kind)
             \/ \E g \in Gens, kind \in KillKinds : ExecutorAborts(g, k, kind)
             \/ ReleaseStep(k)
      PROVE  IInv'
  BY <1>5, ReleaseStepIInv
<1>6. CASE (\E g \in Gens : ScanRegisters(g)) \/ (\E f \in Files : ScanStarts(f)) \/ ScanSkips
  BY <1>6, ScanStepIInv
<1>7. CASE Restart
  BY <1>7, RestartIInv
<1>8. CASE UNCHANGED vars
  BY <1>8 DEF vars, IInv
<1> QED  BY <1>1, <1>2, <1>3, <1>4, <1>5, <1>6, <1>7, <1>8 DEF Next

LEMMA LifecycleInvariant == Spec => []IInv
BY InitIInv, NextIInv, PTL DEF Spec
-----------------------------------------------------------------------------
(* Every variable of the lifecycle keeps its type: in particular a park, a *)
(* release, a revival or a scan never reads the file of a ref that was     *)
(* never registered.                                                       *)
THEOREM LifecycleType == Spec => []TypeOK
<1>1. IInv => TypeOK
  BY DEF IInv, TypeOK, Sound, SessOK, AdoptedOK, CallOK, RelOK, ScanOK
<1> QED  BY <1>1, LifecycleInvariant, PTL

(* A parked or aborted ref has no session, in whatever order parks,        *)
(* revivals, kills, spawns and scans of the id ran.                        *)
THEOREM ParkedOrAbortedDetached == Spec => []DetachedWhenParkedOrAborted
<1>1. IInv => DetachedWhenParkedOrAborted
  BY DEF IInv, Sound, DetachedIn, DetachedWhenParkedOrAborted
<1> QED  BY <1>1, LifecycleInvariant, PTL

-----------------------------------------------------------------------------
(* The steps of a release, of whatever kind.                               *)

LEMMA IdleReleaseType == IdleRelease \in Releases
  BY DEF IdleRelease, Releases

(* Requests, as Kill and ExecutorAborts make them. *)
LEMMA RequestMade ==
    ASSUME NEW kind \in KillKinds, NEW g \in Gens
    PROVE  /\ [IdleRelease EXCEPT !.kind = kind, !.target = g] \in Releases
           /\ [IdleRelease EXCEPT !.kind = kind, !.target = g].kind = kind
           /\ [[IdleRelease EXCEPT !.kind = kind, !.target = g] EXCEPT !.pc = "aborting"] \in Releases
  BY DEF IdleRelease, Releases

(* What a release knows of itself when its first await comes. *)
LEMMA CommitRecord ==
    ASSUME IInv, NEW k \in Killers, NEW g, Exists(registry, g), NEW r \in Releases,
           ReleaseCommit(k, g, r)
    PROVE  /\ \A j \in Killers : j # k => rel'[j] = rel[j]
           /\ rel'[k].gen = g /\ rel'[k].kind = r.kind /\ rel'[k].target = r.target
           /\ rel'[k].ok = r.ok /\ rel'[k].live = Captured(g)
           /\ rel'[k].pc \in IF r.kind \in Tombstones THEN {"persisting"}
                                                      ELSE {"disposing", "cleanup"}
<1> DEFINE record == [r EXCEPT !.gen = g, !.live = Captured(g)]
<1>1. g \in Gens /\ Captured(g) \in Sessions \cup {None} /\ rel \in [Killers -> Releases]
  BY DEF Exists, Captured, IInv, Sound, Registries, Refs, RelOK
<1>2. /\ record \in Releases /\ record.gen = g /\ record.kind = r.kind
      /\ record.target = r.target /\ record.ok = r.ok /\ record.live = Captured(g)
  BY <1>1 DEF Releases
<1> HIDE DEF record
<1>3. \A pc \in {"persisting", "cleanup", "disposing"} :
        LET v == [record EXCEPT !.pc = pc]
        IN  /\ v.gen = g /\ v.kind = r.kind /\ v.target = r.target /\ v.ok = r.ok /\ v.pc = pc
            /\ v.live = Captured(g)
  BY <1>2 DEF Releases
<1>4. \E pc \in IF r.kind \in Tombstones THEN {"persisting"} ELSE {"disposing", "cleanup"} :
         rel' = [rel EXCEPT ![k] = [record EXCEPT !.pc = pc]]
  BY DEF ReleaseCommit, record
<1> QED
  BY <1>1, <1>3, <1>4

(* A release picks the ref it names, if any, or none. *)
LEMMA FromRecord ==
    ASSUME IInv, NEW k \in Killers, NEW r \in Releases, NEW expected,
           ReleaseFrom(k, expected, r)
    PROVE  /\ \A j \in Killers : j # k => rel'[j] = rel[j]
           /\ \/ rel'[k] = IdleRelease /\ registry' = registry
              \/ \E g \in Gens :
                 /\ Exists(registry, g) /\ expected \in {None, g}
                 /\ rel'[k].gen = g /\ rel'[k].kind = r.kind
                 /\ rel'[k].ok = r.ok
                 /\ \/ rel'[k].pc = "parking" /\ registry' = registry
                    \/ /\ rel'[k].live = Captured(g)
                       /\ registry' = IF r.kind \in Tombstones
                                      THEN Terminal(registry, g) ELSE registry
                       /\ rel'[k].pc \in IF r.kind \in Tombstones THEN {"persisting"}
                                                            ELSE {"disposing", "cleanup"}
<1> DEFINE g == CASE Matches(registry.cur, expected) -> registry.cur
                  [] /\ ~Matches(registry.cur, expected)
                     /\ Matches(adopted.gen, expected)  -> adopted.gen
                  [] OTHER                              -> None
           hooked == [r EXCEPT !.hook = adopted.gen = g /\ registry.ref[g].file \in Isolated]
<1>1. /\ g # None => Exists(registry, g) /\ g \in Gens
      /\ g # None => expected \in {None, g}
  BY DEF Matches, IInv, Sound, AdoptedOK, Exists
<1>2. rel \in [Killers -> Releases]
  BY DEF IInv, RelOK
<1>3. CASE g = None
  BY <1>2, <1>3 DEF ReleaseFrom
<1>4. CASE g # None
  <2>1. /\ hooked \in Releases /\ hooked.kind = r.kind /\ hooked.target = r.target
        /\ hooked.ok = r.ok
    BY DEF Releases
  <2>2. \/ /\ rel' = [rel EXCEPT ![k] = [hooked EXCEPT !.pc = "parking", !.gen = g]]
           /\ registry' = registry
        \/ ReleaseCommit(k, g, hooked)
    BY <1>4 DEF ReleaseFrom
  <2> HIDE DEF hooked, g
  <2>3. CASE /\ rel' = [rel EXCEPT ![k] = [hooked EXCEPT !.pc = "parking", !.gen = g]]
             /\ registry' = registry
    <3> DEFINE v == [hooked EXCEPT !.pc = "parking", !.gen = g]
    <3>1. /\ v.gen = g /\ v.kind = r.kind /\ v.target = r.target /\ v.ok = r.ok
          /\ v.pc = "parking"
      BY <1>1, <1>4, <2>1 DEF Releases
    <3> HIDE DEF v
    <3>2. rel'[k] = v /\ \A j \in Killers : j # k => rel'[j] = rel[j]
      BY <1>2, <2>3 DEF v
    <3> QED
      BY <1>1, <1>4, <2>3, <3>1, <3>2
  <2>4. CASE ReleaseCommit(k, g, hooked)
    <3>1. registry' = IF hooked.kind \in Tombstones THEN Terminal(registry, g) ELSE registry
      BY <2>4 DEF ReleaseCommit
    <3> QED
      BY <1>1, <1>4, <2>1, <2>4, <3>1, CommitRecord
  <2> QED
    BY <2>2, <2>3, <2>4
<1> QED
  BY <1>3, <1>4

(* Steps that are no part of a release at most resume those that wait for  *)
(* a park, or forget everything.                                           *)
LEMMA OthersLeaveReleases ==
    ASSUME IInv,
           \/ ParkStep
           \/ \E s \in Sessions : DisposeDone(s) \/ StartRun(s) \/ EndRun(s)
           \/ \E c \in Callers : EnsureStep(c) \/ RevivalStep(c) \/ Forget(c)
           \/ \E g \in Gens : ExecutorStep(g) \/ ScanRegisters(g) \/ \E f \in Files : Spawn(g, f)
           \/ \E f \in Files : ScanStarts(f)
           \/ ScanSkips
           \/ UNCHANGED vars
    PROVE  \A k \in Killers :
              \/ rel'[k] = rel[k]
              \/ rel[k].pc = "parking" /\ rel'[k] = [rel[k] EXCEPT !.pc = "commit"]
<1>1. CASE ParkStep
  BY <1>1 DEF ParkStep, TimerFires, ParkCommits, ParkGivesUp, ParkDone, WakeParkWaiters
<1>2. ASSUME NEW c \in Callers, EnsureStep(c) \/ RevivalStep(c) \/ Forget(c)
      PROVE  rel' = rel
  BY <1>2
  DEF EnsureStep, EnsureMeetsPark, EnsureKeeps, EnsureFindsLive, EnsureJoins, EnsureRevives,
      EnsureRefuses, RevivalStep, FactoryReturns, FactoryDeclines, RevivalClaims,
      RevivalAttaches, RevivalFails, RevivalConstructionFails, RevivalStartupFails,
      RevivalWiringFails, RevivalReturns, RevivalRejected, Forget
<1>3. ASSUME NEW g \in Gens, ExecutorStep(g) \/ ScanRegisters(g) \/ \E f \in Files : Spawn(g, f)
      PROVE  rel' = rel
  BY <1>3
  DEF ExecutorStep, SpawnClaims, ProbeReturns, ProbeRefuses, SpawnAttaches, SpawnFails,
      SpawnStartupFails, SpawnReturns, ExecutorKeepsAlive, ScanRegisters, Spawn
<1>4. CASE \/ \E s \in Sessions : DisposeDone(s) \/ StartRun(s) \/ EndRun(s)
           \/ \E f \in Files : ScanStarts(f)
           \/ ScanSkips
           \/ UNCHANGED vars
  BY <1>4 DEF DisposeDone, StartRun, EndRun, ScanStarts, ScanSkips, vars
<1> QED
  BY <1>1, <1>2, <1>3, <1>4

-----------------------------------------------------------------------------
(***************************************************************************)
(* Kills for good.  While a kill is counted as done the id still names     *)
(* the terminal ref, and nothing but register() can give it another one.   *)
(* The sidecar on disk, written before the release returns, makes the scan *)
(* register the agent as terminal ever after, and a new agent takes a file *)
(* that has no sidecar.  A scan that looked for the sidecar before it was  *)
(* written is no danger: while it reads, the id never names a ref of that  *)
(* file, so no kill of it is counted as done.                              *)
(***************************************************************************)

(* What any operation but register() does to the refs. *)
Keeps(r, q) ==
    /\ q.cur \in {r.cur, None}
    /\ \A g \in Gens :
        /\ q.ref[g].status = "unused" <=> r.ref[g].status = "unused"
        /\ q.ref[g].file = r.ref[g].file
        /\ r.ref[g].status = "aborted" => q.ref[g].status = "aborted"

LEMMA KeepsSame == ASSUME NEW r PROVE Keeps(r, r)
  BY DEF Keeps

LEMMA KeepsUnregister ==
    ASSUME NEW r, Sound(r), NEW g
    PROVE  Keeps(r, Unregister(r, g))
<1>1. CASE ~Registered(r, g)
  BY <1>1, KeepsSame DEF Unregister
<1>2. CASE Registered(r, g)
  <2> DEFINE q == Unregister(r, g)
  <2>1. q.cur = None /\ q.ref = r.ref /\ r.cur = g
    BY <1>2 DEF Unregister, Registered, Sound, Registries
  <2> QED
    BY <2>1 DEF Keeps
<1> QED
  BY <1>1, <1>2

(* A change of the record of the registered ref. *)
LEMMA KeepsChanged ==
    ASSUME NEW r, Sound(r), NEW g, Registered(r, g), NEW status \in Statuses,
           NEW s \in Sessions \cup {None}, r.ref[g].status = "aborted" => status = "aborted"
    PROVE  Keeps(r, [cur |-> g, ref |-> [r.ref EXCEPT
                        ![g] = [status |-> status, session |-> s, file |-> r.ref[g].file]]])
<1> DEFINE a == [status |-> status, session |-> s, file |-> r.ref[g].file]
           q == [cur |-> g, ref |-> [r.ref EXCEPT ![g] = a]]
<1>1. g = r.cur /\ g \in Gens /\ r.ref[g].status # "unused" /\ r.ref \in [Gens -> Refs]
  BY DEF Registered, Sound, Registries, Exists
<1>2. a.status = status /\ a.file = r.ref[g].file /\ status # "unused"
  BY DEF Statuses
<1> HIDE DEF a
<1>3. q.cur = g /\ q.ref[g] = a /\ \A h \in Gens : h # g => q.ref[h] = r.ref[h]
  BY <1>1
<1> HIDE DEF q
<1>4. Keeps(r, q)
  BY <1>1, <1>2, <1>3 DEF Keeps
<1> QED
  BY <1>4 DEF q, a

(* The values of setStatus(), of an attach and of a detach.                *)
LEMMA StatusSet ==
    ASSUME NEW r, Sound(r), NEW g, NEW status \in Statuses,
           Registered(r, g), r.ref[g].status # "aborted"
    PROVE  /\ r.ref[g].session \in Sessions \cup {None}
           /\ SetStatus(r, g, status)
                = [cur |-> g, ref |-> [r.ref EXCEPT ![g] =
                     [status |-> status, session |-> r.ref[g].session, file |-> r.ref[g].file]]]
<1> DEFINE a == [status |-> status, session |-> r.ref[g].session, file |-> r.ref[g].file]
<1>1. g = r.cur /\ g \in Gens /\ r.ref[g] \in Refs
  BY DEF Registered, Sound, Registries, Exists
<1>2. r = [cur |-> r.cur, ref |-> r.ref] /\ r.ref \in [Gens -> Refs]
  BY DEF Sound, Registries
<1>3. [r.ref[g] EXCEPT !.status = status] = a /\ r.ref[g].session \in Sessions \cup {None}
  BY <1>1 DEF Refs
<1> QED
  BY <1>1, <1>2, <1>3 DEF SetStatus

LEMMA SessionAttached ==
    ASSUME NEW r, Sound(r), NEW g, Attachable(r, g), NEW s \in Sessions \cup {None},
           NEW status \in {"running", "idle"}
    PROVE  SetStatus(Attach(r, g, s), g, status)
             = [cur |-> g, ref |-> [r.ref EXCEPT ![g] =
                  [status |-> status, session |-> s, file |-> r.ref[g].file]]]
<1> DEFINE a == [status |-> status, session |-> s, file |-> r.ref[g].file]
           b == [status |-> r.ref[g].status, session |-> s, file |-> r.ref[g].file]
<1>1. g = r.cur /\ g \in Gens /\ r.ref[g] \in Refs
  BY DEF Attachable, Registered, Sound, Registries, Exists
<1>2. r = [cur |-> r.cur, ref |-> r.ref] /\ r.ref \in [Gens -> Refs]
  BY DEF Sound, Registries
<1>3. /\ [r.ref[g] EXCEPT !.session = s] = b
      /\ [b EXCEPT !.status = status] = a
      /\ b \in Refs /\ b.status = r.ref[g].status
  BY <1>1 DEF Refs
<1>4. Attach(r, g, s) = [cur |-> g, ref |-> [r.ref EXCEPT ![g] = b]]
  BY <1>1, <1>2, <1>3 DEF Attach
<1> HIDE DEF a, b
<1>5. Attach(r, g, s).cur = g /\ Attach(r, g, s).ref[g] = b /\ b.status # "aborted" /\ g # None
  BY <1>1, <1>2, <1>3, <1>4 DEF Attachable, Registered
<1>6. SetStatus(Attach(r, g, s), g, status) = [Attach(r, g, s) EXCEPT !.ref[g].status = status]
  BY <1>5 DEF SetStatus, Registered
<1>7. [Attach(r, g, s) EXCEPT !.ref[g].status = status]
         = [cur |-> g, ref |-> [r.ref EXCEPT ![g] = a]]
  BY <1>1, <1>2, <1>3, <1>4
<1> QED
  BY <1>6, <1>7 DEF a

LEMMA SessionDetached ==
    ASSUME NEW r, Sound(r), NEW g, Registered(r, g), NEW status \in {"parked", "aborted"}
    PROVE  SetStatus(Detach(r, g), g, status)
             = [cur |-> g, ref |-> [r.ref EXCEPT ![g] =
                  [status |-> IF r.ref[g].status = "aborted" THEN "aborted" ELSE status,
                   session |-> None, file |-> r.ref[g].file]]]
<1> DEFINE b == [status |-> r.ref[g].status, session |-> None, file |-> r.ref[g].file]
           a == [status |-> status, session |-> None, file |-> r.ref[g].file]
<1>1. g = r.cur /\ g \in Gens /\ r.ref[g] \in Refs
  BY DEF Registered, Sound, Registries, Exists, Refs
<1>2. r = [cur |-> r.cur, ref |-> r.ref] /\ r.ref \in [Gens -> Refs]
  BY DEF Sound, Registries
<1>3. /\ [r.ref[g] EXCEPT !.session = None] = b
      /\ [b EXCEPT !.status = status] = a
      /\ b \in Refs /\ b.status = r.ref[g].status
  BY <1>1 DEF Refs
<1>4. Detach(r, g) = [cur |-> g, ref |-> [r.ref EXCEPT ![g] = b]]
  BY <1>1, <1>2, <1>3 DEF Detach
<1> HIDE DEF a, b
<1>5. Detach(r, g).cur = g /\ Detach(r, g).ref[g] = b
  BY <1>1, <1>2, <1>4
<1>6. CASE r.ref[g].status = "aborted"
  BY <1>3, <1>4, <1>5, <1>6 DEF SetStatus, b
<1>7. CASE r.ref[g].status # "aborted"
  <2>1. SetStatus(Detach(r, g), g, status) = [Detach(r, g) EXCEPT !.ref[g].status = status]
    BY <1>3, <1>5, <1>7 DEF SetStatus, Registered
  <2>2. [Detach(r, g) EXCEPT !.ref[g].status = status]
           = [cur |-> g, ref |-> [r.ref EXCEPT ![g] = a]]
    BY <1>1, <1>2, <1>3, <1>4
  <2> QED
    BY <1>7, <2>1, <2>2 DEF a
<1> QED
  BY <1>6, <1>7

LEMMA KeepsSetStatus ==
    ASSUME NEW r, Sound(r), NEW g, NEW status \in {"running", "idle"}
    PROVE  Keeps(r, SetStatus(r, g, status))
<1>1. CASE ~(Registered(r, g) /\ r.ref[g].status # "aborted")
  BY <1>1, KeepsSame DEF SetStatus
<1>2. CASE Registered(r, g) /\ r.ref[g].status # "aborted"
  <2>1. status \in Statuses
    BY DEF Statuses
  <2>2. r.ref[g].session \in Sessions \cup {None}
    BY <1>2, <2>1, StatusSet
  <2>3. Keeps(r, [cur |-> g, ref |-> [r.ref EXCEPT ![g] =
                    [status |-> status, session |-> r.ref[g].session, file |-> r.ref[g].file]]])
    BY <1>2, <2>1, <2>2, KeepsChanged
  <2> QED
    BY <1>2, <2>1, <2>3, StatusSet
<1> QED
  BY <1>1, <1>2

LEMMA KeepsAttach ==
    ASSUME NEW r, Sound(r), NEW g, Attachable(r, g), NEW s \in Sessions \cup {None},
           NEW status \in {"running", "idle"}
    PROVE  Keeps(r, SetStatus(Attach(r, g, s), g, status))
  BY SessionAttached, KeepsChanged DEF Attachable, Statuses

LEMMA KeepsDetach ==
    ASSUME NEW r, Sound(r), NEW g, NEW status \in {"parked", "aborted"}
    PROVE  Keeps(r, SetStatus(Detach(r, g), g, status))
<1>1. CASE ~Registered(r, g)
  BY <1>1, KeepsSame DEF Detach, SetStatus
<1>2. CASE Registered(r, g)
  <2>1. (IF r.ref[g].status = "aborted" THEN "aborted" ELSE status) \in Statuses
    BY DEF Statuses
  <2> QED
    BY <1>2, <2>1, SessionDetached, KeepsChanged
<1> QED
  BY <1>1, <1>2

(* An executor that has not registered its ref yet. *)
Unmade(ex) == {g \in Gens : ex[g].pc \in {"probing", "claiming"}}

(* The sidecar a kill wrote for its ref. *)
Marked(v, q, d) ==
    v.kind \in Tombstones /\ v.pc \in {"disposing", "cleanup"} /\ v.ok
       => v.gen \in Gens /\ q.ref[v.gen].file \in d.tombs

(* A scan reads a file on disk that the id does not name meanwhile.        *)
ScanApart ==
    scan.pc = "reading" =>
       /\ scan.file \in disk.history \cup disk.tombs
       /\ registry.cur # None => registry.ref[registry.cur].file # scan.file
       /\ scan.file \in killed => scan.tombstoned

DeadInv ==
    /\ IInv
    /\ \A g \in Unmade(exec) : registry.ref[g].status = "unused"
    /\ killed \subseteq disk.tombs
    /\ \A k \in Killers : Marked(rel[k], registry, disk)
    /\ ScanApart
    /\ KilledStaysDead

(* A step that registers nothing and takes no file off the disk.           *)
LEMMA KeptStep ==
    ASSUME DeadInv, IInv', Keeps(registry, registry'), killed' = killed,
           disk.tombs \subseteq disk'.tombs, disk.history \subseteq disk'.history,
           scan' = scan \/ ScanApart',
           \A g \in Unmade(exec') : registry.ref[g].status = "unused",
           \A k \in Killers : Marked(rel'[k], registry, disk')
    PROVE  DeadInv'
<1>1. registry.cur # None => registry.cur \in Gens
  BY DEF DeadInv, IInv, Sound, Exists
<1>2. \A g \in Unmade(exec') : registry'.ref[g].status = "unused"
  BY DEF Keeps, Unmade
<1>3. (killed \subseteq disk.tombs)'
  BY DEF DeadInv
<1>4. \A k \in Killers : Marked(rel'[k], registry', disk')
  BY DEF Keeps, Marked
<1>5. ScanApart'
  BY <1>1 DEF DeadInv, Keeps, ScanApart
<1>6. KilledStaysDead'
  BY <1>1 DEF DeadInv, Keeps, KilledStaysDead
<1> QED
  BY <1>2, <1>3, <1>4, <1>5, <1>6 DEF DeadInv

(* A step that registers the unused ref g, with a file that nobody killed  *)
(* or as terminal, and not with the file a scan is reading.                *)
LEMMA RegisteringStep ==
    ASSUME DeadInv, IInv', NEW g \in Gens, registry.ref[g].status = "unused",
           NEW v, v \in Registries, v.ref = registry.ref,
           NEW status \in Statuses, NEW f, status = "aborted" \/ f \notin killed,
           registry' = Register(v, g, status, f), UNCHANGED <<rel, disk, killed>>,
           Unmade(exec') \subseteq Unmade(exec) \ {g},
           \/ scan'.pc = "idle"
           \/ scan' = scan /\ f \notin disk.history \cup disk.tombs
    PROVE  DeadInv'
<1>1. /\ registry'.cur = g
      /\ registry'.ref[g].status = status /\ registry'.ref[g].file = f
      /\ \A h \in Gens : h # g => registry'.ref[h] = registry.ref[h]
  BY DEF Register, Registries
<1>2. \A h \in Unmade(exec') : registry'.ref[h].status = "unused"
  BY <1>1 DEF DeadInv, Unmade
<1>3. \A k \in Killers : Marked(rel'[k], registry', disk')
  <2> SUFFICES ASSUME NEW k \in Killers
               PROVE  Marked(rel[k], registry', disk)
    OBVIOUS
  <2>1. rel[k].pc \in {"disposing", "cleanup"} => rel[k].gen # g
    BY DEF DeadInv, IInv, RelOK, Exists
  <2> QED
    BY <1>1, <2>1 DEF DeadInv, Marked
<1>4. ScanApart'
  BY <1>1 DEF DeadInv, ScanApart
<1>5. KilledStaysDead'
  BY <1>1 DEF KilledStaysDead
<1>6. (killed \subseteq disk.tombs)'
  BY DEF DeadInv
<1> QED
  BY <1>2, <1>3, <1>4, <1>5, <1>6 DEF DeadInv

(* Steps that are no part of a release, a scan or a registration.          *)
LEMMA OtherStepsKeep ==
    ASSUME DeadInv,
           \/ ParkStep
           \/ \E s \in Sessions : DisposeDone(s) \/ StartRun(s) \/ EndRun(s)
           \/ \E c \in Callers : EnsureStep(c) \/ RevivalStep(c) \/ Forget(c)
           \/ UNCHANGED vars
    PROVE  /\ Keeps(registry, registry')
           /\ killed' = killed /\ disk.tombs \subseteq disk'.tombs
           /\ disk.history \subseteq disk'.history
           /\ scan' = scan /\ exec' = exec
<1>1. Sound(registry) /\ Keeps(registry, registry) /\ disk \in Disks
  BY KeepsSame DEF DeadInv, IInv
<1>2. CASE ParkStep
  BY <1>1, <1>2, KeepsDetach
  DEF ParkStep, TimerFires, ParkCommits, ParkGivesUp, ParkDone, WakeParkWaiters, Publish, Retired
<1>3. ASSUME NEW s \in Sessions, DisposeDone(s)
      PROVE  Keeps(registry, registry') /\ UNCHANGED <<killed, disk, scan, exec>>
  <2> DEFINE g == sess[s].gen
  <2>1. CASE registry' = registry
    BY <1>1, <1>3, <2>1 DEF DisposeDone
  <2>2. CASE registry' # registry
    <3>1. registry' = Unregister(registry, g)
      BY <1>3, <2>2 DEF DisposeDone, Publish
    <3> QED
      BY <1>1, <1>3, <3>1, KeepsUnregister DEF DisposeDone
  <2> QED
    BY <2>1, <2>2
<1>4. ASSUME NEW s \in Sessions, NEW status \in {"running", "idle"}, Reported(s, status)
      PROVE  Keeps(registry, registry')
  BY <1>1, <1>4, KeepsSetStatus DEF Reported, Publish
<1>5. ASSUME NEW s \in Sessions, StartRun(s) \/ EndRun(s)
      PROVE  /\ Keeps(registry, registry') /\ UNCHANGED <<killed, scan, exec>>
             /\ disk.tombs \subseteq disk'.tombs /\ disk.history \subseteq disk'.history
  <2>1. Keeps(registry, registry')
    BY <1>4, <1>5 DEF StartRun, EndRun
  <2>2. CASE StartRun(s)
    BY <2>1, <2>2 DEF StartRun
  <2>3. CASE EndRun(s)
    BY <1>1, <2>1, <2>3 DEF EndRun, Disks
  <2> QED
    BY <1>5, <2>2, <2>3
<1>6. ASSUME NEW c \in Callers, EnsureStep(c) \/ Forget(c)
      PROVE  UNCHANGED <<registry, killed, disk, scan, exec>>
  BY <1>6
  DEF EnsureStep, EnsureMeetsPark, EnsureKeeps, EnsureFindsLive, EnsureJoins, EnsureRevives,
      EnsureRefuses, Forget
<1>7. ASSUME NEW c \in Callers, RevivalStep(c)
      PROVE  Keeps(registry, registry') /\ UNCHANGED <<killed, disk, scan, exec>>
  <2>1. CASE RevivalAttaches(c)
    <3>1. Attachable(registry, call[c].gen) /\ call[c].sess \in Sessions
          /\ registry' = SetStatus(Attach(registry, call[c].gen, call[c].sess), call[c].gen, "running")
      BY <2>1 DEF RevivalAttaches, Publish, DeadInv, IInv, CallOK
    <3> QED
      BY <1>1, <2>1, <3>1, KeepsAttach DEF RevivalAttaches
  <2>2. CASE RevivalReturns(c)
    <3> DEFINE g == call[c].gen
               s == call[c].sess
    <3>1. CASE registry' = registry
      BY <1>1, <2>2, <3>1 DEF RevivalReturns
    <3>2. CASE registry' # registry
      <4>1. /\ Claimable(registry, g) \/ (Registered(registry, g) /\ registry.ref[g].status = "running")
            /\ registry' = SetStatus(Attach(registry, g, s), g, "idle")
        BY <2>2, <3>2 DEF RevivalReturns, Publish
      <4>2. Attachable(registry, g) /\ s \in Sessions \cup {None}
        BY <4>1 DEF Attachable, Claimable, DeadInv, IInv, CallOK, Calls
      <4> QED
        BY <1>1, <2>2, <4>1, <4>2, KeepsAttach DEF RevivalReturns
    <3> QED
      BY <3>1, <3>2
  <2>3. \/ RevivalAttaches(c) \/ RevivalReturns(c)
        \/ UNCHANGED <<registry, killed, disk, scan, exec>>
    BY <1>7
    DEF RevivalStep, FactoryReturns, FactoryDeclines, RevivalClaims, RevivalFails,
        RevivalConstructionFails, RevivalStartupFails, RevivalWiringFails, RevivalRejected
  <2> QED
    BY <1>1, <2>1, <2>2, <2>3
<1>8. CASE UNCHANGED vars
  BY <1>1, <1>8 DEF vars
<1>9. CASE ParkStep
  BY <1>2, <1>9 DEF ParkStep, TimerFires, ParkCommits, ParkGivesUp, ParkDone
<1> QED
  BY <1>1, <1>3, <1>5, <1>6, <1>7, <1>8, <1>9

(* The step of an executor: a registration of a fresh file under an id     *)
(* that is free, or a step that registers nothing.                         *)
LEMMA ExecutorKeeps ==
    ASSUME DeadInv, IInv', NEW g \in Gens, ExecutorStep(g) \/ \E f \in Files : Spawn(g, f)
    PROVE  DeadInv'
<1>1. /\ Sound(registry) /\ Keeps(registry, registry) /\ registry \in Registries
      /\ exec \in [Gens -> Executors] /\ g # None
  BY KeepsSame, AgentRegistryAssumption DEF DeadInv, IInv, Sound, None
<1>3. UNCHANGED <<rel, disk, killed, scan>>
  BY DEF ExecutorStep, SpawnClaims, ProbeReturns, ProbeRefuses, SpawnAttaches, SpawnFails,
         SpawnStartupFails, SpawnReturns, ExecutorKeepsAlive, Spawn
<1>4. \A h : Keeps(registry, Unregister(registry, h))
  BY <1>1, KeepsUnregister
<1>5. ASSUME Keeps(registry, registry'),
             \A h \in Unmade(exec') : registry.ref[h].status = "unused"
      PROVE  DeadInv'
  BY <1>3, <1>5, KeptStep DEF DeadInv
<1>6. ASSUME \A h \in Gens : h # g => exec'[h] = exec[h]
      PROVE  /\ exec'[g].pc \notin {"probing", "claiming"}
                => /\ Unmade(exec') \subseteq Unmade(exec) \ {g}
                   /\ \A h \in Unmade(exec') : registry.ref[h].status = "unused"
             /\ registry.ref[g].status = "unused"
                => \A h \in Unmade(exec') : registry.ref[h].status = "unused"
  BY <1>6 DEF Unmade, DeadInv
<1>7. ASSUME NEW pc, exec' = [exec EXCEPT ![g].pc = pc]
      PROVE  exec'[g].pc = pc /\ \A h \in Gens : h # g => exec'[h] = exec[h]
  BY <1>1, <1>7 DEF Executors
<1>8. ASSUME NEW f \in Files, FreshFile(f), registry.cur = None,
             registry.ref[g].status = "unused",
             registry' = Register(registry, g, "running", f),
             exec' = [exec EXCEPT ![g].pc = "constructing"]
      PROVE  DeadInv'
  <2>1. f \notin killed /\ f \notin disk.history \cup disk.tombs
    BY <1>8 DEF FreshFile, DeadInv
  <2>2. exec'[g].pc = "constructing" /\ \A h \in Gens : h # g => exec'[h] = exec[h]
    BY <1>7, <1>8
  <2>3. Unmade(exec') \subseteq Unmade(exec) \ {g}
    BY <1>6, <2>2
  <2> QED
    BY <1>1, <1>3, <1>8, <2>1, <2>3, RegisteringStep DEF Statuses
<1>9. ASSUME NEW f \in Files, Spawn(g, f) PROVE DeadInv'
  <2>1. registry.ref[g].status = "unused"
    BY <1>9 DEF Spawn, NextGen
  <2>2. CASE /\ registry.cur = None
             /\ registry' = Register(registry, g, "running", f)
             /\ exec' = [exec EXCEPT ![g].pc = "constructing"]
    BY <1>8, <1>9, <2>1, <2>2 DEF Spawn
  <2>3. CASE /\ Corpse(registry.cur)
             /\ registry' = Unregister(registry, registry.cur)
             /\ exec' = [exec EXCEPT ![g].pc = "claiming"]
    <3>1. Keeps(registry, registry')
      BY <1>4, <2>3 DEF Corpse, Claimable, Registered
    <3> QED
      BY <1>1, <1>5, <1>6, <2>1, <2>3, <3>1
  <2>4. CASE /\ exec' = [exec EXCEPT ![g] = [@ EXCEPT !.pc = "probing", !.target = registry.cur]]
             /\ UNCHANGED registry
    BY <1>1, <1>5, <1>6, <2>1, <2>4
  <2> QED
    BY <1>9, <2>2, <2>3, <2>4 DEF Spawn
<1>10. ASSUME NEW f \in Files, SpawnClaims(g, f) PROVE DeadInv'
  <2>1. registry.ref[g].status = "unused"
    BY <1>10 DEF SpawnClaims, DeadInv, Unmade
  <2>2. CASE registry.cur = None
    BY <1>8, <1>10, <2>1, <2>2 DEF SpawnClaims
  <2>3. CASE registry.cur # None
    BY <1>1, <1>5, <1>6, <1>10, <2>1, <2>3 DEF SpawnClaims
  <2> QED
    BY <2>2, <2>3
<1>11. CASE ProbeReturns(g)
  <2>1. registry.ref[g].status = "unused"
    BY <1>11 DEF ProbeReturns, DeadInv, Unmade
  <2>2. Keeps(registry, registry')
    <3>1. CASE Corpse(exec[g].target)
      BY <1>4, <1>11, <3>1 DEF ProbeReturns, Corpse, Claimable, Registered
    <3>2. CASE ~Corpse(exec[g].target)
      BY <1>1, <1>11, <3>2 DEF ProbeReturns
    <3> QED
      BY <3>1, <3>2
  <2> QED
    BY <1>1, <1>5, <1>6, <1>11, <2>1, <2>2 DEF ProbeReturns
<1>12. CASE ProbeRefuses(g) \/ SpawnStartupFails(g) \/ SpawnReturns(g)
  <2>1. registry' = registry
        /\ \E pc \in {"done", "running"} : exec' = [exec EXCEPT ![g].pc = pc]
    BY <1>12 DEF ProbeRefuses, SpawnStartupFails, SpawnReturns
  <2>2. exec'[g].pc \in {"done", "running"} /\ \A h \in Gens : h # g => exec'[h] = exec[h]
    BY <1>7, <2>1
  <2> QED
    BY <1>1, <1>5, <1>6, <2>1, <2>2
<1>13. ASSUME NEW s \in Sessions, SpawnAttaches(g, s) PROVE DeadInv'
  <2>1. Keeps(registry, registry')
    BY <1>1, <1>13, KeepsAttach DEF SpawnAttaches, Publish
  <2>2. exec'[g].pc = "wiring" /\ \A h \in Gens : h # g => exec'[h] = exec[h]
    BY <1>1, <1>13 DEF SpawnAttaches, Executors
  <2> QED
    BY <1>5, <1>6, <2>1, <2>2
<1>14. CASE SpawnFails(g)
  <2>1. Keeps(registry, registry')
    BY <1>1, <1>14, KeepsUnregister DEF SpawnFails, Publish
  <2>2. exec'[g].pc = "done" /\ \A h \in Gens : h # g => exec'[h] = exec[h]
    BY <1>7, <1>14 DEF SpawnFails
  <2> QED
    BY <1>5, <1>6, <2>1, <2>2
<1>15. CASE ExecutorKeepsAlive(g)
  <2>1. Keeps(registry, registry')
    BY <1>1, <1>15, KeepsSetStatus DEF ExecutorKeepsAlive
  <2>2. exec'[g].pc = "done" /\ \A h \in Gens : h # g => exec'[h] = exec[h]
    BY <1>7, <1>15 DEF ExecutorKeepsAlive
  <2> QED
    BY <1>5, <1>6, <2>1, <2>2
<1> QED
  BY <1>9, <1>10, <1>11, <1>12, <1>13, <1>14, <1>15 DEF ExecutorStep

(* The scan: a tombstone it missed stands in its way. *)
LEMMA ScanKeeps ==
    ASSUME DeadInv, IInv',
           (\E g \in Gens : ScanRegisters(g)) \/ (\E f \in Files : ScanStarts(f)) \/ ScanSkips
    PROVE  DeadInv'
<1>1. Sound(registry) /\ Keeps(registry, registry) /\ registry \in Registries
  BY KeepsSame DEF DeadInv, IInv, Sound
<1>2. ASSUME NEW g \in Gens, ScanRegisters(g) PROVE DeadInv'
  <2> DEFINE v == Unregister(registry, scan.expected)
             status == IF scan.tombstoned THEN "aborted" ELSE "parked"
  <2>1. v \in Registries /\ v.ref = registry.ref
    BY <1>1 DEF Unregister, Registries
  <2>3. status = "aborted" \/ scan.file \notin killed
    BY <1>2 DEF ScanRegisters, DeadInv, ScanApart
  <2>4. /\ registry.ref[g].status = "unused" /\ exec[g].pc = "unused"
        /\ registry' = Register(v, g, status, scan.file)
        /\ UNCHANGED <<rel, exec, disk, killed>> /\ scan'.pc = "idle"
    BY <1>2 DEF ScanRegisters, NextGen, IdleScan
  <2>5. Unmade(exec') \subseteq Unmade(exec) \ {g}
    BY <2>4 DEF Unmade
  <2>6. status \in Statuses
    BY DEF Statuses
  <2> HIDE DEF v, status
  <2> QED
    BY <2>1, <2>3, <2>4, <2>5, <2>6, RegisteringStep
<1>3. CASE (\E f \in Files : ScanStarts(f)) \/ ScanSkips
  <2>1. UNCHANGED <<registry, rel, exec, disk, killed>>
    BY <1>3 DEF ScanStarts, ScanSkips
  <2>2. killed \subseteq disk.tombs
    BY DEF DeadInv
  <2>3. ScanApart'
    <3>1. CASE ScanSkips
      BY <3>1 DEF ScanSkips, IdleScan, ScanApart
    <3>2. ASSUME NEW f \in Files, ScanStarts(f) PROVE ScanApart'
      <4>1. /\ f \in disk.history \cup disk.tombs
            /\ registry.cur # None => registry.ref[registry.cur].file # f
            /\ scan'.file = f /\ scan'.tombstoned = (f \in disk.tombs)
        BY <3>2 DEF ScanStarts, HasTombstone, Replaceable
      <4> QED
        BY <2>1, <2>2, <4>1 DEF ScanApart
    <3> QED
      BY <1>3, <3>1, <3>2
  <2> QED
    BY <1>1, <2>1, <2>3, KeptStep DEF DeadInv
<1> QED
  BY <1>2, <1>3

(* The steps of a release.  The commit of a kill makes the ref terminal,   *)
(* the sidecar is written next, and only then is the kill counted as done. *)
LEMMA ReleaseKeeps ==
    ASSUME DeadInv, IInv', NEW k \in Killers,
           \/ \E kind \in KillKinds : Kill(k, kind)
           \/ \E g \in Gens, kind \in KillKinds : ExecutorAborts(g, k, kind)
           \/ ReleaseStep(k)
    PROVE  DeadInv'
<1>1. /\ Sound(registry) /\ Keeps(registry, registry) /\ IInv
      /\ rel \in [Killers -> Releases] /\ exec \in [Gens -> Executors]
      /\ \A j \in Killers : Marked(rel[j], registry, disk) /\ rel[j] \in Releases
      /\ \A g \in Unmade(exec) : registry.ref[g].status = "unused"
  BY KeepsSame DEF DeadInv, IInv, RelOK
<1>2. \A g : Keeps(registry, Terminal(registry, g)) /\ Keeps(registry, Unregister(registry, g))
  BY <1>1, KeepsDetach, KeepsUnregister DEF Terminal
(* A step that changes nothing but the refs, the release k and executors.  *)
<1>3. ASSUME Keeps(registry, registry'), UNCHANGED <<scan, disk, killed>>,
             \A j \in Killers : j # k => rel'[j] = rel[j],
             Marked(rel'[k], registry, disk),
             \A g \in Unmade(exec') : registry.ref[g].status = "unused"
      PROVE  DeadInv'
  BY <1>1, <1>3, KeptStep
<1>4. ASSUME NEW r \in Releases, NEW expected, ReleaseFrom(k, expected, r)
      PROVE  /\ Keeps(registry, registry')
             /\ \A j \in Killers : j # k => rel'[j] = rel[j]
             /\ Marked(rel'[k], registry, disk)
  <2>1. rel'[k].kind \in Tombstones => rel'[k].pc \notin {"disposing", "cleanup"}
    BY <1>1, <1>4, FromRecord DEF IdleRelease
  <2>2. Keeps(registry, registry')
    BY <1>1, <1>2, <1>4, FromRecord
  <2> QED
    BY <1>1, <1>4, <2>1, <2>2, FromRecord DEF Marked
<1>5. ASSUME NEW kind \in KillKinds, Kill(k, kind) PROVE DeadInv'
  <2> DEFINE r == [IdleRelease EXCEPT !.kind = kind, !.target = registry.cur]
             expected == IF kind = "hubKill" THEN registry.cur ELSE None
  <2>1. registry.cur \in Gens
    BY <1>1, <1>5 DEF Kill, Sound, Exists
  <2>2. r \in Releases /\ [r EXCEPT !.pc = "aborting"] \in Releases
    BY <2>1, RequestMade
  <2>3. /\ \/ rel' = [rel EXCEPT ![k] = [r EXCEPT !.pc = "aborting"]] /\ UNCHANGED registry
           \/ ReleaseFrom(k, expected, r)
        /\ UNCHANGED <<exec, scan, disk, killed>>
    BY <1>5 DEF Kill
  <2> HIDE DEF r, expected
  <2>4. CASE ReleaseFrom(k, expected, r)
    BY <1>1, <1>3, <1>4, <2>2, <2>3, <2>4
  <2>5. CASE rel' = [rel EXCEPT ![k] = [r EXCEPT !.pc = "aborting"]] /\ UNCHANGED registry
    <3>1. Marked([r EXCEPT !.pc = "aborting"], registry, disk)
      BY <2>2 DEF Marked, Releases
    <3> QED
      BY <1>1, <1>3, <2>3, <2>5, <3>1
  <2> QED
    BY <2>3, <2>4, <2>5
<1>6. CASE KillAborted(k)
  <2>1. /\ \E expected : ReleaseFrom(k, expected, rel[k])
        /\ UNCHANGED <<exec, scan, disk, killed>>
    BY <1>1, <1>6 DEF KillAborted
  <2> QED
    BY <1>1, <1>3, <1>4, <2>1
<1>7. ASSUME NEW g \in Gens, NEW kind \in KillKinds, ExecutorAborts(g, k, kind)
      PROVE  DeadInv'
  <2> DEFINE r == [IdleRelease EXCEPT !.kind = kind, !.target = g]
  <2>1. r \in Releases
    BY RequestMade
  <2>2. /\ ReleaseFrom(k, g, r) \/ UNCHANGED <<registry, rel>>
        /\ UNCHANGED <<scan, disk, killed>>
        /\ exec' = [exec EXCEPT ![g].pc = "done"]
    BY <1>7 DEF ExecutorAborts
  <2>3. \A h \in Unmade(exec') : registry.ref[h].status = "unused"
    <3>1. exec'[g].pc = "done" /\ \A h \in Gens : h # g => exec'[h] = exec[h]
      BY <1>1, <2>2 DEF Executors
    <3> QED
      BY <1>1, <3>1 DEF Unmade
  <2> HIDE DEF r
  <2> QED
    BY <1>1, <1>3, <1>4, <2>1, <2>2, <2>3
<1>8. CASE ReleaseCommits(k)
  <2>1. /\ Exists(registry, rel[k].gen)
        /\ ReleaseCommit(k, rel[k].gen, rel[k]) /\ UNCHANGED <<exec, scan, disk, killed>>
    BY <1>1, <1>8 DEF ReleaseCommits, IInv, RelOK
  <2>2. /\ rel'[k].kind \in Tombstones => rel'[k].pc = "persisting"
        /\ \A j \in Killers : j # k => rel'[j] = rel[j]
    BY <1>1, <2>1, CommitRecord
  <2>3. registry' \in {registry, Terminal(registry, rel[k].gen)}
    BY <2>1 DEF ReleaseCommit
  <2> QED
    BY <1>1, <1>2, <1>3, <2>1, <2>2, <2>3 DEF Marked
<1>9. ASSUME NEW ok \in BOOLEAN, TombstonePersisted(k, ok) PROVE DeadInv'
  <2>1. \E pc \in {"cleanup", "disposing"} :
           rel' = [rel EXCEPT ![k] = [rel[k] EXCEPT !.ok = ok, !.pc = pc]]
    BY <1>9 DEF TombstonePersisted
  <2>2. rel[k].gen \in Gens
    BY <1>1, <1>9 DEF TombstonePersisted, IInv, RelOK, Exists
  <2>3. /\ disk.tombs \subseteq disk'.tombs /\ disk.history \subseteq disk'.history
        /\ ok => registry.ref[rel[k].gen].file \in disk'.tombs
    BY <1>1, <1>9 DEF TombstonePersisted, IInv, Disks
  <2>4. \A pc \in {"cleanup", "disposing"} :
           Marked([rel[k] EXCEPT !.ok = ok, !.pc = pc], registry, disk')
    BY <1>1, <2>2, <2>3 DEF Marked, Releases
  <2>5. \A j \in Killers : Marked(rel'[j], registry, disk')
    BY <1>1, <2>1, <2>3, <2>4 DEF Marked
  <2> QED
    BY <1>1, <1>9, <2>3, <2>5, KeptStep DEF TombstonePersisted
<1>10. CASE ReleaseDisposed(k)
  <2>1. /\ rel' = [rel EXCEPT ![k] = [rel[k] EXCEPT !.pc = "cleanup"]]
        /\ rel[k].pc = "disposing" /\ UNCHANGED <<registry, exec, scan, disk, killed>>
    BY <1>10 DEF ReleaseDisposed
  <2>2. Marked([rel[k] EXCEPT !.pc = "cleanup"], registry, disk)
    BY <1>1, <2>1 DEF Marked, Releases
  <2> QED
    BY <1>1, <1>3, <2>1, <2>2
<1>11. CASE ReleaseFinishes(k)
  <2> DEFINE g == rel[k].gen
             done == /\ rel[k].kind \in Tombstones /\ rel[k].ok
                     /\ Registered(registry, g) /\ registry.ref[g].status = "aborted"
  <2>1. /\ rel[k].pc = "cleanup"
        /\ UNCHANGED <<exec, scan, disk>> /\ rel' = [rel EXCEPT ![k] = IdleRelease]
        /\ killed' = IF done THEN killed \cup {registry.ref[g].file} ELSE killed
        /\ registry' \in {registry, Unregister(registry, g)}
        /\ rel[k].kind \in Tombstones => registry' = registry
    BY <1>11 DEF ReleaseFinishes, Publish
  <2>2. \A j \in Killers : Marked(rel'[j], registry, disk)
    BY <1>1, <2>1 DEF Marked, IdleRelease, Tombstones
  <2>3. CASE ~done
    BY <1>1, <1>2, <2>1, <2>2, <2>3, KeptStep
  <2>4. CASE done
    <3>1. /\ registry.cur = g /\ g # None /\ g \in Gens
          /\ registry.ref[g].file \in disk.tombs /\ registry' = registry
          /\ killed' = killed \cup {registry.ref[g].file}
      BY <1>1, <2>1, <2>4 DEF Marked, Registered
    <3>2. KilledStaysDead'
      BY <2>4, <3>1 DEF DeadInv, KilledStaysDead
    <3>3. /\ (\A h \in Unmade(exec) : registry.ref[h].status = "unused")'
          /\ (killed \subseteq disk.tombs)'
      BY <2>1, <3>1 DEF DeadInv, Unmade
    <3>4. (\A j \in Killers : Marked(rel[j], registry, disk))'
      BY <2>1, <2>2, <3>1
    <3>5. ScanApart'
      BY <2>1, <3>1 DEF DeadInv, ScanApart
    <3> QED
      BY <3>2, <3>3, <3>4, <3>5 DEF DeadInv
  <2> QED
    BY <2>3, <2>4
<1> QED
  BY <1>5, <1>6, <1>7, <1>8, <1>9, <1>10, <1>11 DEF ReleaseStep

LEMMA RestartKeeps ==
    ASSUME DeadInv, IInv', Restart
    PROVE  DeadInv'
  BY DEF Restart, DeadInv, EmptyRegistry, IdleExecutor, IdleRelease, IdleScan, Unmade, Marked,
         ScanApart, KilledStaysDead

LEMMA NextDeadInv == DeadInv /\ [Next]_vars => DeadInv'
<1> SUFFICES ASSUME DeadInv, [Next]_vars PROVE DeadInv'
  OBVIOUS
<1>1. IInv'
  BY NextIInv DEF DeadInv
<1>2. ASSUME \/ ParkStep
             \/ \E s \in Sessions : DisposeDone(s) \/ StartRun(s) \/ EndRun(s)
             \/ \E c \in Callers : EnsureStep(c) \/ RevivalStep(c) \/ Forget(c)
             \/ UNCHANGED vars
      PROVE  DeadInv'
  <2>1. \A k \in Killers : Marked(rel'[k], registry, disk')
    <3> SUFFICES ASSUME NEW k \in Killers
                 PROVE  Marked(rel'[k], registry, disk')
      OBVIOUS
    <3>1. rel[k] \in Releases /\ Marked(rel[k], registry, disk) /\ IInv
      BY DEF DeadInv, IInv, RelOK
    <3>2. disk.tombs \subseteq disk'.tombs
      BY <1>2, OtherStepsKeep
    <3>3. rel'[k] = rel[k] \/ rel'[k] = [rel[k] EXCEPT !.pc = "commit"]
      BY <1>2, <3>1, OthersLeaveReleases
    <3>4. [rel[k] EXCEPT !.pc = "commit"].pc = "commit"
      BY <3>1 DEF Releases
    <3> QED
      BY <3>1, <3>2, <3>3, <3>4 DEF Marked
  <2>2. \A g \in Unmade(exec) : registry.ref[g].status = "unused"
    BY DEF DeadInv
  <2> QED
    BY <1>1, <1>2, <2>1, <2>2, OtherStepsKeep, KeptStep
<1>3. ASSUME NEW g \in Gens, ExecutorStep(g) \/ \E f \in Files : Spawn(g, f) PROVE DeadInv'
  BY <1>1, <1>3, ExecutorKeeps
<1>4. CASE (\E g \in Gens : ScanRegisters(g)) \/ (\E f \in Files : ScanStarts(f)) \/ ScanSkips
  BY <1>1, <1>4, ScanKeeps
<1>5. ASSUME NEW k \in Killers,
             \/ \E kind \in KillKinds : Kill(k, kind)
             \/ \E g \in Gens, kind \in KillKinds : ExecutorAborts(g, k, kind)
             \/ ReleaseStep(k)
      PROVE  DeadInv'
  BY <1>1, <1>5, ReleaseKeeps
<1>6. CASE Restart
  BY <1>1, <1>6, RestartKeeps
<1> QED
  BY <1>2, <1>3, <1>4, <1>5, <1>6 DEF Next

(* An agent whose kill has returned stays a terminal row: no park,         *)
(* revival, spawn, scan, plain release or restart brings it back, in       *)
(* whatever order they run.                                                *)
THEOREM KilledAgentsStayDead == Spec => []KilledStaysDead
<1>1. Init => DeadInv
  BY InitIInv
  DEF Init, DeadInv, EmptyRegistry, IdleExecutor, IdleRelease, IdleScan, Unmade, Marked,
      ScanApart, KilledStaysDead
<1>2. DeadInv => KilledStaysDead
  BY DEF DeadInv
<1>3. DeadInv /\ [Next]_vars => DeadInv'
  BY NextDeadInv
<1> QED
  BY <1>1, <1>2, <1>3, PTL DEF Spec

-----------------------------------------------------------------------------
(* The sessions.  A session file has one writer: at most one session of a  *)
(* ref is being built, live or being disposed of, whatever releases occur. *)
(* Nothing locks the file.  The argument goes through what the manager     *)
(* remembers: a ref has one revival at a time, because #revivals names the *)
(* revival of the ref the id resolves to; a revival that has not claimed   *)
(* its ref yet finds it detached and not being parked; and a parked ref    *)
(* has no session but the one its park is disposing of, or the one its     *)
(* revival has in hand.                                                    *)
(*                                                                         *)
(* No live session is orphaned, when every release is a kill for good.     *)

Active(s, g) == sess[s].gen = g /\ sess[s].state \in {"building", "live", "disposing"}

(* Revivals that have made their session. *)
Making(c) == call[c].pc \in {"constructing", "wiring", "failing", "rejecting"}

(* A ref has one revival, and that of the current ref is in #revivals.     *)
OneRevival ==
    /\ \A c \in Callers : InRevival(c) => Exists(registry, call[c].gen)
    /\ \A c, d \in Callers :
          InRevival(c) /\ InRevival(d) /\ call[c].gen = call[d].gen => c = d
    /\ \A c \in Callers : InRevival(c) /\ call[c].gen = registry.cur => revival = c

(* Whoever waited for a park goes on before another park begins.           *)
ParksInTurn ==
    park.pc # "none" =>
       /\ park.sess # None
       /\ \A c \in Callers : call[c].pc \notin {"kept", "woken"}

(* A ref whose executor is constructing has not had a session yet.         *)
NewRefs ==
    \A g \in Gens :
       /\ g \in Unmade(exec) => registry.ref[g].status = "unused"
       /\ exec[g].pc = "constructing" =>
             /\ registry.ref[g].status \notin {"parked", "unused"}
             /\ registry.ref[g].session = None
             /\ \A s \in Sessions : ~Active(s, g)
             /\ \A c \in Callers : InRevival(c) => call[c].gen # g

(* Until a revival attaches, its ref is detached and no park touches it.   *)
RevivedDetached ==
    \A c \in Callers :
       call[c].pc \in {"factory", "opening", "constructing"} /\ call[c].gen = registry.cur =>
          /\ registry.ref[registry.cur].session = None
          /\ park.pc # "none" => park.gen # registry.cur

(* A revival in progress has the only session of its ref. *)
RevivalWrites ==
    \A c \in Callers : Making(c) =>
       /\ call[c].sess \in Sessions
       /\ sess[call[c].sess].gen = call[c].gen
       /\ sess[call[c].sess].state # "none"
       /\ call[c].pc = "constructing" => sess[call[c].sess].state = "building"
       /\ \A s \in Sessions : Active(s, call[c].gen) => s = call[c].sess

AttachedWrites ==
    \A g \in Gens, s \in Sessions :
       registry.ref[g].session # None /\ Active(s, g) => registry.ref[g].session = s

ParkedWrites ==
    \A g \in Gens, s \in Sessions :
       registry.ref[g].status = "parked" /\ Active(s, g) =>
          \/ park.pc = "disposing" /\ park.gen = g /\ park.sess = s
          \/ \E c \in Callers : /\ call[c].pc \in {"constructing", "failing", "rejecting"}
                                /\ call[c].gen = g /\ call[c].sess = s

OneActive == \A g \in Gens : \A s, t \in Sessions : Active(s, g) /\ Active(t, g) => s = t

Writers == RevivalWrites /\ AttachedWrites /\ ParkedWrites /\ OneActive

(* The inductive invariant. *)
WInv == IInv /\ OneRevival /\ ParksInTurn /\ NewRefs /\ RevivedDetached /\ Writers
-----------------------------------------------------------------------------
(* Registry operations that register, attach and park nothing.             *)
Calm(r, q) ==
    /\ q.cur \in {r.cur, None}
    /\ \A g \in Gens :
        /\ q.ref[g].status = "unused" <=> r.ref[g].status = "unused"
        /\ q.ref[g].status = "parked" => r.ref[g].status = "parked"
        /\ q.ref[g].session \in {r.ref[g].session, None}

LEMMA CalmSame == ASSUME NEW r PROVE Calm(r, r)
  BY DEF Calm

LEMMA CalmUnregister == ASSUME NEW r, Sound(r), NEW g PROVE Calm(r, Unregister(r, g))
<1>1. CASE ~Registered(r, g)
  BY <1>1, CalmSame DEF Unregister
<1>2. CASE Registered(r, g)
  <2> DEFINE q == Unregister(r, g)
  <2>1. q.cur = None /\ q.ref = r.ref
    BY <1>2 DEF Unregister, Sound, Registries
  <2> QED
    BY <2>1 DEF Calm
<1> QED
  BY <1>1, <1>2

LEMMA CalmChanged ==
    ASSUME NEW r, Sound(r), NEW g, Registered(r, g),
           NEW status \in Statuses, status = "parked" => r.ref[g].status = "parked",
           NEW s \in {r.ref[g].session, None}
    PROVE  Calm(r, [cur |-> g, ref |-> [r.ref EXCEPT
                        ![g] = [status |-> status, session |-> s, file |-> r.ref[g].file]]])
<1> DEFINE a == [status |-> status, session |-> s, file |-> r.ref[g].file]
           q == [cur |-> g, ref |-> [r.ref EXCEPT ![g] = a]]
<1>1. g = r.cur /\ g \in Gens /\ r.ref[g].status # "unused" /\ r.ref \in [Gens -> Refs]
  BY DEF Registered, Sound, Registries, Exists
<1>2. a.status = status /\ a.session = s /\ status # "unused"
  BY DEF Statuses
<1> HIDE DEF a
<1>3. q.cur = g /\ q.ref[g] = a /\ \A h \in Gens : h # g => q.ref[h] = r.ref[h]
  BY <1>1
<1> HIDE DEF q
<1>4. Calm(r, q)
  BY <1>1, <1>2, <1>3 DEF Calm
<1> QED
  BY <1>4 DEF q, a

LEMMA CalmSetStatus ==
    ASSUME NEW r, Sound(r), NEW g, NEW status \in {"running", "idle"}
    PROVE  Calm(r, SetStatus(r, g, status))
<1>1. CASE ~(Registered(r, g) /\ r.ref[g].status # "aborted")
  BY <1>1, CalmSame DEF SetStatus
<1>2. CASE Registered(r, g) /\ r.ref[g].status # "aborted"
  <2>1. status \in Statuses
    BY DEF Statuses
  <2>2. Calm(r, [cur |-> g, ref |-> [r.ref EXCEPT ![g] =
                    [status |-> status, session |-> r.ref[g].session, file |-> r.ref[g].file]]])
    BY <1>2, <2>1, CalmChanged
  <2> QED
    BY <1>2, <2>1, <2>2, StatusSet
<1> QED
  BY <1>1, <1>2

LEMMA CalmTerminal == ASSUME NEW r, Sound(r), NEW g PROVE Calm(r, Terminal(r, g))
<1>1. CASE ~Registered(r, g)
  BY <1>1, CalmSame DEF Terminal, Detach, SetStatus
<1>2. CASE Registered(r, g)
  <2>1. Calm(r, [cur |-> g, ref |-> [r.ref EXCEPT ![g] =
                    [status |-> "aborted", session |-> None, file |-> r.ref[g].file]]])
    BY <1>2, CalmChanged DEF Statuses
  <2> QED
    BY <1>2, <2>1, SessionDetached DEF Terminal
<1> QED
  BY <1>1, <1>2
-----------------------------------------------------------------------------
(* No session is made, and what is disposed of stays so. *)
Fewer(ss, tt) ==
    \A s \in Sessions :
       /\ tt[s].gen = ss[s].gen
       /\ ss[s].state # "none" => tt[s].state # "none"
       /\ tt[s].state \in {"building", "live", "disposing"}
             => ss[s].state \in {"building", "live", "disposing"}

(* Calls return, wait or go on with the revival they are in. *)
CallsGoOn ==
    /\ \A c \in Callers :
        /\ InRevival(c)' => InRevival(c) /\ call'[c].gen = call[c].gen
        /\ Making(c)' => Making(c) /\ call'[c].sess = call[c].sess
        /\ call'[c].pc \in {"factory", "opening"} => call[c].pc \in {"factory", "opening"}
        /\ call'[c].pc = "constructing" =>
              call[c].pc = "constructing" /\ sess'[call[c].sess].state = "building"
        /\ call'[c].pc \in {"kept", "woken"} => call[c].pc \in {"kept", "woken"}
        /\ call[c].pc \in {"constructing", "failing", "rejecting"} =>
              \/ /\ call'[c].pc \in {"constructing", "failing", "rejecting"}
                 /\ call'[c].gen = call[c].gen /\ call'[c].sess = call[c].sess
              \/ sess'[call[c].sess].state = "disposed"
    /\ \A c \in Callers : InRevival(c)' /\ revival = c => revival' = c

(* The step of a handler that starts neither a park nor a revival nor a    *)
(* session.                                                                *)
Quiet ==
    /\ Calm(registry, registry')
    /\ Fewer(sess, sess')
    /\ CallsGoOn
    /\ park'.pc = park.pc /\ park'.gen = park.gen /\ park'.sess = park.sess
    /\ \A g \in Gens :
        /\ g \in Unmade(exec') => registry.ref[g].status = "unused"
        /\ exec'[g].pc = "constructing" => exec[g].pc = "constructing"

LEMMA QuietStep == ASSUME WInv, IInv', Quiet PROVE WInv'
<1>1. registry.cur # None => registry.cur \in Gens
  BY DEF WInv, IInv, Sound, Exists
<1>2. \A g : \A s \in Sessions : Active(s, g)' => Active(s, g)
  BY DEF Quiet, Fewer, Active
<1>3. \A g : Exists(registry, g) => Exists(registry', g)
  BY DEF Quiet, Calm, Exists
<1>4. OneRevival'
  <2>1. \A c \in Callers : InRevival(c)' => Exists(registry', call'[c].gen)
    BY <1>3 DEF Quiet, CallsGoOn, WInv, OneRevival
  <2>2. \A c, d \in Callers :
           InRevival(c)' /\ InRevival(d)' /\ call'[c].gen = call'[d].gen => c = d
    BY DEF Quiet, CallsGoOn, WInv, OneRevival
  <2>3. ASSUME NEW c \in Callers, InRevival(c)', call'[c].gen = registry'.cur
        PROVE  revival' = c
    <3>1. InRevival(c) /\ call[c].gen = registry'.cur /\ Exists(registry, call[c].gen)
      BY <2>3 DEF Quiet, CallsGoOn, WInv, OneRevival
    <3>2. registry'.cur = registry.cur
      BY <3>1, AgentRegistryAssumption DEF Quiet, Calm, Exists, None
    <3> QED
      BY <2>3, <3>1, <3>2 DEF Quiet, CallsGoOn, WInv, OneRevival
  <2> QED
    BY <2>1, <2>2, <2>3 DEF OneRevival
<1>5. ParksInTurn'
  BY DEF WInv, ParksInTurn, Quiet, CallsGoOn
<1>6. NewRefs'
  <2> SUFFICES ASSUME NEW g \in Gens
               PROVE  /\ g \in Unmade(exec') => registry'.ref[g].status = "unused"
                      /\ exec'[g].pc = "constructing" =>
                           /\ registry'.ref[g].status \notin {"parked", "unused"}
                           /\ registry'.ref[g].session = None
                           /\ \A s \in Sessions : ~Active(s, g)'
                           /\ \A c \in Callers : InRevival(c)' => call'[c].gen # g
    BY DEF NewRefs, Active
  <2> QED
    BY <1>2 DEF WInv, NewRefs, Quiet, Calm, CallsGoOn
<1>7. RevivedDetached'
  <2> SUFFICES ASSUME NEW c \in Callers, call'[c].pc \in {"factory", "opening", "constructing"},
                      call'[c].gen = registry'.cur
               PROVE  /\ registry'.ref[registry'.cur].session = None
                      /\ park'.pc # "none" => park'.gen # registry'.cur
    BY DEF RevivedDetached
  <2>1. /\ call[c].pc \in {"factory", "opening", "constructing"} /\ call[c].gen = registry'.cur
        /\ Exists(registry, call[c].gen)
    BY DEF Quiet, CallsGoOn, InRevival, WInv, OneRevival
  <2>2. registry'.cur = registry.cur /\ registry.cur \in Gens
    BY <2>1, AgentRegistryAssumption DEF Quiet, Calm, Exists, None
  <2> QED
    BY <2>1, <2>2 DEF Quiet, Calm, WInv, RevivedDetached
<1>8. RevivalWrites'
  <2> SUFFICES ASSUME NEW c \in Callers, Making(c)'
               PROVE  /\ call'[c].sess \in Sessions
                      /\ sess'[call'[c].sess].gen = call'[c].gen
                      /\ sess'[call'[c].sess].state # "none"
                      /\ call'[c].pc = "constructing" => sess'[call'[c].sess].state = "building"
                      /\ (\A s \in Sessions : Active(s, call[c].gen) => s = call[c].sess)'
    BY DEF RevivalWrites, Making
  <2>1. /\ Making(c) /\ call'[c].sess = call[c].sess /\ call'[c].gen = call[c].gen
        /\ call'[c].pc = "constructing" => sess'[call[c].sess].state = "building"
    BY DEF Quiet, CallsGoOn, Making, InRevival
  <2>2. /\ call[c].sess \in Sessions /\ sess[call[c].sess].gen = call[c].gen
        /\ sess[call[c].sess].state # "none"
        /\ \A s \in Sessions : Active(s, call[c].gen) => s = call[c].sess
    BY <2>1 DEF WInv, Writers, RevivalWrites
  <2> QED
    BY <1>2, <2>1, <2>2 DEF Quiet, Fewer, Active
<1>9. AttachedWrites'
  <2> SUFFICES ASSUME NEW g \in Gens, NEW s \in Sessions, registry'.ref[g].session # None,
                      Active(s, g)'
               PROVE  registry'.ref[g].session = s
    BY DEF AttachedWrites, Active
  <2> QED
    BY <1>2 DEF WInv, Writers, AttachedWrites, Quiet, Calm
<1>10. ParkedWrites'
  <2> SUFFICES ASSUME NEW g \in Gens, NEW s \in Sessions, registry'.ref[g].status = "parked",
                      Active(s, g)'
               PROVE  \/ park'.pc = "disposing" /\ park'.gen = g /\ park'.sess = s
                      \/ \E c \in Callers :
                            /\ call'[c].pc \in {"constructing", "failing", "rejecting"}
                            /\ call'[c].gen = g /\ call'[c].sess = s
    BY DEF ParkedWrites, Active
  <2>1. registry.ref[g].status = "parked" /\ Active(s, g)
    BY <1>2 DEF Quiet, Calm
  <2>2. CASE park.pc = "disposing" /\ park.gen = g /\ park.sess = s
    BY <2>2 DEF Quiet
  <2>3. ASSUME NEW c \in Callers, call[c].pc \in {"constructing", "failing", "rejecting"},
               call[c].gen = g, call[c].sess = s
        PROVE  /\ call'[c].pc \in {"constructing", "failing", "rejecting"}
               /\ call'[c].gen = g /\ call'[c].sess = s
    BY <2>3 DEF Quiet, CallsGoOn, Active
  <2> QED
    BY <2>1, <2>2, <2>3 DEF WInv, Writers, ParkedWrites
<1>11. OneActive'
  <2> SUFFICES ASSUME NEW g \in Gens, NEW s \in Sessions, NEW t \in Sessions,
                      Active(s, g)', Active(t, g)'
               PROVE  s = t
    BY DEF OneActive, Active
  <2> QED
    BY <1>2 DEF WInv, Writers, OneActive
<1> QED
  BY <1>4, <1>5, <1>6, <1>7, <1>8, <1>9, <1>10, <1>11 DEF WInv, Writers
-----------------------------------------------------------------------------
(* A session under construction stays so. *)
Building(ss, tt) == \A s \in Sessions : ss[s].state = "building" => tt[s].state = "building"

LEMMA SameSession == Fewer(sess, sess) /\ Building(sess, sess)
  BY DEF Fewer, Building

LEMMA DisposingFewer ==
    ASSUME sess \in [Sessions -> SessionStates], NEW s
    PROVE  Fewer(sess, Disposing(sess, s)) /\ Building(sess, Disposing(sess, s))
  BY DEF Fewer, Building, Disposing, SessionStates

(* A synced or running session is still the same one. *)
LEMMA FlagsFewer ==
    ASSUME sess \in [Sessions -> SessionStates], NEW s, NEW b \in BOOLEAN
    PROVE  /\ Fewer(sess, [sess EXCEPT ![s].synced = b]) /\ Building(sess, [sess EXCEPT ![s].synced = b])
           /\ Fewer(sess, [sess EXCEPT ![s].run = b]) /\ Building(sess, [sess EXCEPT ![s].run = b])
  BY DEF Fewer, Building, SessionStates

LEMMA CallsKept ==
    ASSUME WInv, call' = call, revival' = revival, Building(sess, sess')
    PROVE  CallsGoOn
<1>1. \A c \in Callers : /\ InRevival(c)' <=> InRevival(c)
                         /\ Making(c)' <=> Making(c)
  BY DEF InRevival, Making
<1>2. \A c \in Callers : call[c].pc = "constructing" => sess'[call[c].sess].state = "building"
  BY DEF WInv, Writers, RevivalWrites, Making, Building
<1> QED
  BY <1>1, <1>2 DEF CallsGoOn

(* One call changes, which is in no revival or goes on in its own. *)
LEMMA CallGoesOn ==
    ASSUME WInv, NEW c \in Callers, NEW v \in Calls, call' = [call EXCEPT ![c] = v],
           revival' = revival, Building(sess, sess'),
           v.pc \notin {"kept", "woken", "constructing", "wiring"},
           \/ /\ call[c].pc \in {"idle", "keeping", "kept", "waiting", "woken", "joined", "returned", "threw"}
              /\ v.pc \notin {"factory", "opening", "failing", "rejecting"}
           \/ /\ call[c].pc = "factory" /\ v.pc = "opening" /\ v.gen = call[c].gen
           \/ /\ call[c].pc = "wiring" /\ v.pc \in {"failing", "rejecting"}
              /\ v.gen = call[c].gen /\ v.sess = call[c].sess
    PROVE  CallsGoOn
<1>1. call'[c] = v /\ \A d \in Callers : d # c => call'[d] = call[d]
  BY DEF WInv, IInv, CallOK
<1>2. \A d \in Callers : call[d].pc = "constructing" => sess'[call[d].sess].state = "building"
  BY DEF WInv, Writers, RevivalWrites, Making, Building
<1> QED
  BY <1>1, <1>2 DEF CallsGoOn, InRevival, Making

(* A revival settles; a session that it made and nobody attached is gone.  *)
LEMMA CallsSettle ==
    ASSUME WInv, NEW c \in Callers, InRevival(c), NEW outcome \in Calls,
           outcome.pc \in {"returned", "threw"}, Settle(c, outcome),
           call[c].pc \in {"constructing", "failing", "rejecting"}
              => sess'[call[c].sess].state = "disposed",
           \A s \in Sessions : sess[s].state = "building" /\ s # call[c].sess
              => sess'[s].state = "building"
    PROVE  CallsGoOn
<1>1. \A d \in Callers : /\ call'[d] = outcome \/ call'[d] = call[d]
                         /\ call'[d] # call[d] => d = c \/ call[d].pc = "joined"
  BY DEF Settle
<1>2. call'[c] = outcome /\ revival' = IF revival = c THEN NoCaller ELSE revival
  BY DEF Settle
<1>3. ASSUME NEW d \in Callers, d # c, call[d].pc = "constructing"
      PROVE  sess'[call[d].sess].state = "building"
  <2>1. /\ call[d].sess \in Sessions /\ sess[call[d].sess].state = "building"
        /\ sess[call[d].sess].gen = call[d].gen /\ InRevival(d)
    BY <1>3 DEF WInv, Writers, RevivalWrites, Making, InRevival
  <2>2. call[c].gen # call[d].gen
    BY <1>3, <2>1 DEF WInv, OneRevival
  <2>3. call[c].sess # call[d].sess
    <3>1. CASE Making(c)
      BY <2>1, <2>2, <3>1 DEF WInv, Writers, RevivalWrites
    <3>2. CASE ~Making(c)
      BY <2>1, <3>2, AgentRegistryAssumption DEF WInv, IInv, CallOK, Making, InRevival, None
    <3> QED
      BY <3>1, <3>2
  <2> QED
    BY <2>1, <2>3
<1>4. ASSUME NEW d \in Callers
      PROVE  /\ InRevival(d)' => InRevival(d) /\ call'[d] = call[d] /\ d # c
             /\ Making(d)' => Making(d) /\ call'[d] = call[d] /\ d # c
             /\ call'[d].pc \in {"kept", "woken", "factory", "opening", "constructing"}
                   => call'[d] = call[d] /\ d # c
  BY <1>1, <1>2 DEF InRevival, Making
<1> QED
  BY <1>1, <1>2, <1>3, <1>4 DEF CallsGoOn
-----------------------------------------------------------------------------
(* Steps of executors and releases leave calls alone.                      *)
LEMMA QuietBase ==
    ASSUME WInv
    PROVE  /\ Sound(registry) /\ Calm(registry, registry) /\ Fewer(sess, sess)
           /\ Building(sess, sess) /\ sess \in [Sessions -> SessionStates]
           /\ exec \in [Gens -> Executors] /\ registry \in Registries
           /\ park \in Parks /\ call \in [Callers -> Calls]
           /\ \A g \in Unmade(exec) : registry.ref[g].status = "unused"
  BY CalmSame, SameSession DEF WInv, IInv, Sound, SessOK, CallOK, NewRefs, Unmade

LEMMA QuietByOthers ==
    ASSUME WInv, Calm(registry, registry'), Fewer(sess, sess'), Building(sess, sess'),
           call' = call, revival' = revival,
           park' = park \/ \E b \in BOOLEAN : park' = [park EXCEPT !.cancelled = b],
           \A g \in Gens :
              /\ g \in Unmade(exec') => registry.ref[g].status = "unused"
              /\ exec'[g].pc = "constructing" => exec[g].pc = "constructing"
    PROVE  Quiet
<1>1. park'.pc = park.pc /\ park'.gen = park.gen /\ park'.sess = park.sess
  BY QuietBase DEF Parks
<1> QED
  BY <1>1, CallsKept DEF Quiet

LEMMA SessionStepQuiet ==
    ASSUME WInv, NEW s \in Sessions, DisposeDone(s) \/ StartRun(s) \/ EndRun(s)
    PROVE  Quiet
<1>1. CASE DisposeDone(s)
  <2>1. Calm(registry, registry')
    BY <1>1, QuietBase, CalmUnregister DEF DisposeDone, Publish
  <2>2. Fewer(sess, sess') /\ Building(sess, sess')
    BY <1>1, QuietBase DEF DisposeDone, Fewer, Building, SessionStates
  <2> QED
    BY <1>1, <2>1, <2>2, QuietBase, QuietByOthers DEF DisposeDone
<1>2. CASE StartRun(s) \/ EndRun(s)
  <2>1. Calm(registry, registry')
    BY <1>2, QuietBase, CalmSetStatus DEF StartRun, EndRun, Reported, Publish
  <2>2. Fewer(sess, sess') /\ Building(sess, sess')
    BY <1>2, QuietBase, FlagsFewer DEF StartRun, EndRun
  <2> QED
    BY <1>2, <2>1, <2>2, QuietBase, QuietByOthers DEF StartRun, EndRun
<1> QED
  BY <1>1, <1>2

LEMMA ReleaseStepQuiet ==
    ASSUME WInv, NEW k \in Killers,
           \/ \E kind \in KillKinds : Kill(k, kind)
           \/ \E g \in Gens, kind \in KillKinds : ExecutorAborts(g, k, kind)
           \/ ReleaseStep(k)
    PROVE  Quiet
<1>1. \A g : Calm(registry, Terminal(registry, g)) /\ Calm(registry, Unregister(registry, g))
  BY QuietBase, CalmTerminal, CalmUnregister
<1>2. \A s : Fewer(sess, Disposing(sess, s)) /\ Building(sess, Disposing(sess, s))
  BY QuietBase, DisposingFewer
<1>3. ASSUME NEW g, NEW r, ReleaseCommit(k, g, r)
      PROVE  Calm(registry, registry') /\ Fewer(sess, sess') /\ Building(sess, sess')
  BY <1>1, <1>2, <1>3, QuietBase DEF ReleaseCommit
<1>4. ASSUME NEW expected, NEW r, ReleaseFrom(k, expected, r)
      PROVE  /\ Calm(registry, registry') /\ Fewer(sess, sess') /\ Building(sess, sess')
             /\ park' = park \/ \E b \in BOOLEAN : park' = [park EXCEPT !.cancelled = b]
  <2>1. \/ UNCHANGED <<registry, sess, park>>
        \/ /\ UNCHANGED <<registry, sess>>
           /\ park' = [park EXCEPT !.cancelled = @ \/ park.pc = "yielding"]
        \/ UNCHANGED park /\ \E g, x : ReleaseCommit(k, g, x)
    BY <1>4 DEF ReleaseFrom
  <2>2. (park.cancelled \/ park.pc = "yielding") \in BOOLEAN
    OBVIOUS
  <2> QED
    BY <1>3, <2>1, <2>2, QuietBase
<1>5. CASE (\E kind \in KillKinds : Kill(k, kind)) \/ KillAborted(k)
  <2>1. /\ \/ UNCHANGED <<registry, sess, park>>
           \/ \E expected, r : ReleaseFrom(k, expected, r)
        /\ UNCHANGED <<call, revival, exec>>
    BY <1>5 DEF Kill, KillAborted
  <2> QED
    BY <1>4, <2>1, QuietBase, QuietByOthers
<1>6. ASSUME NEW g \in Gens, NEW kind \in KillKinds, ExecutorAborts(g, k, kind)
      PROVE  Quiet
  <2>1. /\ \/ \E expected, r : ReleaseFrom(k, expected, r)
           \/ UNCHANGED <<registry, park>> /\ \E s : sess' = Disposing(sess, s)
        /\ UNCHANGED <<call, revival>>
        /\ exec' = [exec EXCEPT ![g].pc = "done"]
    BY <1>6 DEF ExecutorAborts
  <2>2. exec'[g].pc = "done" /\ \A h \in Gens : h # g => exec'[h] = exec[h]
    BY <2>1, QuietBase DEF Executors
  <2>3. \A h \in Gens : /\ h \in Unmade(exec') => registry.ref[h].status = "unused"
                        /\ exec'[h].pc = "constructing" => exec[h].pc = "constructing"
    BY <2>2, QuietBase DEF Unmade
  <2> QED
    BY <1>2, <1>4, <2>1, <2>3, QuietBase, QuietByOthers
<1>7. CASE ReleaseCommits(k)
  BY <1>3, <1>7, QuietBase, QuietByOthers DEF ReleaseCommits
<1>8. ASSUME NEW ok \in BOOLEAN, TombstonePersisted(k, ok) PROVE Quiet
  BY <1>2, <1>8, QuietBase, QuietByOthers DEF TombstonePersisted
<1>9. CASE ReleaseDisposed(k)
  BY <1>9, QuietBase, QuietByOthers DEF ReleaseDisposed
<1>10. CASE ReleaseFinishes(k)
  <2>1. Calm(registry, registry')
    BY <1>1, <1>10, QuietBase DEF ReleaseFinishes, Publish
  <2> QED
    BY <1>10, <2>1, QuietBase, QuietByOthers DEF ReleaseFinishes
<1> QED
  BY <1>5, <1>6, <1>7, <1>8, <1>9, <1>10 DEF ReleaseStep

(* A step of one call. *)
LEMMA QuietByCall ==
    ASSUME WInv, Calm(registry, registry'), Fewer(sess, sess'), CallsGoOn, UNCHANGED exec,
           park' = park \/ \E b \in BOOLEAN : park' = [park EXCEPT !.cancelled = b]
    PROVE  Quiet
<1>1. park'.pc = park.pc /\ park'.gen = park.gen /\ park'.sess = park.sess
  BY QuietBase DEF Parks
<1> QED
  BY <1>1, QuietBase DEF Quiet

LEMMA EnsureStepQuiet ==
    ASSUME WInv, NEW c \in Callers, EnsureStep(c) \/ Forget(c), ~EnsureRevives(c)
    PROVE  Quiet
<1>1. UNCHANGED <<registry, sess, exec>>
  BY DEF EnsureStep, EnsureMeetsPark, EnsureKeeps, EnsureFindsLive, EnsureJoins, EnsureRefuses, Forget
<1>2. park' = park \/ \E b \in BOOLEAN : park' = [park EXCEPT !.cancelled = b]
  BY DEF EnsureStep, EnsureMeetsPark, EnsureKeeps, EnsureFindsLive, EnsureJoins, EnsureRefuses, Forget
<1>3. call[c] \in Calls /\ registry.cur \in Gens \cup {None} /\ Attached(registry) \in Sessions \cup {None}
  BY QuietBase, AttachedType DEF Registries
<1>4. CASE EnsureMeetsPark(c)
  <2>1. PICK v \in {[call[c] EXCEPT !.pc = "keeping", !.gen = registry.cur],
                    [call[c] EXCEPT !.pc = "waiting"]} : call' = [call EXCEPT ![c] = v]
    BY <1>4 DEF EnsureMeetsPark
  <2>2. v \in Calls /\ v.pc \in {"keeping", "waiting"}
    BY <1>3, <2>1 DEF Calls
  <2>3. CallsGoOn
    BY <1>1, <1>4, <2>1, <2>2, CallGoesOn, SameSession DEF EnsureMeetsPark
  <2> QED
    BY <1>1, <1>2, <2>3, QuietBase, QuietByCall
<1>5. CASE EnsureKeeps(c) \/ EnsureFindsLive(c) \/ EnsureJoins(c) \/ EnsureRefuses(c) \/ Forget(c)
  <2>1. /\ \E v \in {Returned(Attached(registry)), [IdleCall EXCEPT !.pc = "joined", !.gen = registry.cur],
                     Threw, IdleCall} : call' = [call EXCEPT ![c] = v]
        /\ revival' = revival
        /\ call[c].pc \in {"idle", "kept", "woken", "returned", "threw"}
    BY <1>5 DEF EnsureKeeps, EnsureFindsLive, EnsureJoins, EnsureRefuses, Forget, Resolving
  <2>2. /\ Returned(Attached(registry)) \in Calls /\ Returned(Attached(registry)).pc = "returned"
        /\ Threw \in Calls /\ Threw.pc = "threw" /\ IdleCall \in Calls /\ IdleCall.pc = "idle"
    BY <1>3, Outcomes
  <2>3. [IdleCall EXCEPT !.pc = "joined", !.gen = registry.cur] \in Calls
        /\ [IdleCall EXCEPT !.pc = "joined", !.gen = registry.cur].pc = "joined"
    BY <1>3 DEF IdleCall, Calls
  <2>4. \E v \in Calls : /\ call' = [call EXCEPT ![c] = v]
                         /\ v.pc \in {"returned", "threw", "joined", "idle"}
    BY <2>1, <2>2, <2>3
  <2>5. CallsGoOn
    BY <1>1, <2>1, <2>4, CallGoesOn, SameSession
  <2> QED
    BY <1>1, <1>2, <2>5, QuietBase, QuietByCall
<1> QED
  BY <1>4, <1>5 DEF EnsureStep

LEMMA RevivalStepQuiet ==
    ASSUME WInv, NEW c \in Callers,
           \/ FactoryReturns(c) \/ FactoryDeclines(c) \/ RevivalFails(c)
           \/ RevivalConstructionFails(c) \/ RevivalStartupFails(c)
           \/ RevivalWiringFails(c) \/ RevivalRejected(c)
           \/ (RevivalReturns(c) /\ ~Settle(c, Returned(call[c].sess)))
    PROVE  Quiet
<1>1. call[c] \in Calls /\ Threw \in Calls /\ Threw.pc = "threw"
  BY QuietBase, Outcomes
<1>2. UNCHANGED <<exec, park>>
  BY DEF FactoryReturns, FactoryDeclines, RevivalFails, RevivalConstructionFails,
         RevivalStartupFails, RevivalWiringFails, RevivalRejected, RevivalReturns
<1>3. UNCHANGED registry
  BY DEF FactoryReturns, FactoryDeclines, RevivalFails, RevivalConstructionFails,
         RevivalStartupFails, RevivalWiringFails, RevivalRejected, RevivalReturns
<1>4. ASSUME CallsGoOn, Fewer(sess, sess')
      PROVE  Quiet
  BY <1>2, <1>3, <1>4, QuietBase, QuietByCall
<1>5. CASE FactoryReturns(c) \/ FactoryDeclines(c)
  <2>1. call[c].pc = "factory" /\ UNCHANGED sess
    BY <1>5 DEF FactoryReturns, FactoryDeclines
  <2>2. CASE Settle(c, Threw)
    <3>1. CallsGoOn
      BY <1>1, <2>1, <2>2, CallsSettle DEF InRevival
    <3> QED
      BY <1>4, <2>1, <3>1, SameSession
  <2>3. CASE /\ call' = [call EXCEPT ![c] = [call[c] EXCEPT !.pc = "opening", !.cold = TRUE]]
             /\ UNCHANGED revival
    <3>1. /\ [call[c] EXCEPT !.pc = "opening", !.cold = TRUE] \in Calls
          /\ [call[c] EXCEPT !.pc = "opening", !.cold = TRUE].pc = "opening"
          /\ [call[c] EXCEPT !.pc = "opening", !.cold = TRUE].gen = call[c].gen
      BY <1>1 DEF Calls
    <3>2. CallsGoOn
      BY <2>1, <2>3, <3>1, CallGoesOn, SameSession
    <3> QED
      BY <1>4, <2>1, <3>2, SameSession
  <2> QED
    BY <1>5, <2>2, <2>3 DEF FactoryReturns, FactoryDeclines
<1>6. CASE RevivalFails(c)
  <2>1. CallsGoOn
    BY <1>1, <1>6, CallsSettle DEF RevivalFails, InRevival
  <2> QED
    BY <1>4, <1>6, <2>1, SameSession DEF RevivalFails
<1>7. CASE RevivalStartupFails(c) \/ (RevivalReturns(c) /\ ~Settle(c, Returned(call[c].sess)))
  <2>1. call[c].pc = "wiring" /\ UNCHANGED revival
        /\ \E pc \in {"failing", "rejecting"} : call' = [call EXCEPT ![c] = [call[c] EXCEPT !.pc = pc]]
    BY <1>7 DEF RevivalStartupFails, RevivalReturns
  <2>2. \A pc \in {"failing", "rejecting"} :
           LET v == [call[c] EXCEPT !.pc = pc]
           IN  v \in Calls /\ v.pc = pc /\ v.gen = call[c].gen /\ v.sess = call[c].sess
    BY <1>1 DEF Calls
  <2>3. Fewer(sess, sess') /\ Building(sess, sess')
    <3>1. CASE RevivalStartupFails(c)
      BY <3>1, QuietBase, DisposingFewer DEF RevivalStartupFails
    <3>2. CASE RevivalReturns(c) /\ ~Settle(c, Returned(call[c].sess))
      <4> DEFINE synced == [sess EXCEPT ![call[c].sess].synced = TRUE]
      <4>1. sess' = Disposing(synced, call[c].sess)
        BY <3>2 DEF RevivalReturns
      <4>2. synced \in [Sessions -> SessionStates] /\ Fewer(sess, synced) /\ Building(sess, synced)
        BY QuietBase, FlagsFewer DEF SessionStates
      <4>3. \A s \in Sessions : /\ sess'[s].gen = synced[s].gen
                                /\ \/ sess'[s].state = synced[s].state
                                   \/ /\ synced[s].state = "live"
                                      /\ sess'[s].state = "disposing"
        BY <4>1, <4>2 DEF Disposing, SessionStates
      <4> HIDE DEF synced
      <4> QED
        BY <4>2, <4>3 DEF Fewer, Building
    <3> QED
      BY <1>7, <3>1, <3>2
  <2>4. CallsGoOn
    BY <2>1, <2>2, <2>3, CallGoesOn
  <2> QED
    BY <1>4, <2>3, <2>4
<1>8. CASE RevivalWiringFails(c)
  <2>1. CallsGoOn
    BY <1>1, <1>8, CallsSettle DEF RevivalWiringFails, InRevival
  <2> QED
    BY <1>4, <1>8, <2>1, SameSession DEF RevivalWiringFails
<1>9. CASE RevivalRejected(c)
  <2>1. CallsGoOn
    BY <1>1, <1>9, CallsSettle DEF RevivalRejected, InRevival, Disposed
  <2> QED
    BY <1>4, <1>9, <2>1, SameSession DEF RevivalRejected
(* The sessions that other calls construct are others. *)
<1>10. CASE RevivalConstructionFails(c)
  <2> DEFINE s == call[c].sess
  <2>1. /\ call[c].pc = "constructing" /\ UNCHANGED revival
        /\ sess' = [sess EXCEPT ![s].state = "disposing"]
        /\ call' = [call EXCEPT ![c].pc = "failing"]
    BY <1>10 DEF RevivalConstructionFails
  <2>2. Making(c) /\ InRevival(c) /\ s \in Sessions /\ sess[s].state = "building"
    BY <2>1, QuietBase DEF WInv, Writers, RevivalWrites, Making, InRevival
  <2>3. /\ \A t \in Sessions : t # s => sess'[t] = sess[t]
        /\ sess'[s].gen = sess[s].gen /\ sess'[s].state = "disposing"
    BY <2>1, <2>2, QuietBase DEF SessionStates
  <2>4. Fewer(sess, sess')
    BY <2>2, <2>3 DEF Fewer
  <2>5. /\ call'[c].pc = "failing" /\ call'[c].gen = call[c].gen /\ call'[c].sess = s
        /\ \A d \in Callers : d # c => call'[d] = call[d]
    BY <2>1, QuietBase DEF Calls
  <2>6. ASSUME NEW d \in Callers, d # c, call[d].pc = "constructing"
        PROVE  sess'[call[d].sess].state = "building"
    <3>1. /\ call[d].sess \in Sessions /\ sess[call[d].sess].state = "building"
          /\ sess[call[d].sess].gen = call[d].gen /\ InRevival(d)
      BY <2>6 DEF WInv, Writers, RevivalWrites, Making, InRevival
    <3>2. call[c].gen # call[d].gen
      BY <2>2, <2>6, <3>1 DEF WInv, OneRevival
    <3>3. call[d].sess # s
      BY <2>2, <3>1, <3>2 DEF WInv, Writers, RevivalWrites
    <3> QED
      BY <2>3, <3>1, <3>3
  <2> HIDE DEF s
  <2>7. CallsGoOn
    BY <2>1, <2>2, <2>5, <2>6 DEF CallsGoOn, InRevival, Making, s
  <2> QED
    BY <1>4, <2>4, <2>7
<1> QED
  BY <1>5, <1>6, <1>7, <1>8, <1>9, <1>10
-----------------------------------------------------------------------------
(* Executors that make no session, and steps of the scan that register     *)
(* nothing.                                                                *)
LEMMA ExecutorStepQuiet ==
    ASSUME WInv, NEW g \in Gens,
           \/ (\E f \in Files : Spawn(g, f)) /\ registry.cur # None
           \/ (\E f \in Files : SpawnClaims(g, f)) /\ registry.cur # None
           \/ ProbeReturns(g) \/ ProbeRefuses(g)
           \/ SpawnFails(g) \/ SpawnStartupFails(g) \/ SpawnReturns(g)
           \/ ExecutorKeepsAlive(g)
    PROVE  Quiet
<1>1. UNCHANGED <<call, revival, park>>
  BY DEF Spawn, SpawnClaims, ProbeReturns, ProbeRefuses, SpawnFails, SpawnStartupFails,
         SpawnReturns, ExecutorKeepsAlive
<1>2. Calm(registry, registry')
  BY QuietBase, CalmUnregister, CalmSetStatus
  DEF Spawn, SpawnClaims, ProbeReturns, ProbeRefuses, SpawnFails, SpawnStartupFails,
      SpawnReturns, ExecutorKeepsAlive, Publish
<1>3. Fewer(sess, sess') /\ Building(sess, sess')
  <2>1. \/ sess' = sess
        \/ sess' = Disposing(sess, exec[g].sess)
        \/ sess' = [sess EXCEPT ![exec[g].sess].synced = TRUE]
    BY DEF Spawn, SpawnClaims, ProbeReturns, ProbeRefuses, SpawnFails, SpawnStartupFails,
           SpawnReturns, ExecutorKeepsAlive
  <2> QED
    BY <2>1, QuietBase, DisposingFewer, FlagsFewer
<1>4. /\ exec'[g].pc \in {"probing", "claiming", "done", "running"}
      /\ exec'[g].pc \in {"probing", "claiming"} => registry.ref[g].status = "unused"
      /\ \A h \in Gens : h # g => exec'[h] = exec[h]
  <2>1. CASE \E f \in Files : Spawn(g, f)
    <3>1. /\ registry.ref[g].status = "unused"
          /\ \/ exec' = [exec EXCEPT ![g].pc = "claiming"]
             \/ exec' = [exec EXCEPT ![g] = [@ EXCEPT !.pc = "probing", !.target = registry.cur]]
             \/ registry.cur = None
      BY <2>1 DEF Spawn, NextGen
    <3>2. registry.cur # None
      BY <2>1 DEF Spawn, NextGen, SpawnClaims, ProbeReturns, ProbeRefuses, SpawnFails,
                  SpawnStartupFails, SpawnReturns, ExecutorKeepsAlive
    <3> QED
      BY <3>1, <3>2, QuietBase DEF Executors
  <2>2. CASE \E f \in Files : SpawnClaims(g, f)
    <3>1. registry.cur # None
      BY <2>2 DEF Spawn, NextGen, SpawnClaims, ProbeReturns, ProbeRefuses, SpawnFails,
                  SpawnStartupFails, SpawnReturns, ExecutorKeepsAlive
    <3> QED
      BY <2>2, <3>1, QuietBase DEF SpawnClaims, Executors
  <2>3. CASE ProbeReturns(g)
    <3>1. registry.ref[g].status = "unused"
      BY <2>3, QuietBase DEF ProbeReturns, Unmade
    <3> QED
      BY <2>3, <3>1, QuietBase DEF ProbeReturns, Executors
  <2>4. CASE ProbeRefuses(g) \/ SpawnFails(g) \/ SpawnStartupFails(g) \/ SpawnReturns(g)
             \/ ExecutorKeepsAlive(g)
    <3>1. \E pc \in {"done", "running"} : exec' = [exec EXCEPT ![g].pc = pc]
      BY <2>4 DEF ProbeRefuses, SpawnFails, SpawnStartupFails, SpawnReturns, ExecutorKeepsAlive
    <3> QED
      BY <3>1, QuietBase DEF Executors
  <2> QED
    BY <2>1, <2>2, <2>3, <2>4
<1>5. \A h \in Gens : /\ h \in Unmade(exec') => registry.ref[h].status = "unused"
                      /\ exec'[h].pc = "constructing" => exec[h].pc = "constructing"
  BY <1>4, QuietBase DEF Unmade
<1> QED
  BY <1>1, <1>2, <1>3, <1>5, QuietByOthers

LEMMA StutterQuiet ==
    ASSUME WInv, UNCHANGED <<registry, sess, park, revival, call, exec>>
    PROVE  Quiet
  BY QuietBase, QuietByOthers
-----------------------------------------------------------------------------
(* A park begins: the ref has a session, so nobody revives it.             *)
LEMMA TimerWrites == ASSUME WInv, IInv', TimerFires PROVE WInv'
<1>1. CASE park' = park
  BY <1>1, StutterQuiet, QuietStep DEF TimerFires
<1>2. CASE park' # park
  <2>1. /\ park.pc = "none" /\ Attached(registry) # None /\ ~MicrotasksPending
        /\ park' = [NoPark EXCEPT !.pc = "yielding", !.gen = adopted.gen, !.sess = Attached(registry)]
        /\ UNCHANGED <<registry, sess, revival, call, exec>>
    BY <1>2 DEF TimerFires
  <2>2. park'.pc = "yielding" /\ park'.sess # None
    BY <2>1 DEF NoPark
  <2>3. OneRevival' /\ NewRefs' /\ RevivalWrites' /\ AttachedWrites' /\ OneActive'
    BY <2>1 DEF WInv, Writers, OneRevival, InRevival, NewRefs, RevivalWrites, Making, AttachedWrites,
                OneActive, Active, Unmade
  <2>4. ParksInTurn'
    BY <2>1, <2>2 DEF ParksInTurn, MicrotasksPending
  <2>5. RevivedDetached'
    <3> SUFFICES ASSUME NEW c \in Callers, call[c].pc \in {"factory", "opening", "constructing"},
                        call[c].gen = registry.cur
                 PROVE  FALSE
      BY <2>1 DEF RevivedDetached
    <3>1. registry.cur # None
      BY <2>1 DEF Attached
    <3> QED
      BY <2>1, <3>1 DEF WInv, RevivedDetached, Attached
  <2>6. ParkedWrites'
    BY <2>1 DEF WInv, Writers, ParkedWrites, Active
  <2> QED
    BY <2>3, <2>4, <2>5, <2>6 DEF WInv, Writers
<1> QED
  BY <1>1, <1>2

(* A park commits: the session it disposes of is the one that was attached.*)
LEMMA ParkCommitWrites == ASSUME WInv, IInv', ParkCommits PROVE WInv'
<1> DEFINE g == park.gen
<1>1. /\ registry.cur = g /\ g \in Gens /\ g # None
      /\ Registered(registry, g) /\ park.pc = "yielding"
      /\ registry.ref[g].session = park.sess /\ park.sess # None
      /\ registry.ref[g].status \notin {"unused", "aborted"}
      /\ registry' = Retired(registry, g) /\ sess' = Disposing(sess, park.sess)
      /\ park' = [park EXCEPT !.pc = "disposing"]
      /\ UNCHANGED <<revival, call, exec>>
  BY DEF ParkCommits, Publish, Registered, Attached, WInv, IInv, Sound, DetachedIn, Exists, ParksInTurn
<1>2. /\ registry'.cur = g
      /\ registry'.ref[g].status = "parked" /\ registry'.ref[g].session = None
      /\ \A h \in Gens : h # g => registry'.ref[h] = registry.ref[h]
  BY <1>1, SessionDetached, QuietBase DEF Retired, Registries
<1>3. park'.pc = "disposing" /\ park'.gen = g /\ park'.sess = park.sess
  BY <1>1, QuietBase DEF Parks
<1>4. Fewer(sess, sess') /\ Building(sess, sess')
  BY <1>1, QuietBase, DisposingFewer
<1>5. \A h : \A s \in Sessions : Active(s, h)' => Active(s, h)
  BY <1>4 DEF Fewer, Active
<1>6. exec[g].pc # "constructing" /\ g \notin Unmade(exec)
  BY <1>1 DEF WInv, NewRefs
<1>7. \A c \in Callers : call[c].pc \in {"factory", "opening", "constructing"} => call[c].gen # g
  BY <1>1 DEF WInv, RevivedDetached
<1>8. OneRevival'
  BY <1>1, <1>2 DEF WInv, OneRevival, InRevival, Exists
<1>9. ParksInTurn'
  BY <1>1, <1>3 DEF WInv, ParksInTurn
<1>10. NewRefs'
  <2> SUFFICES ASSUME NEW h \in Gens
               PROVE  /\ h \in Unmade(exec) => registry'.ref[h].status = "unused"
                      /\ exec[h].pc = "constructing" =>
                           /\ registry'.ref[h].status \notin {"parked", "unused"}
                           /\ registry'.ref[h].session = None
                           /\ \A s \in Sessions : ~Active(s, h)'
                           /\ \A c \in Callers : InRevival(c) => call[c].gen # h
    BY <1>1 DEF NewRefs, Active, InRevival, Unmade
  <2> QED
    BY <1>2, <1>5, <1>6 DEF WInv, NewRefs
<1>11. RevivedDetached'
  BY <1>1, <1>2, <1>7 DEF RevivedDetached
<1>12. RevivalWrites'
  <2> SUFFICES ASSUME NEW c \in Callers, Making(c)
               PROVE  /\ call[c].sess \in Sessions
                      /\ sess'[call[c].sess].gen = call[c].gen
                      /\ sess'[call[c].sess].state # "none"
                      /\ call[c].pc = "constructing" => sess'[call[c].sess].state = "building"
                      /\ (\A s \in Sessions : Active(s, call[c].gen) => s = call[c].sess)'
    BY <1>1 DEF RevivalWrites, Making
  <2> QED
    BY <1>1, <1>4, <1>5 DEF WInv, Writers, RevivalWrites, Fewer, Building, Active
<1>13. AttachedWrites'
  <2> SUFFICES ASSUME NEW h \in Gens, NEW s \in Sessions, registry'.ref[h].session # None,
                      Active(s, h)'
               PROVE  registry'.ref[h].session = s
    BY DEF AttachedWrites, Active
  <2> QED
    BY <1>2, <1>5 DEF WInv, Writers, AttachedWrites
<1>14. ParkedWrites'
  <2> SUFFICES ASSUME NEW h \in Gens, NEW s \in Sessions, registry'.ref[h].status = "parked",
                      Active(s, h)'
               PROVE  \/ park'.pc = "disposing" /\ park'.gen = h /\ park'.sess = s
                      \/ \E c \in Callers :
                            /\ call[c].pc \in {"constructing", "failing", "rejecting"}
                            /\ call[c].gen = h /\ call[c].sess = s
    BY <1>1 DEF ParkedWrites, Active
  <2> QED
    BY <1>1, <1>2, <1>3, <1>5 DEF WInv, Writers, AttachedWrites, ParkedWrites
<1>15. OneActive'
  <2> SUFFICES ASSUME NEW h \in Gens, NEW s \in Sessions, NEW t \in Sessions,
                      Active(s, h)', Active(t, h)'
               PROVE  s = t
    BY DEF OneActive, Active
  <2> QED
    BY <1>5 DEF WInv, Writers, OneActive
<1> QED
  BY <1>8, <1>9, <1>10, <1>11, <1>12, <1>13, <1>14, <1>15 DEF WInv, Writers

(* A park ends: it gave up before it detached anything, or its session is  *)
(* disposed of.                                                            *)
LEMMA ParkEndWrites == ASSUME WInv, IInv', ParkGivesUp \/ ParkDone PROVE WInv'
<1>1. /\ UNCHANGED <<registry, sess, revival, exec>> /\ park'.pc = "none"
      /\ park.pc = "disposing" => sess[park.sess].state = "disposed"
  BY DEF ParkGivesUp, ParkDone, NoPark, Disposed
<1>2. \A c \in Callers : \/ call'[c] = call[c]
                         \/ /\ call[c].pc \in {"keeping", "waiting"}
                            /\ call'[c].pc \in {"kept", "woken"}
  <2>1. call' = [c \in Callers |->
                  CASE call[c].pc = "keeping" -> [call[c] EXCEPT !.pc = "kept"]
                    [] call[c].pc = "waiting" -> [call[c] EXCEPT !.pc = "woken"]
                    [] OTHER -> call[c]]
    BY DEF ParkGivesUp, ParkDone, WakeParkWaiters
  <2>2. \A c \in Callers : /\ [call[c] EXCEPT !.pc = "kept"].pc = "kept"
                           /\ [call[c] EXCEPT !.pc = "woken"].pc = "woken"
    BY QuietBase DEF Calls
  <2> QED
    BY <2>1, <2>2
<1>3. \A c \in Callers : /\ InRevival(c)' => InRevival(c) /\ call'[c] = call[c]
                         /\ InRevival(c) => call'[c] = call[c]
                         /\ Making(c)' => Making(c) /\ call'[c] = call[c]
                         /\ Making(c) => call'[c] = call[c]
  BY <1>2 DEF InRevival, Making
<1>4. OneRevival'
  BY <1>1, <1>3 DEF WInv, OneRevival
<1>5. ParksInTurn' /\ RevivedDetached'
  <2>1. \A c \in Callers : call'[c].pc \in {"factory", "opening", "constructing"} => call'[c] = call[c]
    BY <1>2
  <2> QED
    BY <1>1, <2>1 DEF WInv, ParksInTurn, RevivedDetached
<1>6. NewRefs'
  <2> SUFFICES ASSUME NEW g \in Gens
               PROVE  /\ g \in Unmade(exec) => registry.ref[g].status = "unused"
                      /\ exec[g].pc = "constructing" =>
                           /\ registry.ref[g].status \notin {"parked", "unused"}
                           /\ registry.ref[g].session = None
                           /\ \A s \in Sessions : ~Active(s, g)
                           /\ \A c \in Callers : InRevival(c)' => call'[c].gen # g
    BY <1>1 DEF NewRefs, Active, Unmade
  <2> QED
    BY <1>3 DEF WInv, NewRefs
<1>7. RevivalWrites'
  <2> SUFFICES ASSUME NEW c \in Callers, Making(c)'
               PROVE  /\ call[c].sess \in Sessions
                      /\ sess[call[c].sess].gen = call[c].gen
                      /\ sess[call[c].sess].state # "none"
                      /\ call[c].pc = "constructing" => sess[call[c].sess].state = "building"
                      /\ \A s \in Sessions : Active(s, call[c].gen) => s = call[c].sess
    BY <1>1, <1>3 DEF RevivalWrites, Active
  <2> QED
    BY <1>3 DEF WInv, Writers, RevivalWrites
<1>8. AttachedWrites' /\ OneActive'
  BY <1>1 DEF WInv, Writers, AttachedWrites, OneActive, Active
<1>9. ParkedWrites'
  <2> SUFFICES ASSUME NEW g \in Gens, NEW s \in Sessions, registry.ref[g].status = "parked",
                      Active(s, g)
               PROVE  \E c \in Callers : /\ call'[c].pc \in {"constructing", "failing", "rejecting"}
                                         /\ call'[c].gen = g /\ call'[c].sess = s
    BY <1>1 DEF ParkedWrites, Active
  <2> QED
    BY <1>1, <1>3 DEF WInv, Writers, ParkedWrites, Active, InRevival
<1> QED
  BY <1>4, <1>5, <1>6, <1>7, <1>8, <1>9 DEF WInv, Writers
-----------------------------------------------------------------------------
(* A revival begins: the id is not being parked, and #revivals has no      *)
(* other revival of its ref.                                               *)
LEMMA EnsureRevivesWrites ==
    ASSUME WInv, IInv', NEW c \in Callers, EnsureRevives(c)
    PROVE  WInv'
<1> DEFINE g == registry.cur
           v == [IdleCall EXCEPT !.gen = g, !.pc = IF Warm(g) THEN "opening" ELSE "factory"]
<1>1. /\ g \in Gens /\ g # None /\ Exists(registry, g)
      /\ registry.ref[g].session = None /\ registry.ref[g].status = "parked" /\ ~Reviving(g)
      /\ revival' = c /\ UNCHANGED <<registry, sess, park, exec>>
      /\ call' = [call EXCEPT ![c] = v]
  BY DEF EnsureRevives, Attached, Revivable, WInv, IInv, Sound, Exists
<1>2. v.gen = g /\ v.pc \in {"opening", "factory"}
  BY DEF IdleCall
<1> HIDE DEF v
<1>3. call'[c] = v /\ \A d \in Callers : d # c => call'[d] = call[d]
  BY <1>1, QuietBase
<1>4. park.pc = "none" /\ call[c].pc \in {"idle", "kept", "woken"}
  BY DEF EnsureRevives, Resolving, WInv, ParksInTurn
<1>5. \A d \in Callers : InRevival(d) => call[d].gen # g
  BY <1>1, AgentRegistryAssumption, AgentLifecycleAssumption DEF WInv, OneRevival, Reviving
<1>6. /\ InRevival(c)' /\ ~InRevival(c) /\ ~Making(c)' /\ ~Making(c)
      /\ \A d \in Callers : d # c => (InRevival(d)' <=> InRevival(d)) /\ (Making(d)' <=> Making(d))
  BY <1>2, <1>3, <1>4 DEF InRevival, Making
<1>7. OneRevival'
  <2>1. \A d \in Callers : InRevival(d)' => Exists(registry, call'[d].gen)
    BY <1>1, <1>2, <1>3, <1>6 DEF WInv, OneRevival
  <2>2. \A d, e \in Callers :
           InRevival(d)' /\ InRevival(e)' /\ call'[d].gen = call'[e].gen => d = e
    BY <1>2, <1>3, <1>5, <1>6 DEF WInv, OneRevival
  <2>3. \A d \in Callers : InRevival(d)' /\ call'[d].gen = registry.cur => revival' = d
    BY <1>1, <1>3, <1>5, <1>6
  <2> QED
    BY <1>1, <2>1, <2>2, <2>3 DEF OneRevival
<1>8. ParksInTurn' /\ RevivedDetached'
  BY <1>1, <1>4 DEF ParksInTurn, RevivedDetached
<1>9. NewRefs'
  <2> SUFFICES ASSUME NEW h \in Gens
               PROVE  /\ h \in Unmade(exec) => registry.ref[h].status = "unused"
                      /\ exec[h].pc = "constructing" =>
                           /\ registry.ref[h].status \notin {"parked", "unused"}
                           /\ registry.ref[h].session = None
                           /\ \A s \in Sessions : ~Active(s, h)
                           /\ \A d \in Callers : InRevival(d)' => call'[d].gen # h
    BY <1>1 DEF NewRefs, Active, Unmade
  <2> QED
    BY <1>1, <1>2, <1>3, <1>6 DEF WInv, NewRefs
<1>10. RevivalWrites'
  <2> SUFFICES ASSUME NEW d \in Callers, Making(d), d # c
               PROVE  /\ call[d].sess \in Sessions
                      /\ sess[call[d].sess].gen = call[d].gen
                      /\ sess[call[d].sess].state # "none"
                      /\ call[d].pc = "constructing" => sess[call[d].sess].state = "building"
                      /\ \A s \in Sessions : Active(s, call[d].gen) => s = call[d].sess
    BY <1>1, <1>3, <1>6 DEF RevivalWrites, Active
  <2> QED
    BY DEF WInv, Writers, RevivalWrites
<1>11. AttachedWrites' /\ OneActive'
  BY <1>1 DEF WInv, Writers, AttachedWrites, OneActive, Active
<1>12. ParkedWrites'
  BY <1>1, <1>3, <1>4 DEF WInv, Writers, ParkedWrites, Active
<1> QED
  BY <1>7, <1>8, <1>9, <1>10, <1>11, <1>12 DEF WInv, Writers

(* A revival claims its parked ref and makes its session: the park is over *)
(* and no other revival has one.                                           *)
LEMMA RevivalClaimsWrites ==
    ASSUME WInv, IInv', NEW c \in Callers, NEW s \in Sessions, RevivalClaims(c, s)
    PROVE  WInv'
<1> DEFINE g == call[c].gen
<1>1. /\ registry.cur = g /\ g \in Gens /\ g # None
      /\ registry.ref[g].session = None /\ registry.ref[g].status = "parked"
      /\ call[c].pc = "opening" /\ sess[s].state = "none"
      /\ sess' = [sess EXCEPT ![s] = [@ EXCEPT !.state = "building", !.gen = g]]
      /\ call' = [call EXCEPT ![c] = [@ EXCEPT !.pc = "constructing", !.sess = s]]
      /\ UNCHANGED <<registry, park, revival, exec>>
  BY DEF RevivalClaims, Claimable, Registered, NextSession, WInv, IInv, Sound, Exists
<1>2. /\ call'[c].pc = "constructing" /\ call'[c].gen = g /\ call'[c].sess = s
      /\ \A d \in Callers : d # c => call'[d] = call[d]
  BY <1>1, QuietBase DEF Calls
<1>3. /\ sess'[s].state = "building" /\ sess'[s].gen = g
      /\ \A t \in Sessions : t # s => sess'[t] = sess[t]
  BY <1>1, QuietBase DEF SessionStates
<1>4. InRevival(c) /\ InRevival(c)' /\ ~Making(c) /\ Making(c)'
  BY <1>1, <1>2 DEF InRevival, Making
<1>5. \A d \in Callers : /\ InRevival(d)' <=> InRevival(d)
                         /\ call'[d].gen = call[d].gen
                         /\ d # c => (Making(d)' <=> Making(d))
  BY <1>2, <1>4 DEF InRevival, Making
<1>6. \A d \in Callers : d # c /\ InRevival(d) => call[d].gen # g
  BY <1>4 DEF WInv, OneRevival
<1>7. \A t \in Sessions : ~Active(t, g)
  <2> SUFFICES ASSUME NEW t \in Sessions, Active(t, g)
               PROVE  FALSE
    OBVIOUS
  <2>1. park.pc # "none" => park.gen # g
    BY <1>1 DEF WInv, RevivedDetached
  <2>2. \A d \in Callers : call[d].pc \in {"constructing", "failing", "rejecting"} => call[d].gen # g
    BY <1>1, <1>6 DEF InRevival
  <2> QED
    BY <1>1, <2>1, <2>2 DEF WInv, Writers, ParkedWrites
<1>8. \A t \in Sessions, h \in Gens : Active(t, h)' => Active(t, h) \/ (t = s /\ h = g)
  BY <1>3 DEF Active
<1>9. OneRevival'
  BY <1>1, <1>5 DEF WInv, OneRevival, Exists
<1>10. ParksInTurn'
  BY <1>1, <1>2 DEF WInv, ParksInTurn
<1>11. NewRefs'
  <2> SUFFICES ASSUME NEW h \in Gens
               PROVE  /\ h \in Unmade(exec) => registry.ref[h].status = "unused"
                      /\ exec[h].pc = "constructing" =>
                           /\ registry.ref[h].status \notin {"parked", "unused"}
                           /\ registry.ref[h].session = None
                           /\ \A t \in Sessions : ~Active(t, h)'
                           /\ \A d \in Callers : InRevival(d)' => call'[d].gen # h
    BY <1>1 DEF NewRefs, Active, Unmade
  <2> QED
    BY <1>1, <1>5, <1>8 DEF WInv, NewRefs
<1>12. RevivedDetached'
  <2>1. \A d \in Callers : call'[d].pc \in {"factory", "opening", "constructing"}
                              => call[d].pc \in {"factory", "opening", "constructing"}
    BY <1>1, <1>2
  <2> QED
    BY <1>1, <1>5, <2>1 DEF WInv, RevivedDetached
<1>13. RevivalWrites'
  <2> SUFFICES ASSUME NEW d \in Callers, Making(d)'
               PROVE  /\ call'[d].sess \in Sessions
                      /\ sess'[call'[d].sess].gen = call'[d].gen
                      /\ sess'[call'[d].sess].state # "none"
                      /\ call'[d].pc = "constructing" => sess'[call'[d].sess].state = "building"
                      /\ (\A t \in Sessions : Active(t, call[d].gen) => t = call[d].sess)'
    BY DEF RevivalWrites, Making
  <2>1. CASE d = c
    BY <1>1, <1>2, <1>3, <1>7, <1>8, <2>1 DEF Active
  <2>2. CASE d # c
    <3>1. /\ Making(d) /\ InRevival(d) /\ call'[d] = call[d] /\ call[d].gen # g
          /\ call[d].gen \in Gens
      BY <1>2, <1>5, <1>6, <2>2 DEF Making, InRevival, WInv, OneRevival, Exists
    <3>2. call[d].sess \in Sessions /\ call[d].sess # s
      BY <1>1, <3>1 DEF WInv, Writers, RevivalWrites
    <3>3. \A t \in Sessions : Active(t, call[d].gen)' => Active(t, call[d].gen)
      BY <1>2, <1>3, <1>8, <3>1 DEF Active
    <3> QED
      BY <1>3, <3>1, <3>2, <3>3 DEF WInv, Writers, RevivalWrites
  <2> QED
    BY <2>1, <2>2
<1>14. AttachedWrites'
  <2> SUFFICES ASSUME NEW h \in Gens, NEW t \in Sessions, registry.ref[h].session # None,
                      Active(t, h)'
               PROVE  registry.ref[h].session = t
    BY <1>1 DEF AttachedWrites, Active
  <2> QED
    BY <1>1, <1>8 DEF WInv, Writers, AttachedWrites
<1>15. ParkedWrites'
  <2> SUFFICES ASSUME NEW h \in Gens, NEW t \in Sessions, registry.ref[h].status = "parked",
                      Active(t, h)'
               PROVE  \/ park.pc = "disposing" /\ park.gen = h /\ park.sess = t
                      \/ \E d \in Callers :
                            /\ call'[d].pc \in {"constructing", "failing", "rejecting"}
                            /\ call'[d].gen = h /\ call'[d].sess = t
    BY <1>1 DEF ParkedWrites, Active
  <2>1. CASE t = s /\ h = g
    BY <1>2, <2>1
  <2>2. CASE Active(t, h)
    BY <1>1, <1>2, <2>2 DEF WInv, Writers, ParkedWrites
  <2> QED
    BY <1>8, <2>1, <2>2
<1>16. OneActive'
  <2> SUFFICES ASSUME NEW h \in Gens, NEW t \in Sessions, NEW u \in Sessions,
                      Active(t, h)', Active(u, h)'
               PROVE  t = u
    BY DEF OneActive, Active
  <2> QED
    BY <1>7, <1>8 DEF WInv, Writers, OneActive
<1> QED
  BY <1>9, <1>10, <1>11, <1>12, <1>13, <1>14, <1>15, <1>16 DEF WInv, Writers
-----------------------------------------------------------------------------
(* What a call does while a session is attached to the ref g: a revival of *)
(* another ref stays as it is, that of g has nothing left but its wiring.  *)
BesideAttach(d, g, s) ==
    /\ InRevival(d)' => InRevival(d) /\ call'[d].gen = call[d].gen /\ (revival = d => revival' = d)
    /\ Making(d)' => Making(d)
    /\ InRevival(d) /\ call[d].gen # g => call'[d] = call[d]
    /\ Making(d) /\ call[d].gen # g => sess'[call[d].sess] = sess[call[d].sess]
    /\ InRevival(d)' /\ call[d].gen = g => call'[d].pc = "wiring" /\ call'[d].sess = s
    /\ call'[d].pc \in {"kept", "woken"} => call[d].pc \in {"kept", "woken"}

(* The session s, the only one of the current ref g, is attached to it.    *)
LEMMA AttachingStep ==
    ASSUME WInv, IInv', NEW g, Registered(registry, g), NEW s \in Sessions,
           NEW status \in {"running", "idle"}, NEW f,
           registry' = [cur |-> g, ref |-> [registry.ref EXCEPT
                           ![g] = [status |-> status, session |-> s, file |-> f]]],
           sess'[s].gen = g, sess'[s].state # "none",
           \A t \in Sessions, h \in Gens :
              Active(t, h)' => (h # g /\ Active(t, h)) \/ (h = g /\ t = s),
           \A d \in Callers : BesideAttach(d, g, s),
           park' = park,
           \A h \in Gens : /\ h \in Unmade(exec') => h \in Unmade(exec)
                           /\ exec'[h].pc = "constructing" => h # g /\ exec[h].pc = "constructing"
    PROVE  WInv'
<1> DEFINE a == [status |-> status, session |-> s, file |-> f]
<1>1. /\ registry.cur = g /\ g \in Gens /\ registry.ref[g].status # "unused"
      /\ registry.ref \in [Gens -> Refs] /\ s # None
  BY AgentRegistryAssumption DEF Registered, WInv, IInv, Sound, Registries, Exists, None
<1>2. a.status \in {"running", "idle"} /\ a.session = s
  OBVIOUS
<1> HIDE DEF a
<1>3. /\ registry'.cur = g
      /\ registry'.ref[g].status \in {"running", "idle"} /\ registry'.ref[g].session = s
      /\ \A h \in Gens : h # g => registry'.ref[h] = registry.ref[h]
  BY <1>1, <1>2 DEF a
<1>4. OneRevival'
  <2>1. \A d \in Callers : InRevival(d)' => Exists(registry', call'[d].gen)
    BY <1>3 DEF BesideAttach, WInv, OneRevival, Exists
  <2>2. \A d, e \in Callers :
           InRevival(d)' /\ InRevival(e)' /\ call'[d].gen = call'[e].gen => d = e
    BY DEF BesideAttach, WInv, OneRevival
  <2>3. \A d \in Callers : InRevival(d)' /\ call'[d].gen = registry'.cur => revival' = d
    BY <1>1, <1>3 DEF BesideAttach, WInv, OneRevival
  <2> QED
    BY <2>1, <2>2, <2>3 DEF OneRevival
<1>5. ParksInTurn'
  BY DEF WInv, ParksInTurn, BesideAttach
<1>6. NewRefs'
  <2> SUFFICES ASSUME NEW h \in Gens
               PROVE  /\ h \in Unmade(exec') => registry'.ref[h].status = "unused"
                      /\ exec'[h].pc = "constructing" =>
                           /\ registry'.ref[h].status \notin {"parked", "unused"}
                           /\ registry'.ref[h].session = None
                           /\ \A t \in Sessions : ~Active(t, h)'
                           /\ \A d \in Callers : InRevival(d)' => call'[d].gen # h
    BY DEF NewRefs, Active
  <2> QED
    BY <1>1, <1>3 DEF WInv, NewRefs, BesideAttach
<1>7. RevivedDetached'
  <2> SUFFICES ASSUME NEW d \in Callers, call'[d].pc \in {"factory", "opening", "constructing"}
               PROVE  call'[d].gen # g
    BY <1>3 DEF RevivedDetached
  <2> QED
    BY DEF BesideAttach, InRevival
<1>8. RevivalWrites'
  <2> SUFFICES ASSUME NEW d \in Callers, Making(d)'
               PROVE  /\ call'[d].sess \in Sessions
                      /\ sess'[call'[d].sess].gen = call'[d].gen
                      /\ sess'[call'[d].sess].state # "none"
                      /\ call'[d].pc = "constructing" => sess'[call'[d].sess].state = "building"
                      /\ (\A t \in Sessions : Active(t, call[d].gen) => t = call[d].sess)'
    BY DEF RevivalWrites, Making
  <2>1. InRevival(d)' /\ InRevival(d) /\ Making(d) /\ call'[d].gen = call[d].gen
        /\ call[d].gen \in Gens
    BY DEF BesideAttach, Making, InRevival, WInv, OneRevival, Exists
  <2>2. CASE call[d].gen = g
    BY <1>1, <2>1, <2>2 DEF BesideAttach, Active
  <2>3. CASE call[d].gen # g
    <3>1. call'[d] = call[d] /\ sess'[call[d].sess] = sess[call[d].sess]
      BY <2>1, <2>3 DEF BesideAttach
    <3>2. \A t \in Sessions : Active(t, call[d].gen)' => Active(t, call[d].gen)
      BY <2>1, <2>3, <3>1 DEF Active
    <3> QED
      BY <2>1, <3>1, <3>2 DEF WInv, Writers, RevivalWrites
  <2> QED
    BY <2>2, <2>3
<1>9. AttachedWrites'
  <2> SUFFICES ASSUME NEW h \in Gens, NEW t \in Sessions, registry'.ref[h].session # None,
                      Active(t, h)'
               PROVE  registry'.ref[h].session = t
    BY DEF AttachedWrites, Active
  <2> QED
    BY <1>3 DEF WInv, Writers, AttachedWrites
<1>10. ParkedWrites'
  <2> SUFFICES ASSUME NEW h \in Gens, NEW t \in Sessions, registry'.ref[h].status = "parked",
                      Active(t, h)'
               PROVE  \/ park.pc = "disposing" /\ park.gen = h /\ park.sess = t
                      \/ \E d \in Callers :
                            /\ call'[d].pc \in {"constructing", "failing", "rejecting"}
                            /\ call'[d].gen = h /\ call'[d].sess = t
    BY DEF ParkedWrites, Active
  <2>1. h # g /\ registry.ref[h].status = "parked" /\ Active(t, h)
    BY <1>3
  <2>2. \A d \in Callers : call[d].pc \in {"constructing", "failing", "rejecting"} /\ call[d].gen = h
                              => call'[d] = call[d]
    BY <2>1 DEF BesideAttach, InRevival
  <2> QED
    BY <2>1, <2>2 DEF WInv, Writers, ParkedWrites
<1>11. OneActive'
  <2> SUFFICES ASSUME NEW h \in Gens, NEW t \in Sessions, NEW u \in Sessions,
                      Active(t, h)', Active(u, h)'
               PROVE  t = u
    BY DEF OneActive, Active
  <2> QED
    BY DEF WInv, Writers, OneActive
<1> QED
  BY <1>4, <1>5, <1>6, <1>7, <1>8, <1>9, <1>10, <1>11 DEF WInv, Writers

LEMMA RevivalAttachesWrites ==
    ASSUME WInv, IInv', NEW c \in Callers, RevivalAttaches(c)
    PROVE  WInv'
<1> DEFINE g == call[c].gen
           s == call[c].sess
<1>1. /\ call[c].pc = "constructing" /\ Attachable(registry, g)
      /\ registry' = SetStatus(Attach(registry, g, s), g, "running")
      /\ sess' = [sess EXCEPT ![s].state = "live"]
      /\ call' = [call EXCEPT ![c].pc = "wiring"]
      /\ UNCHANGED <<park, revival, exec>>
  BY DEF RevivalAttaches, Publish
<1>2. /\ Registered(registry, g) /\ InRevival(c) /\ Making(c) /\ s \in Sessions
      /\ sess[s].gen = g /\ sess[s].state = "building"
      /\ \A t \in Sessions : Active(t, g) => t = s
  BY <1>1 DEF Attachable, WInv, Writers, RevivalWrites, Making, InRevival
<1>3. /\ call'[c].pc = "wiring" /\ call'[c].gen = g /\ call'[c].sess = s
      /\ \A d \in Callers : d # c => call'[d] = call[d]
  BY <1>1, QuietBase DEF Calls
<1>4. /\ sess'[s].state = "live" /\ sess'[s].gen = g
      /\ \A t \in Sessions : t # s => sess'[t] = sess[t]
  BY <1>1, <1>2, QuietBase DEF SessionStates
<1>5. registry' = [cur |-> g, ref |-> [registry.ref EXCEPT ![g] =
                     [status |-> "running", session |-> s, file |-> registry.ref[g].file]]]
  BY <1>1, <1>2, QuietBase, SessionAttached
<1>6. \A t \in Sessions, h \in Gens :
         Active(t, h)' => (h # g /\ Active(t, h)) \/ (h = g /\ t = s)
  BY <1>2, <1>4 DEF Active
<1>7. \A d \in Callers : BesideAttach(d, g, s)
  <2> SUFFICES ASSUME NEW d \in Callers PROVE BesideAttach(d, g, s)
    OBVIOUS
  <2>1. CASE d = c
    BY <1>1, <1>2, <1>3, <2>1 DEF BesideAttach
  <2>2. CASE d # c
    <3>1. InRevival(d) => call[d].gen # g
      BY <1>2, <2>2 DEF WInv, OneRevival
    <3>2. Making(d) /\ call[d].gen # g => sess'[call[d].sess] = sess[call[d].sess]
      BY <1>2, <1>4 DEF WInv, Writers, RevivalWrites
    <3>3. (InRevival(d)' <=> InRevival(d)) /\ (Making(d)' <=> Making(d)) /\ call'[d] = call[d]
      BY <1>3, <2>2 DEF InRevival, Making
    <3> QED
      BY <1>1, <3>1, <3>2, <3>3 DEF BesideAttach
  <2> QED
    BY <2>1, <2>2
<1>8. exec[g].pc # "constructing"
  BY <1>2 DEF WInv, NewRefs, OneRevival, Exists
<1>9. \A h \in Gens : /\ h \in Unmade(exec') => h \in Unmade(exec)
                      /\ exec'[h].pc = "constructing" => h # g /\ exec[h].pc = "constructing"
  BY <1>1, <1>8
<1> QED
  BY <1>1, <1>2, <1>4, <1>5, <1>6, <1>7, <1>9, AttachingStep

LEMMA RevivalReturnsWrites ==
    ASSUME WInv, IInv', NEW c \in Callers, RevivalReturns(c), Settle(c, Returned(call[c].sess))
    PROVE  WInv'
<1> DEFINE g == call[c].gen
           s == call[c].sess
           outcome == Returned(s)
<1>1. InRevival(c) /\ Making(c) /\ call[c].pc = "wiring"
  BY DEF RevivalReturns, InRevival, Making
<1>2. s \in Sessions /\ sess[s].gen = g /\ sess[s].state # "none"
      /\ \A t \in Sessions : Active(t, g) => t = s
  BY <1>1 DEF WInv, Writers, RevivalWrites
<1>3. outcome \in Calls /\ outcome.pc = "returned"
  BY <1>2, Outcomes
<1>4. /\ Claimable(registry, g)
            \/ (Registered(registry, g) /\ registry.ref[g].status = "running")
      /\ registry' = SetStatus(Attach(registry, g, s), g, "idle")
      /\ sess' = [sess EXCEPT ![s].synced = TRUE]
      /\ UNCHANGED <<park, exec>>
  <2>1. call' # [call EXCEPT ![c].pc = "rejecting"]
    <3>1. call'[c] = outcome
      BY DEF Settle
    <3>2. [call EXCEPT ![c].pc = "rejecting"][c].pc = "rejecting"
      BY QuietBase DEF Calls
    <3> QED
      BY <1>3, <3>1, <3>2
  <2> QED
    BY <2>1 DEF RevivalReturns, Publish
<1>5. Registered(registry, g) /\ Attachable(registry, g)
  BY <1>4 DEF Claimable, Attachable
<1>6. registry' = [cur |-> g, ref |-> [registry.ref EXCEPT ![g] =
                     [status |-> "idle", session |-> s, file |-> registry.ref[g].file]]]
  BY <1>2, <1>4, <1>5, QuietBase, SessionAttached
<1>7. /\ sess'[s].state = sess[s].state /\ sess'[s].gen = g
      /\ \A t \in Sessions : t # s => sess'[t] = sess[t]
  BY <1>2, <1>4, QuietBase DEF SessionStates
<1>8. \A t \in Sessions, h \in Gens :
         Active(t, h)' => (h # g /\ Active(t, h)) \/ (h = g /\ t = s)
  BY <1>2, <1>7 DEF Active
<1>9. \A d \in Callers : BesideAttach(d, g, s)
  <2> SUFFICES ASSUME NEW d \in Callers PROVE BesideAttach(d, g, s)
    OBVIOUS
  <2>1. /\ call'[d] = outcome \/ (call'[d] = call[d] /\ d # c)
        /\ call'[d] # call[d] => d = c \/ call[d].pc = "joined"
        /\ d # c /\ revival = d => revival' = d
    BY DEF Settle
  <2>2. d # c /\ InRevival(d) => call[d].gen # g /\ call'[d] = call[d]
    BY <1>1, <2>1 DEF WInv, OneRevival, InRevival
  <2>3. Making(d) /\ call[d].gen # g => sess'[call[d].sess] = sess[call[d].sess]
    BY <1>2, <1>7 DEF WInv, Writers, RevivalWrites
  <2>4. /\ InRevival(d)' => InRevival(d) /\ d # c /\ call'[d] = call[d]
        /\ Making(d)' => Making(d)
        /\ call'[d].pc \in {"kept", "woken"} => call'[d] = call[d]
    BY <1>3, <2>1 DEF InRevival, Making
  <2> QED
    BY <2>1, <2>2, <2>3, <2>4 DEF BesideAttach
<1>10. exec[g].pc # "constructing"
  BY <1>1 DEF WInv, NewRefs, OneRevival, Exists
<1>11. \A h \in Gens : /\ h \in Unmade(exec') => h \in Unmade(exec)
                       /\ exec'[h].pc = "constructing" => h # g /\ exec[h].pc = "constructing"
  BY <1>4, <1>10
<1> QED
  BY <1>2, <1>4, <1>5, <1>6, <1>7, <1>8, <1>9, <1>11, AttachingStep

LEMMA SpawnAttachesWrites ==
    ASSUME WInv, IInv', NEW g \in Gens, NEW s \in Sessions, SpawnAttaches(g, s)
    PROVE  WInv'
<1>1. /\ exec[g].pc = "constructing" /\ sess[s].state = "none" /\ Attachable(registry, g)
      /\ registry' = SetStatus(Attach(registry, g, s), g, "running")
      /\ sess' = [sess EXCEPT ![s] = [@ EXCEPT !.state = "live", !.gen = g]]
      /\ exec' = [exec EXCEPT ![g] = [@ EXCEPT !.pc = "wiring", !.sess = s]]
      /\ UNCHANGED <<park, revival, call>>
  BY DEF SpawnAttaches, NextSession, Publish
<1>2. /\ Registered(registry, g)
      /\ \A t \in Sessions : ~Active(t, g)
      /\ \A d \in Callers : InRevival(d) => call[d].gen # g
  BY <1>1 DEF Attachable, WInv, NewRefs
<1>3. /\ sess'[s].state = "live" /\ sess'[s].gen = g
      /\ \A t \in Sessions : t # s => sess'[t] = sess[t]
  BY <1>1, QuietBase DEF SessionStates
<1>4. exec'[g].pc = "wiring" /\ \A h \in Gens : h # g => exec'[h] = exec[h]
  BY <1>1, QuietBase DEF Executors
<1>5. registry' = [cur |-> g, ref |-> [registry.ref EXCEPT ![g] =
                     [status |-> "running", session |-> s, file |-> registry.ref[g].file]]]
  BY <1>1, QuietBase, SessionAttached
<1>6. \A t \in Sessions, h \in Gens :
         Active(t, h)' => (h # g /\ Active(t, h)) \/ (h = g /\ t = s)
  BY <1>2, <1>3 DEF Active
<1>7. \A d \in Callers : BesideAttach(d, g, s)
  <2> SUFFICES ASSUME NEW d \in Callers PROVE BesideAttach(d, g, s)
    OBVIOUS
  <2>1. (InRevival(d)' <=> InRevival(d)) /\ (Making(d)' <=> Making(d)) /\ call'[d] = call[d]
    BY <1>1 DEF InRevival, Making
  <2>2. Making(d) => sess'[call[d].sess] = sess[call[d].sess]
    BY <1>1, <1>3 DEF WInv, Writers, RevivalWrites
  <2> QED
    BY <1>1, <1>2, <2>1, <2>2 DEF BesideAttach
<1>8. \A h \in Gens : /\ h \in Unmade(exec') => h \in Unmade(exec)
                      /\ exec'[h].pc = "constructing" => h # g /\ exec[h].pc = "constructing"
  BY <1>4 DEF Unmade
<1>9. park' = park /\ sess'[s].state # "none" /\ sess'[s].gen = g
  BY <1>1, <1>3
<1> QED
  BY <1>2, <1>5, <1>6, <1>7, <1>8, <1>9, AttachingStep
-----------------------------------------------------------------------------
(* A step that registers the ref g, which no call, session or park knows.  *)
LEMMA RegisteringWrites ==
    ASSUME WInv, IInv', NEW g \in Gens, registry.ref[g].status = "unused",
           NEW v, v \in Registries, v.ref = registry.ref,
           NEW status \in Statuses, NEW f, registry' = Register(v, g, status, f),
           UNCHANGED <<sess, park, revival, call>>,
           g \notin Unmade(exec'), exec'[g].pc = "constructing" => status # "parked",
           \A h \in Gens : h # g => exec'[h] = exec[h]
    PROVE  WInv'
<1>1. /\ registry'.cur = g
      /\ registry'.ref[g].status = status /\ registry'.ref[g].session = None
      /\ status # "unused"
      /\ \A h \in Gens : h # g => registry'.ref[h] = registry.ref[h]
  BY DEF Register, Registries, Statuses
<1>2. \A c \in Callers : InRevival(c) => call[c].gen # g
  BY DEF WInv, OneRevival, Exists
<1>3. \A s \in Sessions : ~Active(s, g)
  BY DEF Active, WInv, IInv, SessOK, Exists
<1>4. OneRevival'
  BY <1>1, <1>2 DEF WInv, OneRevival, InRevival, Exists
<1>5. ParksInTurn'
  BY DEF WInv, ParksInTurn
<1>6. NewRefs'
  <2> SUFFICES ASSUME NEW h \in Gens
               PROVE  /\ h \in Unmade(exec') => registry'.ref[h].status = "unused"
                      /\ exec'[h].pc = "constructing" =>
                           /\ registry'.ref[h].status \notin {"parked", "unused"}
                           /\ registry'.ref[h].session = None
                           /\ \A s \in Sessions : ~Active(s, h)
                           /\ \A c \in Callers : InRevival(c) => call[c].gen # h
    BY DEF NewRefs, Active, InRevival
  <2> QED
    BY <1>1, <1>2, <1>3 DEF WInv, NewRefs, Unmade
<1>7. RevivedDetached'
  BY <1>1, <1>2 DEF RevivedDetached, InRevival
<1>8. RevivalWrites' /\ OneActive'
  BY DEF WInv, Writers, RevivalWrites, Making, OneActive, Active
<1>9. AttachedWrites' /\ ParkedWrites'
  BY <1>1, <1>3 DEF WInv, Writers, AttachedWrites, ParkedWrites, Active
<1> QED
  BY <1>4, <1>5, <1>6, <1>7, <1>8, <1>9 DEF WInv, Writers

LEMMA ExecutorWrites ==
    ASSUME WInv, IInv', NEW g \in Gens, ExecutorStep(g) \/ \E f \in Files : Spawn(g, f)
    PROVE  WInv'
<1>1. ASSUME NEW f \in Files, registry.cur = None, registry.ref[g].status = "unused",
             registry' = Register(registry, g, "running", f),
             exec' = [exec EXCEPT ![g].pc = "constructing"],
             UNCHANGED <<sess, park, revival, call>>
      PROVE  WInv'
  <2>1. exec'[g].pc = "constructing" /\ \A h \in Gens : h # g => exec'[h] = exec[h]
    BY <1>1, QuietBase DEF Executors
  <2>2. g \notin Unmade(exec') /\ "running" \in Statuses
    BY <2>1 DEF Unmade, Statuses
  <2> QED
    BY <1>1, <2>1, <2>2, QuietBase, RegisteringWrites
<1>2. ASSUME NEW f \in Files, Spawn(g, f) PROVE WInv'
  <2>1. CASE registry.cur # None
    BY <1>2, <2>1, ExecutorStepQuiet, QuietStep
  <2>2. CASE registry.cur = None
    BY <1>1, <1>2, <2>2 DEF Spawn, NextGen, Corpse, Claimable, Registered
  <2> QED
    BY <2>1, <2>2
<1>3. ASSUME NEW f \in Files, SpawnClaims(g, f) PROVE WInv'
  <2>1. CASE registry.cur # None
    BY <1>3, <2>1, ExecutorStepQuiet, QuietStep
  <2>2. CASE registry.cur = None
    <3>1. registry.ref[g].status = "unused"
      BY <1>3, QuietBase DEF SpawnClaims, Unmade
    <3> QED
      BY <1>1, <1>3, <2>2, <3>1 DEF SpawnClaims
  <2> QED
    BY <2>1, <2>2
<1> QED
  BY <1>2, <1>3, ExecutorStepQuiet, QuietStep, SpawnAttachesWrites DEF ExecutorStep

LEMMA ScanWrites == ASSUME WInv, IInv', NEW g \in Gens, ScanRegisters(g) PROVE WInv'
<1> DEFINE v == Unregister(registry, scan.expected)
           status == IF scan.tombstoned THEN "aborted" ELSE "parked"
<1>1. v \in Registries /\ v.ref = registry.ref
  BY QuietBase DEF Unregister, Registries
<1>2. /\ registry.ref[g].status = "unused" /\ exec[g].pc = "unused"
      /\ registry' = Register(v, g, status, scan.file)
      /\ UNCHANGED <<sess, park, revival, call, exec>>
  BY DEF ScanRegisters, NextGen
<1>3. status \in Statuses
  BY DEF Statuses
<1>4. g \notin Unmade(exec') /\ exec'[g].pc # "constructing"
  BY <1>2 DEF Unmade
<1> HIDE DEF v, status
<1> QED
  BY <1>1, <1>2, <1>3, <1>4, RegisteringWrites

(* Nothing exists: the state of a process that has just started.           *)
LEMMA FreshWrites ==
    ASSUME IInv, registry = EmptyRegistry, sess = [s \in Sessions |-> NoSession], park = NoPark,
           call = [c \in Callers |-> IdleCall], exec = [g \in Gens |-> IdleExecutor]
    PROVE  WInv
<1>1. /\ \A c \in Callers : call[c].pc = "idle"
      /\ \A s \in Sessions : sess[s].state = "none"
      /\ \A g \in Gens : exec[g].pc = "unused"
      /\ park.pc = "none"
  BY DEF IdleCall, NoSession, IdleExecutor, NoPark
<1> QED
  BY <1>1
  DEF WInv, OneRevival, ParksInTurn, NewRefs, RevivedDetached, Writers, RevivalWrites,
      AttachedWrites, ParkedWrites, OneActive, Active, InRevival, Making, Unmade

LEMMA RestartWrites == ASSUME IInv', Restart PROVE WInv'
<1>1. /\ \A c \in Callers : call'[c].pc = "idle"
      /\ \A s \in Sessions : sess'[s].state = "none"
      /\ \A g \in Gens : exec'[g].pc = "unused"
      /\ park'.pc = "none"
  BY DEF Restart, IdleCall, NoSession, IdleExecutor, NoPark
<1> QED
  BY <1>1
  DEF WInv, OneRevival, ParksInTurn, NewRefs, RevivedDetached, Writers, RevivalWrites,
      AttachedWrites, ParkedWrites, OneActive, Active, InRevival, Making, Unmade

LEMMA NextWInv == WInv /\ [Next]_vars => WInv'
<1> SUFFICES ASSUME WInv, [Next]_vars PROVE WInv'
  OBVIOUS
<1>1. IInv'
  BY NextIInv DEF WInv
<1>2. CASE ParkStep
  BY <1>1, <1>2, TimerWrites, ParkCommitWrites, ParkEndWrites DEF ParkStep
<1>3. ASSUME NEW s \in Sessions, DisposeDone(s) \/ StartRun(s) \/ EndRun(s) PROVE WInv'
  BY <1>1, <1>3, SessionStepQuiet, QuietStep
<1>4. ASSUME NEW c \in Callers, EnsureStep(c) \/ Forget(c) PROVE WInv'
  BY <1>1, <1>4, EnsureRevivesWrites, EnsureStepQuiet, QuietStep
<1>5. ASSUME NEW c \in Callers, RevivalStep(c) PROVE WInv'
  BY <1>1, <1>5, RevivalClaimsWrites, RevivalAttachesWrites, RevivalReturnsWrites,
     RevivalStepQuiet, QuietStep
  DEF RevivalStep
<1>6. ASSUME NEW g \in Gens, ExecutorStep(g) \/ \E f \in Files : Spawn(g, f) PROVE WInv'
  BY <1>1, <1>6, ExecutorWrites
<1>7. ASSUME NEW g \in Gens, ScanRegisters(g) PROVE WInv'
  BY <1>1, <1>7, ScanWrites
<1>8. ASSUME NEW k \in Killers,
             \/ \E kind \in KillKinds : Kill(k, kind)
             \/ \E g \in Gens, kind \in KillKinds : ExecutorAborts(g, k, kind)
             \/ ReleaseStep(k)
      PROVE  WInv'
  BY <1>1, <1>8, ReleaseStepQuiet, QuietStep
<1>9. CASE (\E f \in Files : ScanStarts(f)) \/ ScanSkips \/ UNCHANGED vars
  <2>1. UNCHANGED <<registry, sess, park, revival, call, exec>>
    BY <1>9 DEF ScanStarts, ScanSkips, vars
  <2> QED
    BY <1>1, <2>1, StutterQuiet, QuietStep
<1>10. CASE Restart
  BY <1>1, <1>10, RestartWrites
<1> QED
  BY <1>2, <1>3, <1>4, <1>5, <1>6, <1>7, <1>8, <1>9, <1>10 DEF Next

(* A session file has one writer at a time: however parks, revivals, kills,*)
(* spawns and scans interleave, at most one session of a ref is being      *)
(* built, live or being disposed of.                                       *)
THEOREM OneWriterPerFile == Spec => []OneWriterPerRef
<1>1. Init => WInv
  BY InitIInv, FreshWrites DEF Init
<1>2. WInv => OneWriterPerRef
  <2> SUFFICES ASSUME WInv, NEW g \in Gens
               PROVE  Cardinality({s \in Sessions :
                         /\ sess[s].gen = g
                         /\ sess[s].state \in {"building", "live", "disposing"}}) <= 1
    BY DEF OneWriterPerRef
  <2> DEFINE writers == {s \in Sessions : /\ sess[s].gen = g
                                          /\ sess[s].state \in {"building", "live", "disposing"}}
  <2>1. \A s, t \in writers : s = t
    BY DEF WInv, Writers, OneActive, Active
  <2>2. writers = {} \/ \E s : writers = {s}
    BY <2>1
  <2>3. Cardinality(writers) = 0 \/ Cardinality(writers) = 1
    BY <2>2, FS_EmptySet, FS_Singleton
  <2> QED
    BY <2>3
<1>3. WInv /\ [Next]_vars => WInv'
  BY NextWInv
<1> QED
  BY <1>1, <1>2, <1>3, PTL DEF Spec
-----------------------------------------------------------------------------
(***************************************************************************)
(* A live session is attached to the ref the id names, or a release that   *)
(* captured it writes its sidecar first, or its ref lost the id while it   *)
(* was attached.                                                           *)
(***************************************************************************)
Reached(s) == Attached(registry) = s /\ sess[s].gen = registry.cur

Captive(s) == \E k \in Killers : rel[k].pc = "persisting" /\ rel[k].live = s

Held == \A s \in Sessions : sess[s].state = "live" => Reached(s) \/ Captive(s) \/ LeftBehind(s)

HeldInv == WInv /\ Held

(* A ref that lost the id stays as it is.                                  *)
LostStay(r, q) ==
    \A g \in Gens : r.ref[g].status # "unused" /\ r.cur # g => q.cur # g /\ q.ref[g] = r.ref[g]

LEMMA LostSame == ASSUME NEW r PROVE LostStay(r, r)
  BY DEF LostStay

LEMMA LostUnregister == ASSUME NEW r, Sound(r), NEW g PROVE LostStay(r, Unregister(r, g))
  BY AgentRegistryAssumption DEF LostStay, Unregister, Registered, Sound, Registries, None

LEMMA LostRegister ==
    ASSUME NEW r, NEW v \in Registries, v.ref = r.ref, NEW g \in Gens,
           r.ref[g].status = "unused", NEW status, NEW f
    PROVE  LostStay(r, Register(v, g, status, f))
  BY DEF LostStay, Register, Registries

LEMMA LostChanged ==
    ASSUME NEW r, Sound(r), NEW g, Registered(r, g), NEW a
    PROVE  LostStay(r, [cur |-> g, ref |-> [r.ref EXCEPT ![g] = a]])
<1> DEFINE q == [cur |-> g, ref |-> [r.ref EXCEPT ![g] = a]]
<1>1. q.cur = r.cur /\ \A h \in Gens : h # r.cur => q.ref[h] = r.ref[h]
  BY DEF Registered, Sound, Registries
<1> HIDE DEF q
<1>2. LostStay(r, q)
  BY <1>1 DEF LostStay
<1> QED
  BY <1>2 DEF q

LEMMA LostSetStatus ==
    ASSUME NEW r, Sound(r), NEW g, NEW status \in Statuses
    PROVE  LostStay(r, SetStatus(r, g, status))
<1>1. CASE Registered(r, g) /\ r.ref[g].status # "aborted"
  BY <1>1, StatusSet, LostChanged
<1>2. CASE ~(Registered(r, g) /\ r.ref[g].status # "aborted")
  BY <1>2, LostSame DEF SetStatus
<1> QED
  BY <1>1, <1>2

LEMMA LostAttach ==
    ASSUME NEW r, Sound(r), NEW g, Attachable(r, g), NEW t \in Sessions \cup {None},
           NEW status \in {"running", "idle"}
    PROVE  LostStay(r, SetStatus(Attach(r, g, t), g, status))
  BY SessionAttached, LostChanged DEF Attachable

LEMMA LostDetach ==
    ASSUME NEW r, Sound(r), NEW g, NEW status \in {"parked", "aborted"}
    PROVE  LostStay(r, SetStatus(Detach(r, g), g, status))
<1>1. CASE Registered(r, g)
  BY <1>1, SessionDetached, LostChanged
<1>2. CASE ~Registered(r, g)
  BY <1>2, LostSame DEF Detach, SetStatus
<1> QED
  BY <1>1, <1>2

(* While the process lives, only the ref the id names changes.             *)
LEMMA NextLostStay ==
    ASSUME WInv, [Next]_vars, ~Restart
    PROVE  LostStay(registry, registry')
<1>1. /\ Sound(registry) /\ registry \in Registries /\ IInv
      /\ LostStay(registry, registry)
      /\ \A g : LostStay(registry, Unregister(registry, g))
      /\ \A g : LostStay(registry, Terminal(registry, g))
      /\ \A g : \A status \in Statuses : LostStay(registry, SetStatus(registry, g, status))
      /\ \A g \in Unmade(exec) : registry.ref[g].status = "unused"
  BY QuietBase, LostSame, LostUnregister, LostDetach, LostSetStatus DEF Terminal, WInv
<1>2. CASE ParkStep
  BY <1>1, <1>2, LostDetach
  DEF ParkStep, TimerFires, ParkCommits, ParkGivesUp, ParkDone, Publish, Retired
<1>3. ASSUME NEW s \in Sessions, DisposeDone(s) \/ StartRun(s) \/ EndRun(s)
      PROVE  LostStay(registry, registry')
  BY <1>1, <1>3 DEF DisposeDone, StartRun, EndRun, Reported, Publish, Statuses
<1>4. ASSUME NEW c \in Callers, EnsureStep(c) \/ RevivalStep(c) \/ Forget(c)
      PROVE  LostStay(registry, registry')
  <2>1. CASE RevivalAttaches(c)
    <3>1. /\ Attachable(registry, call[c].gen) /\ call[c].sess \in Sessions \cup {None}
          /\ registry' = SetStatus(Attach(registry, call[c].gen, call[c].sess), call[c].gen, "running")
      BY <1>1, <2>1 DEF RevivalAttaches, Publish, IInv, CallOK, Calls
    <3> QED
      BY <1>1, <3>1, LostAttach
  <2>2. CASE RevivalReturns(c)
    <3>1. /\ call[c].sess \in Sessions \cup {None}
          /\ \/ registry' = registry
             \/ /\ Attachable(registry, call[c].gen)
                /\ registry' = SetStatus(Attach(registry, call[c].gen, call[c].sess), call[c].gen, "idle")
      BY <1>1, <2>2
      DEF RevivalReturns, Publish, Attachable, Claimable, IInv, CallOK, Calls
    <3> QED
      BY <1>1, <3>1, LostAttach
  <2>3. RevivalAttaches(c) \/ RevivalReturns(c) \/ UNCHANGED registry
    BY <1>4
    DEF EnsureStep, EnsureMeetsPark, EnsureKeeps, EnsureFindsLive, EnsureJoins, EnsureRevives,
        EnsureRefuses, Forget, RevivalStep, FactoryReturns, FactoryDeclines, RevivalClaims,
        RevivalFails, RevivalConstructionFails, RevivalStartupFails, RevivalWiringFails,
        RevivalRejected
  <2> QED
    BY <1>1, <2>1, <2>2, <2>3
<1>5. ASSUME NEW g \in Gens, ExecutorStep(g) \/ ScanRegisters(g) \/ \E f \in Files : Spawn(g, f)
      PROVE  LostStay(registry, registry')
  <2>1. CASE (\E f \in Files : Spawn(g, f) \/ SpawnClaims(g, f)) \/ ScanRegisters(g)
    <3>1. \/ registry' = registry
          \/ \E h : registry' = Unregister(registry, h)
          \/ /\ registry.ref[g].status = "unused"
             /\ \E v \in {registry, Unregister(registry, scan.expected)} :
                   \E status, f : registry' = Register(v, g, status, f)
      BY <1>1, <2>1 DEF Spawn, SpawnClaims, ScanRegisters, NextGen, Unmade
    <3>2. /\ Unregister(registry, scan.expected) \in Registries
          /\ Unregister(registry, scan.expected).ref = registry.ref
      BY <1>1 DEF Unregister, Registries
    <3> QED
      BY <1>1, <3>1, <3>2, LostRegister
  <2>2. ASSUME NEW t \in Sessions, SpawnAttaches(g, t) PROVE LostStay(registry, registry')
    BY <1>1, <2>2, LostAttach DEF SpawnAttaches, Publish
  <2>3. CASE \/ ProbeReturns(g) \/ ProbeRefuses(g) \/ SpawnFails(g) \/ SpawnStartupFails(g)
             \/ SpawnReturns(g) \/ ExecutorKeepsAlive(g)
    BY <1>1, <2>3
    DEF ProbeReturns, ProbeRefuses, SpawnFails, SpawnStartupFails, SpawnReturns,
        ExecutorKeepsAlive, Publish, Statuses
  <2> QED
    BY <1>5, <2>1, <2>2, <2>3 DEF ExecutorStep
<1>6. ASSUME NEW k \in Killers,
             \/ \E kind \in KillKinds : Kill(k, kind)
             \/ \E g \in Gens, kind \in KillKinds : ExecutorAborts(g, k, kind)
             \/ ReleaseStep(k)
      PROVE  LostStay(registry, registry')
  <2> DEFINE Changed == \/ registry' = registry
                        \/ \E g : registry' = Terminal(registry, g)
                        \/ \E g : registry' = Unregister(registry, g)
  <2>1. ASSUME NEW g, NEW r, ReleaseCommit(k, g, r) PROVE Changed
    BY <2>1 DEF ReleaseCommit
  <2>2. ASSUME NEW expected, NEW r, ReleaseFrom(k, expected, r) PROVE Changed
    <3>1. registry' = registry \/ \E g, h : ReleaseCommit(k, g, h)
      BY <2>2 DEF ReleaseFrom
    <3> QED
      BY <2>1, <3>1
  <2>3. CASE \/ \E kind \in KillKinds : Kill(k, kind)
             \/ \E g \in Gens, kind \in KillKinds : ExecutorAborts(g, k, kind)
             \/ KillAborted(k)
    <3>1. registry' = registry \/ \E expected, r : ReleaseFrom(k, expected, r)
      BY <2>3 DEF Kill, ExecutorAborts, KillAborted
    <3> QED
      BY <1>1, <2>2, <3>1
  <2>4. CASE ReleaseCommits(k)
    BY <1>1, <2>1, <2>4 DEF ReleaseCommits
  <2>5. CASE (\E ok \in BOOLEAN : TombstonePersisted(k, ok)) \/ ReleaseDisposed(k) \/ ReleaseFinishes(k)
    BY <1>1, <2>5 DEF TombstonePersisted, ReleaseDisposed, ReleaseFinishes, Publish
  <2> QED
    BY <1>6, <2>3, <2>4, <2>5 DEF ReleaseStep
<1>7. CASE (\E f \in Files : ScanStarts(f)) \/ ScanSkips \/ UNCHANGED vars
  BY <1>1, <1>7 DEF ScanStarts, ScanSkips, vars
<1> QED
  BY <1>2, <1>3, <1>4, <1>5, <1>6, <1>7 DEF Next

(* An attached session stays attached. *)
KeepsAttached(r, q) == Attached(r) # None => Attached(q) = Attached(r) /\ q.cur = r.cur

LEMMA AttachedSame == ASSUME NEW r PROVE KeepsAttached(r, r)
  BY DEF KeepsAttached

LEMMA AttachedUnregister ==
    ASSUME NEW r, NEW g, r.cur = g => r.ref[g].session = None
    PROVE  KeepsAttached(r, Unregister(r, g))
  BY DEF KeepsAttached, Unregister, Attached, Registered

LEMMA AttachedSetStatus ==
    ASSUME NEW r, Sound(r), NEW g, NEW status \in {"running", "idle"}
    PROVE  KeepsAttached(r, SetStatus(r, g, status))
<1>1. CASE ~(Registered(r, g) /\ r.ref[g].status # "aborted")
  BY <1>1, AttachedSame DEF SetStatus
<1>2. CASE Registered(r, g) /\ r.ref[g].status # "aborted"
  <2> DEFINE a == [status |-> status, session |-> r.ref[g].session, file |-> r.ref[g].file]
  <2>1. SetStatus(r, g, status) = [cur |-> g, ref |-> [r.ref EXCEPT ![g] = a]]
    BY <1>2, StatusSet DEF Statuses
  <2>2. r.cur = g /\ g # None /\ g \in Gens /\ r.ref \in [Gens -> Refs]
    BY <1>2 DEF Registered, Sound, Registries
  <2>3. a.session = r.ref[g].session
    OBVIOUS
  <2> HIDE DEF a
  <2> QED
    BY <2>1, <2>2, <2>3 DEF KeepsAttached, Attached
<1> QED
  BY <1>1, <1>2

(* What is left behind stays so.                                           *)
LEMMA LeftStays ==
    ASSUME HeldInv, LostStay(registry, registry'), NEW s \in Sessions,
           sess[s].state = "live", sess'[s].gen = sess[s].gen, LeftBehind(s)
    PROVE  LeftBehind(s)'
<1>1. Exists(registry, sess[s].gen) /\ sess[s].gen # None
  BY AgentRegistryAssumption DEF HeldInv, WInv, IInv, SessOK, Exists, None
<1> QED
  BY <1>1 DEF LeftBehind, LostStay, Registered, Exists

(* A step that detaches no session and makes none. *)
LEMMA HeldStep ==
    ASSUME HeldInv, LostStay(registry, registry'), KeepsAttached(registry, registry'),
           \A s \in Sessions : sess'[s].state = "live" => sess[s].state = "live" /\ sess'[s].gen = sess[s].gen,
           \A s \in Sessions : Captive(s) /\ sess'[s].state = "live" => Captive(s)'
    PROVE  Held'
<1> SUFFICES ASSUME NEW s \in Sessions, sess'[s].state = "live"
             PROVE  Reached(s)' \/ Captive(s)' \/ LeftBehind(s)'
  BY DEF Held
<1>1. s # None /\ sess[s].state = "live" /\ sess'[s].gen = sess[s].gen
  BY AgentRegistryAssumption DEF None
<1>2. LeftBehind(s) => LeftBehind(s)'
  BY <1>1, LeftStays
<1> QED
  BY <1>1, <1>2 DEF HeldInv, Held, Reached, KeepsAttached

(* A step that attaches the session s to the detached ref g.               *)
LEMMA HeldAttach ==
    ASSUME HeldInv, LostStay(registry, registry'), NEW g, NEW s \in Sessions, Attachable(registry, g),
           registry.ref[g].session \in {None, s}, NEW status \in {"running", "idle"},
           registry' = SetStatus(Attach(registry, g, s), g, status),
           sess'[s].gen = g,
           \A t \in Sessions : t # s /\ sess'[t].state = "live" => sess'[t] = sess[t],
           rel' = rel
    PROVE  Held'
<1> DEFINE a == [status |-> status, session |-> s, file |-> registry.ref[g].file]
<1>1. registry' = [cur |-> g, ref |-> [registry.ref EXCEPT ![g] = a]]
  BY SessionAttached, QuietBase DEF HeldInv
<1>2. registry.cur = g /\ g # None /\ g \in Gens /\ registry.ref \in [Gens -> Refs]
  BY QuietBase DEF HeldInv, Attachable, Registered, Registries
<1>3. a.session = s
  OBVIOUS
<1> HIDE DEF a
<1>4. Attached(registry') = s /\ registry'.cur = g
  BY <1>1, <1>2, <1>3 DEF Attached
<1> SUFFICES ASSUME NEW t \in Sessions, sess'[t].state = "live"
             PROVE  Reached(t)' \/ Captive(t)' \/ LeftBehind(t)'
  BY DEF Held
<1>5. CASE t = s
  BY <1>4, <1>5 DEF Reached
<1>6. CASE t # s
  <2>1. ~Reached(t)
    BY <1>2, <1>6, AgentRegistryAssumption DEF Reached, Attached, None
  <2>2. sess[t].state = "live" /\ (LeftBehind(t) => LeftBehind(t)')
    BY <1>6, LeftStays
  <2> QED
    BY <1>6, <2>1, <2>2 DEF HeldInv, Held, Captive
<1> QED
  BY <1>5, <1>6

(* The tombstone of a release captures the session it detaches.            *)
LEMMA HeldTerminal ==
    ASSUME HeldInv, LostStay(registry, registry'), NEW g, registry' = Terminal(registry, g) \/ registry' = registry,
           registry' # registry => \E k \in Killers : rel'[k].pc = "persisting" /\ rel'[k].live = Captured(g),
           sess' = sess,
           \A s \in Sessions : Captive(s) => Captive(s)'
    PROVE  Held'
<1>1. CASE registry' = registry
  BY <1>1, HeldStep, AttachedSame
<1>2. CASE registry' # registry
  <2>1. Registered(registry, g)
    BY <1>2 DEF Terminal, Detach, SetStatus
  <2>2. ASSUME NEW s \in Sessions, sess[s].state = "live", Reached(s)
        PROVE  Captive(s)'
    <3>1. Captured(g) = s
      BY <2>1, <2>2, AgentRegistryAssumption DEF Captured, Reached, Attached, Registered, None
    <3> QED
      BY <1>2, <3>1 DEF Captive
  <2>3. \A s \in Sessions : sess[s].state = "live" /\ LeftBehind(s) => LeftBehind(s)'
    BY LeftStays
  <2> QED
    BY <2>2, <2>3 DEF HeldInv, Held
<1> QED
  BY <1>1, <1>2

(* Steps of parks, sessions and callers leave the releases alone.          *)
LEMMA CaptiveStays ==
    ASSUME HeldInv,
           \A k \in Killers :
              \/ rel'[k] = rel[k]
              \/ rel[k].pc = "parking" /\ rel'[k] = [rel[k] EXCEPT !.pc = "commit"]
    PROVE  \A s \in Sessions : Captive(s) => Captive(s)'
  BY DEF Captive

LEMMA HeldBase ==
    ASSUME HeldInv
    PROVE  /\ WInv /\ IInv /\ Sound(registry) /\ registry \in Registries
           /\ sess \in [Sessions -> SessionStates]
           /\ KeepsAttached(registry, registry)
           /\ \A s, t \in Sessions :
                 Disposing(sess, t)[s].state = "live"
                    => s # t /\ sess[s].state = "live" /\ Disposing(sess, t)[s].gen = sess[s].gen
<1>1. WInv /\ IInv /\ sess \in [Sessions -> SessionStates] /\ KeepsAttached(registry, registry)
  BY QuietBase, AttachedSame DEF HeldInv, WInv
<1>2. \A s, t \in Sessions :
         Disposing(sess, t)[s].state = "live"
            => s # t /\ sess[s].state = "live" /\ Disposing(sess, t)[s].gen = sess[s].gen
  BY <1>1 DEF Disposing, SessionStates
<1> QED
  BY <1>1, <1>2, QuietBase

(* A park disposes of the session it detaches. *)
LEMMA ParkHeld == ASSUME HeldInv, LostStay(registry, registry'), ParkStep PROVE Held'
<1>1. \A s \in Sessions : Captive(s) => Captive(s)'
  BY HeldBase, CaptiveStays, OthersLeaveReleases
<1>2. CASE ParkCommits
  <2>1. Attached(registry) = park.sess /\ sess' = Disposing(sess, park.sess) /\ park.sess \in Sessions
    BY <1>2, HeldBase, QuietBase DEF ParkCommits, WInv, ParksInTurn, Parks
  <2> SUFFICES ASSUME NEW s \in Sessions, sess'[s].state = "live"
               PROVE  Captive(s)' \/ LeftBehind(s)'
    BY DEF Held
  <2>2. s # park.sess /\ sess[s].state = "live" /\ sess'[s].gen = sess[s].gen
    BY <2>1, HeldBase
  <2>3. LeftBehind(s) => LeftBehind(s)'
    BY <2>2, LeftStays
  <2> QED
    BY <1>1, <2>1, <2>2, <2>3 DEF HeldInv, Held, Reached
<1>3. CASE TimerFires \/ ParkGivesUp \/ ParkDone
  <2>1. UNCHANGED <<registry, sess>>
    BY <1>3 DEF TimerFires, ParkGivesUp, ParkDone
  <2> QED
    BY <1>1, <2>1, HeldBase, HeldStep
<1> QED
  BY <1>2, <1>3 DEF ParkStep

(* The session whose dispose ends is the last of its ref.                  *)
LEMMA SessionHeld ==
    ASSUME HeldInv, LostStay(registry, registry'), NEW s \in Sessions, DisposeDone(s) \/ StartRun(s) \/ EndRun(s)
    PROVE  Held'
<1>1. \A t \in Sessions : Captive(t) => Captive(t)'
  BY HeldBase, CaptiveStays, OthersLeaveReleases
<1>2. CASE DisposeDone(s)
  <2> DEFINE g == sess[s].gen
  <2>1. /\ sess[s].state = "disposing" /\ g \in Gens
        /\ sess' = [sess EXCEPT ![s] = [@ EXCEPT !.state = "disposed", !.run = FALSE]]
        /\ registry' = registry \/ registry' = Unregister(registry, g)
    BY <1>2, HeldBase DEF DisposeDone, Publish, IInv, SessOK, Exists
  <2>2. \A t \in Sessions : sess'[t].state = "live" => t # s /\ sess'[t] = sess[t]
    BY <2>1, HeldBase DEF SessionStates
  <2> SUFFICES ASSUME NEW t \in Sessions, sess'[t].state = "live"
               PROVE  Reached(t)' \/ Captive(t)' \/ LeftBehind(t)'
    BY DEF Held
  <2>3. sess[t].gen # g
    BY <2>1, <2>2, HeldBase DEF WInv, Writers, OneActive, Active
  <2>4. registry.cur # g => registry' = registry
    BY <2>1 DEF Unregister, Registered
  <2>5. LeftBehind(t) => LeftBehind(t)'
    BY <2>2, LeftStays
  <2> QED
    BY <1>1, <2>2, <2>3, <2>4, <2>5 DEF HeldInv, Held, Reached
<1>3. CASE StartRun(s) \/ EndRun(s)
  <2>1. KeepsAttached(registry, registry')
    BY <1>3, HeldBase, AttachedSetStatus DEF StartRun, EndRun, Reported, Publish
  <2>2. \A t \in Sessions : sess'[t].state = "live" => sess[t].state = "live" /\ sess'[t].gen = sess[t].gen
    BY <1>3, HeldBase DEF StartRun, EndRun, SessionStates
  <2> QED
    BY <1>1, <2>1, <2>2, HeldStep
<1> QED
  BY <1>2, <1>3

LEMMA CallHeld ==
    ASSUME HeldInv, LostStay(registry, registry'), NEW c \in Callers, EnsureStep(c) \/ RevivalStep(c) \/ Forget(c)
    PROVE  Held'
<1> DEFINE g == call[c].gen
           s == call[c].sess
<1>1. \A t \in Sessions : Captive(t) => Captive(t)'
  BY HeldBase, CaptiveStays, OthersLeaveReleases
<1>2. ASSUME UNCHANGED registry,
             \A t \in Sessions : sess'[t].state = "live" => sess[t].state = "live" /\ sess'[t].gen = sess[t].gen
      PROVE  Held'
  BY <1>1, <1>2, HeldBase, HeldStep
<1>3. CASE EnsureStep(c) \/ Forget(c) \/ FactoryReturns(c) \/ FactoryDeclines(c)
           \/ RevivalFails(c) \/ RevivalWiringFails(c) \/ RevivalRejected(c)
  <2>1. UNCHANGED <<registry, sess>>
    BY <1>3
    DEF EnsureStep, EnsureMeetsPark, EnsureKeeps, EnsureFindsLive, EnsureJoins, EnsureRevives,
        EnsureRefuses, Forget, FactoryReturns, FactoryDeclines, RevivalFails, RevivalWiringFails,
        RevivalRejected
  <2> QED
    BY <1>2, <2>1
<1>4. ASSUME NEW t \in Sessions, RevivalClaims(c, t) PROVE Held'
  BY <1>2, <1>4, HeldBase DEF RevivalClaims, SessionStates
<1>5. CASE RevivalConstructionFails(c)
  BY <1>2, <1>5, HeldBase DEF RevivalConstructionFails, SessionStates
<1>6. call[c].pc \in {"constructing", "wiring"} =>
         s \in Sessions /\ sess[s].gen = g
  BY HeldBase DEF WInv, Writers, RevivalWrites, Making
<1>7. CASE RevivalStartupFails(c)
  BY <1>2, <1>6, <1>7, HeldBase DEF RevivalStartupFails
<1>8. CASE RevivalAttaches(c)
  <2>1. /\ call[c].pc = "constructing" /\ Attachable(registry, g)
        /\ registry' = SetStatus(Attach(registry, g, s), g, "running")
        /\ sess' = [sess EXCEPT ![s].state = "live"] /\ rel' = rel
    BY <1>8 DEF RevivalAttaches, Publish
  <2>2. registry.ref[g].session = None
    BY <2>1, HeldBase DEF Attachable, Registered, WInv, RevivedDetached
  <2>3. sess'[s].gen = g /\ \A t \in Sessions : t # s => sess'[t] = sess[t]
    BY <1>6, <2>1, HeldBase DEF SessionStates
  <2> QED
    BY <1>6, <2>1, <2>2, <2>3, HeldAttach
<1>9. CASE RevivalReturns(c)
  <2> DEFINE synced == [sess EXCEPT ![s].synced = TRUE]
  <2>1. call[c].pc = "wiring" /\ rel' = rel /\ s \in Sessions /\ sess[s].gen = g
    BY <1>6, <1>9 DEF RevivalReturns
  <2>2. /\ synced[s].gen = g /\ synced[s].state = sess[s].state
        /\ \A t \in Sessions : t # s => synced[t] = sess[t]
        /\ synced \in [Sessions -> SessionStates]
    BY <2>1, HeldBase DEF SessionStates
  <2>3. \/ /\ \/ Claimable(registry, g)
              \/ Registered(registry, g) /\ registry.ref[g].status = "running"
                 /\ registry.ref[g].session = s
           /\ registry' = SetStatus(Attach(registry, g, s), g, "idle")
           /\ sess' = synced
        \/ UNCHANGED registry /\ sess' = Disposing(synced, s)
    BY <1>9 DEF RevivalReturns, Publish
  <2> HIDE DEF synced
  <2>4. CASE UNCHANGED registry /\ sess' = Disposing(synced, s)
    <3>1. \A t \in Sessions : sess'[t].state = "live" => t # s /\ sess'[t] = synced[t]
      BY <2>1, <2>2, <2>4 DEF Disposing, SessionStates
    <3> QED
      BY <1>2, <2>2, <2>4, <3>1
  <2>5. CASE /\ \/ Claimable(registry, g)
                \/ Registered(registry, g) /\ registry.ref[g].status = "running"
                   /\ registry.ref[g].session = s
             /\ registry' = SetStatus(Attach(registry, g, s), g, "idle")
             /\ sess' = synced
    <3>1. Attachable(registry, g) /\ registry.ref[g].session \in {None, s}
      BY <2>5 DEF Claimable, Attachable
    <3> QED
      BY <2>1, <2>2, <2>5, <3>1, HeldAttach
  <2> QED
    BY <2>3, <2>4, <2>5
<1> QED
  BY <1>3, <1>4, <1>5, <1>7, <1>8, <1>9 DEF RevivalStep

(* Only refs without a session lose the id to a new one.                   *)
LEMMA ExecutorHeld ==
    ASSUME HeldInv, LostStay(registry, registry'), NEW g \in Gens,
           ExecutorStep(g) \/ ScanRegisters(g) \/ \E f \in Files : Spawn(g, f)
    PROVE  Held'
<1>1. \A t \in Sessions : Captive(t) => Captive(t)'
  BY HeldBase, CaptiveStays, OthersLeaveReleases
<1>2. ASSUME KeepsAttached(registry, registry'),
             sess' = sess \/ (\E t \in Sessions : sess' = Disposing(sess, t))
             \/ (\E t \in Sessions : sess' = [sess EXCEPT ![t].synced = TRUE])
      PROVE  Held'
  <2>1. \A t \in Sessions : sess'[t].state = "live" => sess[t].state = "live" /\ sess'[t].gen = sess[t].gen
    BY <1>2, HeldBase DEF SessionStates
  <2> QED
    BY <1>1, <1>2, <2>1, HeldStep
<1>3. \A h : Corpse(h) => KeepsAttached(registry, Unregister(registry, h))
  BY AttachedUnregister DEF Corpse, Claimable, Registered
<1>4. registry.cur = None \/ Claimable(registry, registry.cur) => Attached(registry) = None
  BY DEF Attached, Claimable
<1>5. (\E t : sess' = Disposing(sess, t)) =>
         sess' = sess \/ (\E t \in Sessions : sess' = Disposing(sess, t))
  BY HeldBase DEF Disposing
<1>6. CASE (\E f \in Files : Spawn(g, f) \/ SpawnClaims(g, f)) \/ ProbeReturns(g) \/ ProbeRefuses(g)
  <2>1. KeepsAttached(registry, registry')
    BY <1>3, <1>4, <1>6, HeldBase DEF Spawn, SpawnClaims, ProbeReturns, ProbeRefuses, KeepsAttached
  <2>2. sess' = sess
    BY <1>6 DEF Spawn, SpawnClaims, ProbeReturns, ProbeRefuses
  <2> QED
    BY <1>2, <2>1, <2>2
<1>7. CASE ScanRegisters(g)
  <2>1. registry.cur = None \/ Claimable(registry, registry.cur)
    BY <1>7 DEF ScanRegisters
  <2>2. KeepsAttached(registry, registry') /\ sess' = sess
    BY <1>4, <1>7, <2>1 DEF ScanRegisters, KeepsAttached
  <2> QED
    BY <1>2, <2>2
<1>8. ASSUME NEW s \in Sessions, SpawnAttaches(g, s) PROVE Held'
  <2>1. /\ exec[g].pc = "constructing" /\ Attachable(registry, g)
        /\ registry' = SetStatus(Attach(registry, g, s), g, "running")
        /\ sess' = [sess EXCEPT ![s] = [@ EXCEPT !.state = "live", !.gen = g]] /\ rel' = rel
    BY <1>8 DEF SpawnAttaches, Publish
  <2>2. registry.ref[g].session = None
    BY <2>1, HeldBase DEF WInv, NewRefs
  <2>3. sess'[s].gen = g /\ \A t \in Sessions : t # s => sess'[t] = sess[t]
    BY <2>1, HeldBase DEF SessionStates
  <2> QED
    BY <2>1, <2>2, <2>3, HeldAttach
<1>9. CASE SpawnFails(g)
  <2>1. /\ registry.ref[g].session = None /\ sess' = sess
        /\ registry' = registry \/ registry' = Unregister(registry, g)
    BY <1>9, HeldBase DEF SpawnFails, Publish, WInv, NewRefs
  <2>2. KeepsAttached(registry, registry')
    BY <2>1, HeldBase, AttachedUnregister
  <2> QED
    BY <1>2, <2>1, <2>2
<1>10. CASE SpawnStartupFails(g)
  BY <1>2, <1>5, <1>10, HeldBase DEF SpawnStartupFails
<1>11. CASE SpawnReturns(g)
  <2>1. registry' = registry /\ sess' = [sess EXCEPT ![exec[g].sess].synced = TRUE]
    BY <1>11 DEF SpawnReturns
  <2>2. exec[g].sess \notin Sessions => sess' = sess
    BY <2>1, HeldBase
  <2> QED
    BY <1>2, <2>1, <2>2, HeldBase
<1>12. CASE ExecutorKeepsAlive(g)
  <2>1. KeepsAttached(registry, registry')
    BY <1>12, HeldBase, AttachedSetStatus DEF ExecutorKeepsAlive
  <2>2. sess' = sess \/ \E t : sess' = Disposing(sess, t)
    BY <1>12 DEF ExecutorKeepsAlive
  <2> QED
    BY <1>2, <1>5, <2>1, <2>2
<1> QED
  BY <1>6, <1>7, <1>8, <1>9, <1>10, <1>11, <1>12 DEF ExecutorStep

(* The steps of a release.  The commit of a kill detaches the session into *)
(* the hands of the release, which disposes of it once the sidecar is      *)
(* written; a plain release that returns leaves behind what is attached.   *)
LEMMA ReleaseHeld ==
    ASSUME HeldInv, LostStay(registry, registry'), NEW k \in Killers,
           \/ \E kind \in KillKinds : Kill(k, kind)
           \/ \E g \in Gens, kind \in KillKinds : ExecutorAborts(g, k, kind)
           \/ ReleaseStep(k)
    PROVE  Held'
<1>1. /\ IInv /\ rel \in [Killers -> Releases]
      /\ Sound(registry) /\ sess \in [Sessions -> SessionStates]
  BY HeldBase DEF IInv, RelOK
<1>2. ASSUME \A j \in Killers : j # k => rel'[j] = rel[j], rel[k].pc # "persisting"
      PROVE  \A s \in Sessions : Captive(s) => Captive(s)'
  BY <1>2 DEF Captive
(* The release k is committed: a kill captures, a plain one disposes.      *)
<1>3. ASSUME NEW g, Exists(registry, g), NEW r \in Releases, ReleaseCommit(k, g, r),
             rel[k].pc # "persisting"
      PROVE  Held'
  <2>1. /\ \A j \in Killers : j # k => rel'[j] = rel[j]
        /\ r.kind \in Tombstones => rel'[k].pc = "persisting" /\ rel'[k].live = Captured(g)
    BY <1>1, <1>3, CommitRecord
  <2>2. CASE r.kind \in Tombstones
    <3>1. registry' = Terminal(registry, g) /\ sess' = sess
      BY <1>3, <2>2 DEF ReleaseCommit
    <3> QED
      BY <1>2, <1>3, <2>1, <2>2, <3>1, HeldTerminal
  <2>3. CASE r.kind \notin Tombstones
    <3>1. registry' = registry /\ sess' \in {sess, Disposing(sess, Captured(g))}
          /\ (sess' = sess \/ Captured(g) # None)
      BY <1>3, <2>3 DEF ReleaseCommit
    <3>2. Captured(g) \in Sessions \cup {None}
      BY <1>1, <1>3 DEF Captured, Exists, Sound, Registries, Refs
    <3>3. \A s \in Sessions : sess'[s].state = "live" =>
             sess[s].state = "live" /\ sess'[s].gen = sess[s].gen
      BY <3>1, <3>2, HeldBase
    <3> QED
      BY <1>2, <1>3, <2>1, <3>1, <3>3, HeldBase, HeldStep
  <2> QED
    BY <2>2, <2>3
(* The release k begins, or goes on after its abort.                       *)
<1>4. ASSUME NEW r \in Releases, NEW expected, ReleaseFrom(k, expected, r),
             rel[k].pc # "persisting"
      PROVE  Held'
  <2> DEFINE g == CASE Matches(registry.cur, expected) -> registry.cur
                    [] /\ ~Matches(registry.cur, expected)
                       /\ Matches(adopted.gen, expected)  -> adopted.gen
                    [] OTHER                              -> None
             hooked == [r EXCEPT !.hook = adopted.gen = g /\ registry.ref[g].file \in Isolated]
  <2>1. g # None => Exists(registry, g)
    BY <1>1 DEF Matches, IInv, Sound, AdoptedOK
  <2>2. hooked \in Releases
    BY DEF Releases
  <2>3. \/ UNCHANGED <<registry, sess>>
        \/ g # None /\ ReleaseCommit(k, g, hooked)
    BY <1>4 DEF ReleaseFrom
  <2>4. \A j \in Killers : j # k => rel'[j] = rel[j]
    BY <1>1, <1>4, FromRecord
  <2> HIDE DEF g, hooked
  <2> QED
    BY <1>2, <1>3, <1>4, <2>1, <2>2, <2>3, <2>4, HeldBase, HeldStep
<1>5. ASSUME NEW kind \in KillKinds, Kill(k, kind) PROVE Held'
  <2> DEFINE r == [IdleRelease EXCEPT !.kind = kind, !.target = registry.cur]
             expected == IF kind = "hubKill" THEN registry.cur ELSE None
  <2>1. registry.cur \in Gens /\ rel[k].pc = "idle"
    BY <1>1, <1>5 DEF Kill, Sound, Exists
  <2>2. r \in Releases
    BY <2>1, RequestMade
  <2>3. \/ rel' = [rel EXCEPT ![k] = [r EXCEPT !.pc = "aborting"]] /\ UNCHANGED <<registry, sess>>
        \/ ReleaseFrom(k, expected, r)
    BY <1>5 DEF Kill
  <2> HIDE DEF r, expected
  <2>4. CASE ReleaseFrom(k, expected, r)
    BY <1>4, <2>1, <2>2, <2>4
  <2>5. CASE rel' = [rel EXCEPT ![k] = [r EXCEPT !.pc = "aborting"]] /\ UNCHANGED <<registry, sess>>
    BY <1>1, <1>2, <2>1, <2>5, HeldBase, HeldStep
  <2> QED
    BY <2>3, <2>4, <2>5
<1>6. CASE KillAborted(k)
  <2>1. rel[k] \in Releases /\ rel[k].pc = "aborting" /\ \E expected : ReleaseFrom(k, expected, rel[k])
    BY <1>1, <1>6 DEF KillAborted
  <2> QED
    BY <1>4, <2>1
<1>7. ASSUME NEW g \in Gens, NEW kind \in KillKinds, ExecutorAborts(g, k, kind) PROVE Held'
  <2> DEFINE r == [IdleRelease EXCEPT !.kind = kind, !.target = g]
  <2>1. r \in Releases
    BY RequestMade
  <2>2. \/ ReleaseFrom(k, g, r) /\ rel[k].pc = "idle"
        \/ sess' = Disposing(sess, exec[g].sess) /\ UNCHANGED <<registry, rel>>
    BY <1>7 DEF ExecutorAborts
  <2> HIDE DEF r
  <2>3. CASE ReleaseFrom(k, g, r) /\ rel[k].pc = "idle"
    BY <1>4, <2>1, <2>3
  <2>4. CASE sess' = Disposing(sess, exec[g].sess) /\ UNCHANGED <<registry, rel>>
    <3>1. \A s \in Sessions : sess'[s].state = "live" => sess[s].state = "live" /\ sess'[s].gen = sess[s].gen
      BY <1>1, <2>4 DEF Disposing, SessionStates
    <3> QED
      BY <2>4, <3>1, HeldBase, HeldStep DEF Captive
  <2> QED
    BY <2>2, <2>3, <2>4
<1>8. CASE ReleaseCommits(k)
  <2>1. /\ Exists(registry, rel[k].gen) /\ rel[k].pc = "commit"
        /\ rel[k] \in Releases /\ ReleaseCommit(k, rel[k].gen, rel[k])
    BY <1>1, <1>8 DEF ReleaseCommits, IInv, RelOK
  <2> QED
    BY <1>3, <2>1
<1>9. ASSUME NEW ok \in BOOLEAN, TombstonePersisted(k, ok) PROVE Held'
  <2>1. /\ registry' = registry
        /\ sess' = IF rel[k].live = None THEN sess ELSE Disposing(sess, rel[k].live)
        /\ \A j \in Killers : j # k => rel'[j] = rel[j]
        /\ rel[k].live \in Sessions \cup {None}
    BY <1>1, <1>9 DEF TombstonePersisted, Releases
  <2>2. \A s \in Sessions : sess'[s].state = "live" =>
           s # rel[k].live /\ sess[s].state = "live" /\ sess'[s].gen = sess[s].gen
    BY <2>1, HeldBase, AgentRegistryAssumption DEF None
  <2>3. \A s \in Sessions : Captive(s) /\ sess'[s].state = "live" => Captive(s)'
    BY <2>1, <2>2 DEF Captive
  <2> QED
    BY <2>1, <2>2, <2>3, HeldBase, HeldStep
<1>10. CASE ReleaseDisposed(k)
  <2>1. /\ UNCHANGED <<registry, sess>> /\ rel[k].pc # "persisting"
        /\ \A j \in Killers : j # k => rel'[j] = rel[j]
    BY <1>1, <1>10 DEF ReleaseDisposed
  <2> QED
    BY <1>2, <2>1, HeldBase, HeldStep
<1>11. CASE ReleaseFinishes(k)
  <2> DEFINE g == rel[k].gen
  <2>1. /\ sess' = sess /\ rel[k].pc # "persisting"
        /\ \A j \in Killers : j # k => rel'[j] = rel[j]
        /\ registry' = registry \/ (Registered(registry, g) /\ registry' = Unregister(registry, g))
    BY <1>1, <1>11 DEF ReleaseFinishes, Publish, Unregister
  <2>2. CASE registry' = registry
    BY <1>2, <2>1, <2>2, HeldBase, HeldStep
  <2>3. CASE Registered(registry, g) /\ registry' = Unregister(registry, g)
    <3>1. registry'.cur = None /\ registry'.ref = registry.ref
      BY <1>1, <2>3 DEF Unregister, Sound, Registries
    <3>2. ASSUME NEW s \in Sessions, Reached(s) PROVE LeftBehind(s)'
      BY <2>1, <3>1, <3>2, AgentRegistryAssumption
      DEF Reached, LeftBehind, Attached, Registered, None
    <3>3. \A s \in Sessions : sess[s].state = "live" /\ LeftBehind(s) => LeftBehind(s)'
      BY <2>1, LeftStays
    <3> QED
      BY <1>2, <2>1, <3>2, <3>3 DEF HeldInv, Held
  <2> QED
    BY <2>1, <2>2, <2>3
<1> QED
  BY <1>5, <1>6, <1>7, <1>8, <1>9, <1>10, <1>11 DEF ReleaseStep

LEMMA NextHeldInv == HeldInv /\ [Next]_vars => HeldInv'
<1> SUFFICES ASSUME HeldInv, [Next]_vars PROVE Held'
  BY NextWInv DEF HeldInv
<1>0. ~Restart => LostStay(registry, registry')
  BY NextLostStay DEF HeldInv
<1> SUFFICES ASSUME ~Restart PROVE Held'
  BY DEF Restart, Held, NoSession
<1>1. CASE ParkStep
  BY <1>0, <1>1, ParkHeld
<1>2. ASSUME NEW s \in Sessions, DisposeDone(s) \/ StartRun(s) \/ EndRun(s) PROVE Held'
  BY <1>0, <1>2, SessionHeld
<1>3. ASSUME NEW c \in Callers, EnsureStep(c) \/ RevivalStep(c) \/ Forget(c) PROVE Held'
  BY <1>0, <1>3, CallHeld
<1>4. ASSUME NEW g \in Gens, ExecutorStep(g) \/ ScanRegisters(g) \/ \E f \in Files : Spawn(g, f)
      PROVE  Held'
  BY <1>0, <1>4, ExecutorHeld
<1>5. ASSUME NEW k \in Killers,
             \/ \E kind \in KillKinds : Kill(k, kind)
             \/ \E g \in Gens, kind \in KillKinds : ExecutorAborts(g, k, kind)
             \/ ReleaseStep(k)
      PROVE  Held'
  BY <1>0, <1>5, ReleaseHeld
<1>6. CASE (\E f \in Files : ScanStarts(f)) \/ ScanSkips \/ UNCHANGED vars
  <2>1. UNCHANGED <<registry, sess, rel>>
    BY <1>6 DEF ScanStarts, ScanSkips, vars
  <2> QED
    BY <1>0, <2>1, HeldBase, HeldStep DEF Captive
<1> QED
  BY <1>1, <1>2, <1>3, <1>4, <1>5, <1>6 DEF Next

(* No live session is out of reach but one that a plain release left       *)
(* behind on the ref it forgot: the ref the id names has it, or the        *)
(* release that captured it is about to dispose of it.                     *)
THEOREM OnlyForgottenEscapes == Spec => []OnlyForgottenEscape
<1>1. Init => HeldInv
  BY InitIInv, FreshWrites DEF Init, HeldInv, Held, NoSession
<1>2. HeldInv => OnlyForgottenEscape
  BY DEF HeldInv, Held, Reached, Captive, OnlyForgottenEscape, InHand
<1>3. HeldInv /\ [Next]_vars => HeldInv'
  BY NextHeldInv
<1> QED
  BY <1>1, <1>2, <1>3, PTL DEF Spec
-----------------------------------------------------------------------------
(***************************************************************************)
(* Stale work.  Every step of a park, a release, a revival, a dispose or   *)
(* an executor publishes through the ref it is bound to, and drops or      *)
(* makes the adoption of that ref only.  Whoever adopts without another    *)
(* look at the id is the return of a reviver factory, and only that.       *)
(***************************************************************************)

(* q differs from r in the ref g at most, which may lose the id.           *)
Through(r, q, g) ==
    /\ q.cur = r.cur \/ (r.cur = g /\ g # None /\ q.cur = None)
    /\ \A h \in Gens : h # g => q.ref[h] = r.ref[h]

LEMMA ThroughSame == ASSUME NEW r, NEW g PROVE Through(r, r, g)
  BY DEF Through

LEMMA ThroughUnregister == ASSUME NEW r, Sound(r), NEW g PROVE Through(r, Unregister(r, g), g)
  BY DEF Through, Unregister, Registered, Sound, Registries

LEMMA ThroughSetStatus ==
    ASSUME NEW r, Sound(r), NEW g, NEW status PROVE Through(r, SetStatus(r, g, status), g)
  BY DEF Through, SetStatus, Sound, Registries

LEMMA ThroughAttach ==
    ASSUME NEW r, Sound(r), NEW g, NEW s, NEW status
    PROVE  Through(r, SetStatus(Attach(r, g, s), g, status), g)
<1> DEFINE q == Attach(r, g, s)
<1>1. q.cur = r.cur /\ \A h \in Gens : h # g => q.ref[h] = r.ref[h]
  BY DEF Attach, Sound, Registries
<1>2. q = [cur |-> q.cur, ref |-> q.ref] /\ q.ref = [h \in Gens |-> q.ref[h]]
  BY DEF Attach, Sound, Registries
<1> HIDE DEF q
<1>3. /\ [q EXCEPT !.ref[g].status = status].cur = q.cur
      /\ \A h \in Gens : h # g => [q EXCEPT !.ref[g].status = status].ref[h] = q.ref[h]
  BY <1>2
<1>4. Through(r, SetStatus(q, g, status), g)
  BY <1>1, <1>3 DEF Through, SetStatus
<1> QED
  BY <1>4 DEF q

LEMMA ThroughDetach ==
    ASSUME NEW r, Sound(r), NEW g, NEW status
    PROVE  Through(r, SetStatus(Detach(r, g), g, status), g)
<1> DEFINE q == Detach(r, g)
<1>1. q.cur = r.cur /\ \A h \in Gens : h # g => q.ref[h] = r.ref[h]
  BY DEF Detach, Sound, Registries
<1>2. q = [cur |-> q.cur, ref |-> q.ref] /\ q.ref = [h \in Gens |-> q.ref[h]]
  BY DEF Detach, Sound, Registries
<1> HIDE DEF q
<1>3. /\ [q EXCEPT !.ref[g].status = status].cur = q.cur
      /\ \A h \in Gens : h # g => [q EXCEPT !.ref[g].status = status].ref[h] = q.ref[h]
  BY <1>2
<1>4. Through(r, SetStatus(q, g, status), g)
  BY <1>1, <1>3 DEF Through, SetStatus
<1> QED
  BY <1>4 DEF q

(* A step that is bound to the ref g. *)
BoundTo(g) ==
    /\ Through(registry, registry', g)
    /\ adopted.gen # g => adopted' = adopted

LEMMA PublishBound ==
    ASSUME NEW q, NEW g, Through(registry, q, g), Publish(q, g)
    PROVE  BoundTo(g)
  BY DEF Publish, OnRegistryEvent, BoundTo

LEMMA UnchangedBound ==
    ASSUME UNCHANGED <<registry, adopted>>, NEW g
    PROVE  BoundTo(g)
  BY ThroughSame DEF BoundTo

LEMMA BoundHarmless ==
    ASSUME IInv, NEW g \in Gens \cup {None}, BoundTo(g)
    PROVE  UntouchedAfter(g)
<1> SUFFICES ASSUME NEW h \in Gens, h > g
             PROVE  /\ registry'.ref[h] = registry.ref[h]
                    /\ registry.cur = h => registry'.cur = h
                    /\ adopted.gen = h => adopted' = adopted
  BY DEF UntouchedAfter
<1>1. h # g
  BY AgentRegistryAssumption DEF None
<1> QED
  BY <1>1 DEF BoundTo, Through
-----------------------------------------------------------------------------
(* The steps that StaleWorkIsHarmless is about. *)
Harmless ==
    /\ park.pc # "none" /\ park' # park
          => UntouchedAfter(park.gen)
    /\ \A k \in Killers : rel[k].pc \notin {"idle", "aborting"} /\ rel'[k] # rel[k]
          => UntouchedAfter(rel[k].gen)
    /\ \A c \in Callers : InRevival(c) /\ call'[c] # call[c] /\ ~FactoryReturns(c)
          => UntouchedAfter(call[c].gen)
    /\ \A s \in Sessions : sess[s].state = "disposing" /\ sess'[s].state = "disposed"
          => UntouchedAfter(sess[s].gen)
    /\ \A g \in Gens : exec[g].pc \in {"constructing", "wiring", "running"} /\ exec'[g] # exec[g]
          => UntouchedAfter(g)

(* A step that publishes nothing. *)
LEMMA NothingTouched ==
    ASSUME WInv, UNCHANGED <<registry, adopted>>
    PROVE  Harmless
<1>1. \A g : UntouchedAfter(g)
  BY DEF UntouchedAfter
<1> QED
  BY <1>1 DEF Harmless

(* A step in which only what is bound to g goes on. *)
LEMMA OneTouched ==
    ASSUME WInv, NEW g \in Gens \cup {None}, BoundTo(g),
           park.pc # "none" /\ park' # park => park.gen = g,
           \A k \in Killers : rel[k].pc \notin {"idle", "aborting"} /\ rel'[k] # rel[k]
              => rel[k].gen = g,
           \A c \in Callers : InRevival(c) /\ call'[c] # call[c] => call[c].gen = g,
           \A s \in Sessions : sess[s].state = "disposing" /\ sess'[s].state = "disposed"
              => sess[s].gen = g,
           \A h \in Gens : exec[h].pc \in {"constructing", "wiring", "running"} /\ exec'[h] # exec[h]
              => h = g
    PROVE  Harmless
  BY BoundHarmless DEF Harmless, WInv

LEMMA StaleBase ==
    ASSUME WInv
    PROVE  /\ WInv /\ IInv /\ Sound(registry) /\ registry \in Registries
           /\ adopted \in Adoptions /\ park \in Parks
           /\ sess \in [Sessions -> SessionStates] /\ exec \in [Gens -> Executors]
           /\ call \in [Callers -> Calls] /\ rel \in [Killers -> Releases]
           /\ adopted.gen \in Gens \cup {None} /\ park.gen \in Gens \cup {None}
           /\ \A c \in Callers : call[c].gen \in Gens \cup {None}
           /\ \A k \in Killers : rel[k].gen \in Gens \cup {None}
           /\ \A s \in Sessions : sess[s].gen \in Gens \cup {None}
           /\ \A s : \A t \in Sessions :
                Disposing(sess, s)[t].state = "disposed" => sess[t].state = "disposed"
<1>1. WInv /\ IInv /\ Sound(registry) /\ registry \in Registries
  BY DEF WInv, IInv, Sound
<1>2. /\ adopted \in Adoptions /\ park \in Parks
      /\ sess \in [Sessions -> SessionStates] /\ exec \in [Gens -> Executors]
      /\ call \in [Callers -> Calls] /\ rel \in [Killers -> Releases]
  BY <1>1 DEF IInv, AdoptedOK, SessOK, CallOK, RelOK
<1>3. /\ adopted.gen \in Gens \cup {None} /\ park.gen \in Gens \cup {None}
      /\ \A c \in Callers : call[c].gen \in Gens \cup {None}
      /\ \A k \in Killers : rel[k].gen \in Gens \cup {None}
      /\ \A s \in Sessions : sess[s].gen \in Gens \cup {None}
  BY <1>2 DEF Adoptions, Parks, Calls, Releases, SessionStates
<1>4. \A s : \A t \in Sessions : Disposing(sess, s)[t].state = "disposed" => sess[t].state = "disposed"
  BY <1>2 DEF Disposing, SessionStates
<1> QED
  BY <1>1, <1>2, <1>3, <1>4

(* Parks. *)
LEMMA ParkHarmless == ASSUME WInv, ParkStep PROVE Harmless
<1>1. CASE TimerFires
  <2>1. /\ UNCHANGED <<registry, sess, call, rel, exec>>
        /\ park.pc # "none" => park' = park
        /\ adopted' = [adopted EXCEPT !.timer = FALSE]
    BY <1>1 DEF TimerFires
  <2>2. BoundTo(adopted.gen)
    BY <2>1, ThroughSame DEF BoundTo
  <2> QED
    BY <2>1, <2>2, StaleBase, OneTouched
<1>2. CASE ParkCommits
  <2>1. /\ Publish(Retired(registry, park.gen), park.gen)
        /\ sess' = Disposing(sess, park.sess) /\ UNCHANGED <<call, rel, exec>>
    BY <1>2 DEF ParkCommits
  <2>2. Through(registry, Retired(registry, park.gen), park.gen)
    BY StaleBase, ThroughDetach DEF Retired
  <2> QED
    BY <2>1, <2>2, StaleBase, PublishBound, OneTouched
<1>3. CASE ParkGivesUp \/ ParkDone
  BY <1>3, NothingTouched DEF ParkGivesUp, ParkDone
<1> QED
  BY <1>1, <1>2, <1>3 DEF ParkStep

(* Sessions. *)
LEMMA SessionHarmless ==
    ASSUME WInv, NEW s \in Sessions, DisposeDone(s) \/ StartRun(s) \/ EndRun(s)
    PROVE  Harmless
<1>1. CASE DisposeDone(s)
  <2> DEFINE g == sess[s].gen
  <2>1. /\ \E q \in {registry, Unregister(registry, g)} : Publish(q, g)
        /\ sess' = [sess EXCEPT ![s] = [@ EXCEPT !.state = "disposed", !.run = FALSE]]
        /\ UNCHANGED <<park, call, rel, exec>>
    BY <1>1 DEF DisposeDone
  <2>2. \A q \in {registry, Unregister(registry, g)} : Through(registry, q, g)
    BY StaleBase, ThroughSame, ThroughUnregister
  <2>3. \A t \in Sessions : t # s => sess'[t] = sess[t]
    BY <2>1
  <2> QED
    BY <2>1, <2>2, <2>3, StaleBase, PublishBound, OneTouched
<1>2. CASE StartRun(s) \/ EndRun(s)
  <2> DEFINE g == OwnerOf(registry, s)
  <2>1. /\ UNCHANGED <<park, call, rel, exec>>
        /\ \E b \in BOOLEAN : sess' = [sess EXCEPT ![s].run = b]
        /\ \/ UNCHANGED <<registry, adopted>>
           \/ \E status : Publish(SetStatus(registry, g, status), g)
    BY <1>2 DEF StartRun, EndRun, Reported
  <2>2. \A status : Through(registry, SetStatus(registry, g, status), g)
    BY StaleBase, ThroughSetStatus
  <2>3. \A t \in Sessions : sess'[t].state = sess[t].state
    BY <2>1, StaleBase DEF SessionStates
  <2>4. g \in Gens \cup {None}
    BY StaleBase DEF OwnerOf, Registries
  <2>5. CASE UNCHANGED <<registry, adopted>>
    BY <2>5, NothingTouched
  <2>6. ASSUME NEW status, Publish(SetStatus(registry, g, status), g)
        PROVE  Harmless
    BY <2>1, <2>2, <2>3, <2>4, <2>6, StaleBase, PublishBound, OneTouched
  <2> QED
    BY <2>1, <2>5, <2>6
<1> QED
  BY <1>1, <1>2

(* Calls of ensureLive() and the revivals they start. *)
LEMMA CallHarmless ==
    ASSUME WInv, NEW c \in Callers, EnsureStep(c) \/ RevivalStep(c) \/ Forget(c)
    PROVE  Harmless
<1> DEFINE g == call[c].gen
<1>1. UNCHANGED <<rel, exec>>
  BY DEF EnsureStep, EnsureMeetsPark, EnsureKeeps, EnsureFindsLive, EnsureJoins, EnsureRevives,
         EnsureRefuses, Forget, RevivalStep, FactoryReturns, FactoryDeclines, RevivalClaims,
         RevivalAttaches, RevivalFails, RevivalConstructionFails, RevivalStartupFails,
         RevivalWiringFails, RevivalReturns, RevivalRejected
<1>2. ASSUME NEW outcome, Settle(c, outcome)
      PROVE  \A d \in Callers : InRevival(d) /\ call'[d] # call[d] => d = c
  BY <1>2 DEF Settle, InRevival
<1>3. CASE EnsureKeeps(c)
  <2>1. /\ UNCHANGED <<registry, sess, park>> /\ adopted' = Rearmed(g)
        /\ call' = [call EXCEPT ![c] = Returned(Attached(registry))] /\ call[c].pc = "kept"
    BY <1>3 DEF EnsureKeeps
  <2>2. BoundTo(adopted.gen)
    BY <2>1, StaleBase, ThroughSame DEF Rearmed, BoundTo
  <2>3. \A d \in Callers : InRevival(d) => call'[d] = call[d]
    BY <2>1, StaleBase DEF InRevival
  <2> QED
    BY <1>1, <2>1, <2>2, <2>3, StaleBase, OneTouched
<1>4. CASE \/ EnsureMeetsPark(c) \/ EnsureFindsLive(c) \/ EnsureJoins(c) \/ EnsureRevives(c)
           \/ EnsureRefuses(c) \/ Forget(c) \/ FactoryDeclines(c)
           \/ (\E s \in Sessions : RevivalClaims(c, s))
           \/ RevivalConstructionFails(c) \/ RevivalStartupFails(c)
  BY <1>4, NothingTouched
  DEF EnsureMeetsPark, EnsureFindsLive, EnsureJoins, EnsureRevives, EnsureRefuses, Forget,
      FactoryDeclines, RevivalClaims, RevivalConstructionFails, RevivalStartupFails
<1>5. CASE FactoryReturns(c)
  <2>1. \A d \in Callers : InRevival(d) /\ call'[d] # call[d] => d = c
    BY <1>2, <1>5, StaleBase DEF FactoryReturns
  <2> QED
    BY <1>1, <1>5, <2>1 DEF FactoryReturns, Harmless
(* A revival ends and drops its own adoption. *)
<1>6. CASE RevivalFails(c) \/ RevivalWiringFails(c) \/ RevivalRejected(c)
  <2>1. UNCHANGED <<registry, sess, park>> /\ adopted' = DropCold(c) /\ Settle(c, Threw)
    BY <1>6 DEF RevivalFails, RevivalWiringFails, RevivalRejected
  <2>2. BoundTo(g)
    BY <2>1, ThroughSame DEF DropCold, BoundTo
  <2> QED
    BY <1>1, <1>2, <2>1, <2>2, StaleBase, OneTouched
<1>7. CASE RevivalAttaches(c)
  <2> DEFINE q == SetStatus(Attach(registry, g, call[c].sess), g, "running")
  <2>1. /\ Publish(q, g) /\ park' = park
        /\ sess' = [sess EXCEPT ![call[c].sess].state = "live"]
        /\ call' = [call EXCEPT ![c].pc = "wiring"]
    BY <1>7 DEF RevivalAttaches
  <2>2. Through(registry, q, g)
    BY StaleBase, ThroughAttach
  <2>3. \A s \in Sessions : sess[s].state = "disposing" => sess'[s].state # "disposed"
    BY <2>1, StaleBase DEF SessionStates
  <2>4. \A d \in Callers : d # c => call'[d] = call[d]
    BY <2>1
  <2> HIDE DEF q
  <2> QED
    BY <1>1, <2>1, <2>2, <2>3, <2>4, StaleBase, PublishBound, OneTouched
<1>8. CASE RevivalReturns(c)
  <2> DEFINE s == call[c].sess
             q == SetStatus(Attach(registry, g, s), g, "idle")
  <2>1. \/ Publish(q, g) /\ Settle(c, Returned(s))
           /\ sess' = [sess EXCEPT ![s].synced = TRUE] /\ park' = park
        \/ UNCHANGED <<registry, adopted>>
    BY <1>8 DEF RevivalReturns
  <2>2. Through(registry, q, g)
    BY StaleBase, ThroughAttach
  <2>3. CASE UNCHANGED <<registry, adopted>>
    BY <2>3, NothingTouched
  <2>4. CASE /\ Publish(q, g) /\ Settle(c, Returned(s))
             /\ sess' = [sess EXCEPT ![s].synced = TRUE] /\ park' = park
    <3>1. \A t \in Sessions : sess'[t].state = sess[t].state
      BY <2>4, StaleBase DEF SessionStates
    <3> HIDE DEF q
    <3> QED
      BY <1>1, <1>2, <2>2, <2>4, <3>1, StaleBase, PublishBound, OneTouched
  <2> QED
    BY <2>1, <2>3, <2>4
<1> QED
  BY <1>3, <1>4, <1>5, <1>6, <1>7, <1>8 DEF EnsureStep, RevivalStep

(* Executors and the scan. *)
LEMMA ExecutorHarmless ==
    ASSUME WInv, NEW g \in Gens,
           ExecutorStep(g) \/ ScanRegisters(g) \/ \E f \in Files : Spawn(g, f)
    PROVE  Harmless
<1>1. UNCHANGED <<park, call, rel>>
  BY DEF ExecutorStep, SpawnClaims, ProbeReturns, ProbeRefuses, SpawnAttaches, SpawnFails,
         SpawnStartupFails, SpawnReturns, ExecutorKeepsAlive, ScanRegisters, Spawn
<1>2. ASSUME UNCHANGED sess,
             \A h \in Gens : exec[h].pc \in {"constructing", "wiring", "running"} => exec'[h] = exec[h]
      PROVE  Harmless
  BY <1>1, <1>2, StaleBase DEF Harmless
<1>3. ASSUME NEW v \in Executors, exec' = [exec EXCEPT ![g] = v]
      PROVE  \A h \in Gens : h # g => exec'[h] = exec[h]
  BY <1>3
<1>4. CASE (\E f \in Files : Spawn(g, f) \/ SpawnClaims(g, f)) \/ ProbeReturns(g) \/ ProbeRefuses(g)
  <2>1. UNCHANGED sess /\ exec[g].pc \in {"unused", "claiming", "probing"}
    BY <1>4 DEF Spawn, NextGen, SpawnClaims, ProbeReturns, ProbeRefuses
  <2>2. \A h \in Gens : h # g => exec'[h] = exec[h]
    <3>1. ASSUME NEW f \in Files, Spawn(g, f) PROVE \A h \in Gens : h # g => exec'[h] = exec[h]
      BY <3>1, StaleBase DEF Spawn
    <3>2. ASSUME NEW f \in Files, SpawnClaims(g, f) PROVE \A h \in Gens : h # g => exec'[h] = exec[h]
      BY <3>2, StaleBase DEF SpawnClaims
    <3>3. CASE ProbeReturns(g) \/ ProbeRefuses(g)
      BY <3>3, StaleBase DEF ProbeReturns, ProbeRefuses
    <3> QED
      BY <1>4, <3>1, <3>2, <3>3
  <2> QED
    BY <1>2, <2>1, <2>2
<1>5. CASE ScanRegisters(g)
  BY <1>2, <1>5 DEF ScanRegisters
<1>6. ASSUME NEW s \in Sessions, SpawnAttaches(g, s) PROVE Harmless
  <2> DEFINE q == SetStatus(Attach(registry, g, s), g, "running")
  <2>1. /\ Publish(q, g)
        /\ sess' = [sess EXCEPT ![s] = [@ EXCEPT !.state = "live", !.gen = g]]
        /\ exec' = [exec EXCEPT ![g] = [@ EXCEPT !.pc = "wiring", !.sess = s]]
    BY <1>6 DEF SpawnAttaches
  <2>2. Through(registry, q, g)
    BY StaleBase, ThroughAttach
  <2>3. \A t \in Sessions : sess[t].state = "disposing" => sess'[t].state # "disposed"
    BY <2>1, StaleBase DEF SessionStates
  <2>4. \A h \in Gens : h # g => exec'[h] = exec[h]
    BY <2>1
  <2> HIDE DEF q
  <2> QED
    BY <1>1, <2>1, <2>2, <2>3, <2>4, StaleBase, PublishBound, OneTouched
<1>7. CASE SpawnFails(g)
  <2>1. /\ \E q \in {registry, Unregister(registry, g)} : Publish(q, g)
        /\ exec' = [exec EXCEPT ![g].pc = "done"] /\ UNCHANGED sess
    BY <1>7 DEF SpawnFails
  <2>2. \A q \in {registry, Unregister(registry, g)} : Through(registry, q, g)
    BY StaleBase, ThroughSame, ThroughUnregister
  <2>3. \A h \in Gens : h # g => exec'[h] = exec[h]
    BY <2>1
  <2> QED
    BY <1>1, <2>1, <2>2, <2>3, StaleBase, PublishBound, OneTouched
<1>8. CASE SpawnStartupFails(g) \/ SpawnReturns(g)
  BY <1>8, NothingTouched DEF SpawnStartupFails, SpawnReturns
(* The executor owns the current ref, so no newer one has the id.          *)
<1>9. CASE ExecutorKeepsAlive(g)
  <2>1. CASE ~OwnsRef(g)
    BY <1>9, <2>1, NothingTouched DEF ExecutorKeepsAlive
  <2>2. CASE OwnsRef(g)
    <3>1. /\ registry' = SetStatus(registry, g, "idle") /\ UNCHANGED sess
          /\ adopted' = [gen |-> g, timer |-> Armed, cold |-> NoCaller]
          /\ exec' = [exec EXCEPT ![g].pc = "done"]
          /\ registry.cur = g /\ g # None
      BY <1>9, <2>2 DEF ExecutorKeepsAlive, OwnsRef, Registered
    <3>2. Through(registry, registry', g)
      BY <3>1, StaleBase, ThroughSetStatus
    <3>4. UntouchedAfter(g)
      BY <3>1, <3>2, AgentRegistryAssumption DEF UntouchedAfter, Through, None
    <3>5. \A h \in Gens : h # g => exec'[h] = exec[h]
      BY <3>1
    <3> QED
      BY <1>1, <3>1, <3>4, <3>5 DEF Harmless
  <2> QED
    BY <2>1, <2>2
<1> QED
  BY <1>4, <1>5, <1>6, <1>7, <1>8, <1>9 DEF ExecutorStep

(* What a release touches up to its first await.                           *)
LEMMA CommitBound ==
    ASSUME WInv, NEW k, NEW g, NEW r, ReleaseCommit(k, g, r)
    PROVE  /\ Through(registry, registry', g)
           /\ sess' = sess \/ \E s : sess' = Disposing(sess, s)
           /\ \E v : rel' = [rel EXCEPT ![k] = v]
<1>2. Through(registry, Terminal(registry, g), g) /\ Through(registry, registry, g)
  BY StaleBase, ThroughSame, ThroughDetach DEF Terminal
<1>3. registry' = registry \/ registry' = Terminal(registry, g)
  BY DEF ReleaseCommit
<1>4. sess' = sess \/ \E s : sess' = Disposing(sess, s)
  BY DEF ReleaseCommit
<1>5. \E v : rel' = [rel EXCEPT ![k] = v]
  BY DEF ReleaseCommit
<1> QED
  BY <1>2, <1>3, <1>4, <1>5

LEMMA FromBound ==
    ASSUME WInv, NEW k, NEW expected, NEW r, ReleaseFrom(k, expected, r)
    PROVE  /\ sess' = sess \/ \E s : sess' = Disposing(sess, s)
           /\ \E v : rel' = [rel EXCEPT ![k] = v]
           /\ \/ UNCHANGED <<registry, adopted, park>>
              \/ \E g \in Gens : /\ expected # None => g = expected
                                 /\ BoundTo(g)
                                 /\ park' # park => park.gen = g
<1> DEFINE g == CASE Matches(registry.cur, expected) -> registry.cur
                  [] /\ ~Matches(registry.cur, expected)
                     /\ Matches(adopted.gen, expected)  -> adopted.gen
                  [] OTHER                              -> None
           hooked == [r EXCEPT !.hook = adopted.gen = g /\ registry.ref[g].file \in Isolated]
<1>1. /\ g \in Gens \cup {None}
      /\ g # None /\ expected # None => g = expected
  BY StaleBase DEF Matches, Registries
<1>2. CASE g = None
  <2>1. UNCHANGED <<registry, sess, adopted, park>> /\ rel' = [rel EXCEPT ![k] = IdleRelease]
    BY <1>2 DEF ReleaseFrom
  <2> QED
    BY <2>1
<1>3. CASE g # None
  <2>1. /\ adopted' = IF adopted.gen = g THEN NoAdoption ELSE adopted
        /\ \/ /\ park.gen = g /\ UNCHANGED <<registry, sess>>
              /\ rel' = [rel EXCEPT ![k] = [hooked EXCEPT !.pc = "parking", !.gen = g]]
           \/ ReleaseCommit(k, g, hooked) /\ UNCHANGED park
    BY <1>3 DEF ReleaseFrom
  <2> HIDE DEF g, hooked
  <2>2. /\ Through(registry, registry', g)
        /\ sess' = sess \/ \E s : sess' = Disposing(sess, s)
        /\ \E v : rel' = [rel EXCEPT ![k] = v]
    BY <2>1, ThroughSame, CommitBound
  <2>3. BoundTo(g)
    BY <2>1, <2>2 DEF BoundTo
  <2> QED
    BY <1>1, <1>3, <2>1, <2>2, <2>3
<1> QED
  BY <1>2, <1>3

LEMMA ReleaseHarmless ==
    ASSUME WInv, NEW k \in Killers,
           \/ \E kind \in KillKinds : Kill(k, kind)
           \/ \E g \in Gens, kind \in KillKinds : ExecutorAborts(g, k, kind)
           \/ ReleaseStep(k)
    PROVE  Harmless
<1>1. UNCHANGED call
  BY DEF Kill, ExecutorAborts, ReleaseStep, KillAborted, ReleaseCommits, TombstonePersisted,
         ReleaseDisposed, ReleaseFinishes
<1>2. ASSUME sess' = sess \/ \E s : sess' = Disposing(sess, s)
      PROVE  \A t \in Sessions : sess[t].state = "disposing" => sess'[t].state # "disposed"
  BY <1>2, StaleBase
<1>3. ASSUME NEW v, rel' = [rel EXCEPT ![k] = v]
      PROVE  \A j \in Killers : j # k => rel'[j] = rel[j]
  BY <1>3
(* A release that has not begun is bound to nothing yet.                   *)
<1>4. ASSUME NEW expected, NEW r, ReleaseFrom(k, expected, r), rel[k].pc \in {"idle", "aborting"},
             \A h \in Gens : exec[h].pc \in {"constructing", "wiring", "running"} /\ exec'[h] # exec[h]
                => h = expected
      PROVE  Harmless
  <2>1. (sess' = sess \/ \E s : sess' = Disposing(sess, s))
        /\ \E v : rel' = [rel EXCEPT ![k] = v]
    BY <1>4, FromBound
  <2>2. \A j \in Killers : rel[j].pc \notin {"idle", "aborting"} => rel'[j] = rel[j]
    BY <1>3, <1>4, <2>1
  <2>3. CASE UNCHANGED <<registry, adopted, park>>
    BY <2>3, NothingTouched
  <2>4. ASSUME NEW g \in Gens, expected # None => g = expected, BoundTo(g), park' # park => park.gen = g
        PROVE  Harmless
    <3>1. \A h \in Gens : exec[h].pc \in {"constructing", "wiring", "running"} /\ exec'[h] # exec[h]
             => h = g
      BY <1>4, <2>4, AgentRegistryAssumption DEF None
    <3> QED
      BY <1>1, <1>2, <2>1, <2>2, <2>4, <3>1, OneTouched
  <2> QED
    BY <1>4, <2>1, <2>3, <2>4, FromBound
<1>5. ASSUME NEW kind \in KillKinds, Kill(k, kind) PROVE Harmless
  <2>1. /\ rel[k].pc = "idle" /\ UNCHANGED exec
        /\ \/ UNCHANGED <<registry, adopted>>
           \/ \E expected, r : ReleaseFrom(k, expected, r)
    BY <1>5 DEF Kill
  <2> QED
    BY <1>4, <2>1, NothingTouched
<1>6. CASE KillAborted(k)
  <2>1. /\ rel[k].pc = "aborting" /\ UNCHANGED exec
        /\ \E expected, r : ReleaseFrom(k, expected, r)
    BY <1>6 DEF KillAborted
  <2> QED
    BY <1>4, <2>1
<1>7. ASSUME NEW g \in Gens, NEW kind \in KillKinds, ExecutorAborts(g, k, kind)
      PROVE  Harmless
  <2>1. /\ exec' = [exec EXCEPT ![g].pc = "done"]
        /\ \/ UNCHANGED <<registry, adopted>>
           \/ /\ rel[k].pc = "idle"
              /\ \E r : ReleaseFrom(k, g, r)
    BY <1>7 DEF ExecutorAborts
  <2>2. \A h \in Gens : h # g => exec'[h] = exec[h]
    BY <2>1
  <2> QED
    BY <1>4, <2>1, <2>2, NothingTouched
<1>8. CASE ReleaseCommits(k)
  <2> DEFINE g == rel[k].gen
  <2>1. ReleaseCommit(k, g, rel[k]) /\ UNCHANGED <<adopted, park, exec>>
    BY <1>8 DEF ReleaseCommits
  <2>2. /\ BoundTo(g)
        /\ sess' = sess \/ \E s : sess' = Disposing(sess, s)
        /\ \E v : rel' = [rel EXCEPT ![k] = v]
    BY <2>1, CommitBound DEF BoundTo
  <2>3. \A j \in Killers : rel'[j] # rel[j] => rel[j].gen = g
    BY <1>3, <2>2
  <2> QED
    BY <1>1, <1>2, <2>1, <2>2, <2>3, StaleBase, OneTouched
<1>9. CASE (\E ok \in BOOLEAN : TombstonePersisted(k, ok)) \/ ReleaseDisposed(k)
  BY <1>9, NothingTouched DEF TombstonePersisted, ReleaseDisposed
<1>10. CASE ReleaseFinishes(k)
  <2> DEFINE g == rel[k].gen
  <2>1. /\ \E q \in {registry, Unregister(registry, g)} : Publish(q, g)
        /\ rel' = [rel EXCEPT ![k] = IdleRelease] /\ UNCHANGED <<sess, park, exec>>
    BY <1>10 DEF ReleaseFinishes
  <2>2. \A q \in {registry, Unregister(registry, g)} : Through(registry, q, g)
    BY StaleBase, ThroughSame, ThroughUnregister
  <2>3. \A j \in Killers : rel'[j] # rel[j] => rel[j].gen = g
    BY <2>1
  <2> QED
    BY <1>1, <2>1, <2>2, <2>3, StaleBase, PublishBound, OneTouched
<1> QED
  BY <1>5, <1>6, <1>7, <1>8, <1>9, <1>10 DEF ReleaseStep

LEMMA NextStale == WInv /\ [Next]_vars => Restart \/ Harmless
<1> SUFFICES ASSUME WInv, [Next]_vars, ~Restart PROVE Harmless
  OBVIOUS
<1>1. CASE ParkStep
  BY <1>1, ParkHarmless
<1>2. ASSUME NEW s \in Sessions, DisposeDone(s) \/ StartRun(s) \/ EndRun(s)
      PROVE  Harmless
  BY <1>2, SessionHarmless
<1>3. ASSUME NEW c \in Callers, EnsureStep(c) \/ RevivalStep(c) \/ Forget(c)
      PROVE  Harmless
  BY <1>3, CallHarmless
<1>4. ASSUME NEW g \in Gens, ExecutorStep(g) \/ ScanRegisters(g) \/ \E f \in Files : Spawn(g, f)
      PROVE  Harmless
  BY <1>4, ExecutorHarmless
<1>5. ASSUME NEW k \in Killers,
             \/ \E kind \in KillKinds : Kill(k, kind)
             \/ \E g \in Gens, kind \in KillKinds : ExecutorAborts(g, k, kind)
             \/ ReleaseStep(k)
      PROVE  Harmless
  BY <1>5, ReleaseHarmless
<1>6. CASE (\E f \in Files : ScanStarts(f)) \/ ScanSkips \/ UNCHANGED vars
  BY <1>6, NothingTouched DEF ScanStarts, ScanSkips, vars
<1> QED
  BY <1>1, <1>2, <1>3, <1>4, <1>5, <1>6 DEF Next

(* Stale work of whatever kind, plain releases and cold revivals included, *)
(* leaves newer refs of the id alone: a park, release, revival, dispose or *)
(* executor that goes on after an await touches the ref it is bound to and *)
(* no newer one, except that a reviver factory adopts when it returns.     *)
THEOREM StaleWorkStaysHarmless == Spec => StaleWorkIsHarmless
<1>1. Init => WInv
  BY InitIInv, FreshWrites DEF Init
<1>2. WInv /\ [Next]_vars => WInv' /\ (Restart \/ Harmless)
  BY NextWInv, NextStale
<1> QED
  BY <1>1, <1>2, PTL DEF Spec, StaleWorkIsHarmless, Harmless

-----------------------------------------------------------------------------
(***************************************************************************)
(* What ensureLive() hands out.  It returns the attached session of the    *)
(* current ref, and a park or a kill lets go of the ref before it disposes *)
(* of its session: what they dispose of is not attached any more.  The     *)
(* hard part is a revival, which attaches a session and returns it only    *)
(* later: no park may begin in between.                                    *)
(***************************************************************************)
Executing(g) == exec[g].pc \in {"constructing", "wiring", "running"}

Parking(g) == park.pc # "none" /\ park.gen = g

(* The attached session of a ref is its own. *)
Owned ==
    \A g \in Gens : registry.ref[g].session # None =>
       /\ sess[registry.ref[g].session].state # "none"
       /\ sess[registry.ref[g].session].gen = g

(* As long as its executor runs, nobody adopts, parks or revives a ref.    *)
ExecutorsAlone ==
    \A g \in Gens :
       /\ Executing(g) =>
             /\ registry.ref[g].status \notin {"unused", "parked"}
             /\ adopted.gen # g
             /\ ~Parking(g)
             /\ \A c \in Callers : InRevival(c) => call[c].gen # g
       /\ exec[g].pc \in {"wiring", "running"} =>
             /\ exec[g].sess \in Sessions
             /\ sess[exec[g].sess].state # "none" /\ sess[exec[g].sess].gen = g

ParksExist == park.pc # "none" => Exists(registry, park.gen)

(* The idle timer of the current ref stands still while it runs.           *)
TimerIdle ==
    adopted.timer /\ Registered(registry, adopted.gen)
       => registry.ref[adopted.gen].status # "running"

(* An attached session that its reviver has not returned yet. *)
Wired(c) ==
    /\ \/ registry.ref[call[c].gen].status = "aborted"
       \/ /\ registry.ref[call[c].gen].status = "running"
          /\ registry.ref[call[c].gen].session = call[c].sess
    /\ ~Parking(call[c].gen)

(* Until it returns, its ref runs, because nothing reports its status.     *)
WiringRuns ==
    /\ \A c \in Callers : call[c].pc = "wiring" => Wired(c)
    /\ \A c \in Callers : call[c].pc \in {"constructing", "wiring"} => ~sess[call[c].sess].synced
    /\ \A s \in Sessions : sess[s].state = "none" => ~sess[s].synced

KillDisposes(r) ==
    r.pc \in {"persisting", "disposing"} /\ r.kind \in Tombstones /\ r.live # None

(* What a park or a kill disposes of is detached.                          *)
LetGo ==
    /\ park.pc = "disposing" =>
          /\ registry.ref[park.gen].session = None
          /\ sess[park.sess].state # "none" /\ sess[park.sess].gen = park.gen
    /\ \A k \in Killers : KillDisposes(rel[k]) =>
          /\ sess[rel[k].live].state # "none" /\ sess[rel[k].live].gen = rel[k].gen
          /\ registry.ref[rel[k].gen].status = "aborted"

LetGoInv == Owned /\ ExecutorsAlone /\ ParksExist /\ WiringRuns /\ LetGo

(* The inductive invariant. *)
HandInv == WInv /\ TimerIdle /\ LetGoInv

(* What a step has to show. *)
RefsStay ==
    \A g \in Gens :
       /\ registry.ref[g].status # "unused" => registry'.ref[g].status # "unused"
       /\ registry.ref[g].status = "aborted" => registry'.ref[g].status = "aborted"

SessionsStay ==
    \A s \in Sessions :
       /\ sess[s].state # "none" => sess'[s].state # "none" /\ sess'[s].gen = sess[s].gen
       /\ sess'[s].state = "none" /\ sess'[s].synced => sess[s].synced

SessionsAttach ==
    \A g \in Gens : registry'.ref[g].session # None =>
       \/ registry'.ref[g].session = registry.ref[g].session
       \/ /\ sess'[registry'.ref[g].session].state # "none"
          /\ sess'[registry'.ref[g].session].gen = g
          /\ ~Parking(g)

ParkGoesOn ==
    /\ park'.pc # "none" =>
          \/ park.pc # "none" /\ park'.gen = park.gen
          \/ /\ Exists(registry, park'.gen) /\ ~Executing(park'.gen)
             /\ \A c \in Callers : call'[c].pc = "wiring" => call'[c].gen # park'.gen
    /\ park'.pc = "disposing" =>
          \/ park.pc = "disposing" /\ park'.gen = park.gen /\ park'.sess = park.sess
          \/ /\ registry'.ref[park'.gen].session = None
             /\ sess'[park'.sess].state # "none" /\ sess'[park'.sess].gen = park'.gen

(* An executor goes on beside the others, or registers its ref. *)
ExecutorsGoOn ==
    \A g \in Gens :
       /\ Executing(g)' =>
             \/ /\ Executing(g)
                /\ registry'.ref[g].status = "parked" => registry.ref[g].status = "parked"
                /\ adopted'.gen = g => adopted.gen = g
                /\ \A c \in Callers : InRevival(c)' /\ call'[c].gen = g
                                         => InRevival(c) /\ call[c].gen = g
             \/ /\ registry.ref[g].status = "unused" /\ registry'.ref[g].status = "running"
                /\ adopted'.gen = g => adopted.gen = g
                /\ UNCHANGED <<call, park>>
       /\ exec'[g].pc \in {"wiring", "running"} =>
             \/ exec[g].pc \in {"wiring", "running"} /\ exec'[g].sess = exec[g].sess
             \/ /\ exec'[g].sess \in Sessions
                /\ sess'[exec'[g].sess].state # "none" /\ sess'[exec'[g].sess].gen = g

WiringGoesOn ==
    \A c \in Callers :
       /\ call'[c].pc = "wiring" =>
             \/ Wired(c)'
             \/ /\ call'[c] = call[c]
                /\ \/ registry'.ref[call[c].gen] = registry.ref[call[c].gen]
                   \/ registry'.ref[call[c].gen].status = "aborted"
       /\ call'[c].pc \in {"constructing", "wiring"} => ~sess'[call'[c].sess].synced

ReleasesGoOn ==
    \A k \in Killers : KillDisposes(rel'[k]) =>
       \/ /\ KillDisposes(rel[k])
          /\ rel'[k].live = rel[k].live /\ rel'[k].gen = rel[k].gen
       \/ /\ sess'[rel'[k].live].state # "none" /\ sess'[rel'[k].live].gen = rel'[k].gen
          /\ registry'.ref[rel'[k].gen].status = "aborted"

Steady ==
    /\ RefsStay /\ SessionsStay /\ SessionsAttach
    /\ ParkGoesOn /\ ExecutorsGoOn /\ WiringGoesOn /\ ReleasesGoOn

LEMMA HandBase ==
    ASSUME HandInv
    PROVE  /\ WInv /\ IInv /\ Sound(registry) /\ registry \in Registries
           /\ TimerIdle /\ Owned /\ ExecutorsAlone /\ ParksExist /\ WiringRuns /\ LetGo
           /\ adopted \in Adoptions /\ park \in Parks
           /\ sess \in [Sessions -> SessionStates] /\ exec \in [Gens -> Executors]
           /\ call \in [Callers -> Calls] /\ rel \in [Killers -> Releases]
           /\ adopted.gen # None => Exists(registry, adopted.gen)
           /\ \A s \in Sessions : sess[s].state # "none" => Exists(registry, sess[s].gen)
           /\ \A c \in Callers : InRevival(c) => Exists(registry, call[c].gen)
<1>1. WInv /\ IInv /\ Sound(registry) /\ registry \in Registries /\ OneRevival
  BY DEF HandInv, WInv, IInv, Sound
<1>2. TimerIdle /\ Owned /\ ExecutorsAlone /\ ParksExist /\ WiringRuns /\ LetGo
  BY DEF HandInv, LetGoInv
<1>3. /\ adopted \in Adoptions /\ park \in Parks
      /\ sess \in [Sessions -> SessionStates] /\ exec \in [Gens -> Executors]
      /\ call \in [Callers -> Calls] /\ rel \in [Killers -> Releases]
      /\ adopted.gen # None => Exists(registry, adopted.gen)
      /\ \A s \in Sessions : sess[s].state # "none" => Exists(registry, sess[s].gen)
  BY <1>1 DEF IInv, AdoptedOK, SessOK, CallOK, RelOK
<1> QED
  BY <1>1, <1>2, <1>3 DEF OneRevival

LEMMA SteadyStep == ASSUME HandInv, IInv', Steady PROVE LetGoInv'
<1> USE DEF Steady
<1>1. /\ registry' \in Registries /\ park' \in Parks /\ sess' \in [Sessions -> SessionStates]
      /\ rel' \in [Killers -> Releases]
  BY DEF IInv, Sound, SessOK, RelOK
<1>2. \A g : Exists(registry, g) => Exists(registry', g)
  BY DEF RefsStay, Exists
<1>3. Owned'
  <2> SUFFICES ASSUME NEW g \in Gens, registry'.ref[g].session # None
               PROVE  /\ sess'[registry'.ref[g].session].state # "none"
                      /\ sess'[registry'.ref[g].session].gen = g
    BY DEF Owned
  <2>1. registry.ref[g].session \in Sessions \cup {None}
    BY HandBase DEF Registries, Refs
  <2> QED
    BY <2>1, HandBase DEF SessionsAttach, SessionsStay, Owned
<1>4. ParksExist'
  BY <1>2, HandBase DEF ParkGoesOn, ParksExist
<1>5. ASSUME NEW g \in Gens, Parking(g)'
      PROVE  \/ Parking(g)
             \/ /\ Exists(registry, g) /\ ~Executing(g)
                /\ \A c \in Callers : call'[c].pc = "wiring" => call'[c].gen # g
  BY <1>5 DEF Parking, ParkGoesOn
<1>6. ExecutorsAlone'
  <2> SUFFICES ASSUME NEW g \in Gens
               PROVE  /\ Executing(g)' =>
                            /\ registry'.ref[g].status \notin {"unused", "parked"}
                            /\ adopted'.gen # g
                            /\ ~Parking(g)'
                            /\ \A c \in Callers : InRevival(c)' => call'[c].gen # g
                      /\ exec'[g].pc \in {"wiring", "running"} =>
                            /\ exec'[g].sess \in Sessions
                            /\ sess'[exec'[g].sess].state # "none" /\ sess'[exec'[g].sess].gen = g
    BY DEF ExecutorsAlone
  <2>1. exec'[g].pc \in {"wiring", "running"} =>
           /\ exec'[g].sess \in Sessions
           /\ sess'[exec'[g].sess].state # "none" /\ sess'[exec'[g].sess].gen = g
    BY HandBase DEF ExecutorsGoOn, ExecutorsAlone, SessionsStay
  <2>2. CASE /\ Executing(g)
             /\ registry'.ref[g].status = "parked" => registry.ref[g].status = "parked"
             /\ adopted'.gen = g => adopted.gen = g
             /\ \A c \in Callers : InRevival(c)' /\ call'[c].gen = g => InRevival(c) /\ call[c].gen = g
    <3>1. /\ registry.ref[g].status \notin {"unused", "parked"} /\ adopted.gen # g /\ ~Parking(g)
          /\ \A c \in Callers : InRevival(c) => call[c].gen # g
      BY <2>2, HandBase DEF ExecutorsAlone
    <3> QED
      BY <1>5, <2>1, <2>2, <3>1 DEF RefsStay
  <2>3. CASE /\ registry.ref[g].status = "unused" /\ registry'.ref[g].status = "running"
             /\ adopted'.gen = g => adopted.gen = g
             /\ UNCHANGED <<call, park>>
    <3>1. g # None /\ ~Exists(registry, g)
      BY <2>3, AgentRegistryAssumption DEF Exists, None
    <3>2. adopted.gen # g /\ ~Parking(g) /\ \A c \in Callers : InRevival(c) => call[c].gen # g
      BY <3>1, HandBase DEF ParksExist, Parking
    <3> QED
      BY <2>1, <2>3, <3>2 DEF Parking, InRevival
  <2> QED
    BY <2>1, <2>2, <2>3 DEF ExecutorsGoOn
<1>7. WiringRuns'
  <2>1. ASSUME NEW c \in Callers, call'[c].pc = "wiring"
        PROVE  Wired(c)'
    <3>1. CASE /\ call'[c] = call[c]
               /\ \/ registry'.ref[call[c].gen] = registry.ref[call[c].gen]
                  \/ registry'.ref[call[c].gen].status = "aborted"
      <4>1. Wired(c) /\ call[c].gen \in Gens
        BY <2>1, <3>1, HandBase DEF WiringRuns, InRevival, Exists
      <4>2. ~Parking(call[c].gen)'
        BY <1>5, <2>1, <3>1, <4>1 DEF Wired, Parking
      <4> QED
        BY <3>1, <4>1, <4>2 DEF Wired, Parking
    <3> QED
      BY <2>1, <3>1 DEF WiringGoesOn
  <2>2. \A c \in Callers : call'[c].pc \in {"constructing", "wiring"} => ~sess'[call'[c].sess].synced
    BY DEF WiringGoesOn
  <2>3. \A s \in Sessions : sess'[s].state = "none" => ~sess'[s].synced
    BY HandBase DEF SessionsStay, WiringRuns
  <2> QED
    BY <2>1, <2>2, <2>3 DEF WiringRuns
<1>8. LetGo'
  <2>1. ASSUME park'.pc = "disposing"
        PROVE  /\ registry'.ref[park'.gen].session = None
               /\ sess'[park'.sess].state # "none" /\ sess'[park'.sess].gen = park'.gen
    <3>1. CASE park.pc = "disposing" /\ park'.gen = park.gen /\ park'.sess = park.sess
      <4>1. /\ registry.ref[park.gen].session = None /\ park.gen \in Gens /\ park.sess \in Sessions
            /\ sess[park.sess].state # "none" /\ sess[park.sess].gen = park.gen
        BY <3>1, HandBase DEF LetGo, ParksExist, Exists, Parks, WInv, ParksInTurn
      <4> QED
        BY <3>1, <4>1 DEF SessionsAttach, SessionsStay, Parking
    <3> QED
      BY <2>1, <3>1 DEF ParkGoesOn
  <2>2. ASSUME NEW k \in Killers, KillDisposes(rel'[k])
        PROVE  /\ sess'[rel'[k].live].state # "none" /\ sess'[rel'[k].live].gen = rel'[k].gen
               /\ registry'.ref[rel'[k].gen].status = "aborted"
    <3>1. CASE /\ KillDisposes(rel[k])
               /\ rel'[k].live = rel[k].live /\ rel'[k].gen = rel[k].gen
      <4>1. /\ rel[k].gen \in Gens /\ rel[k].live \in Sessions
            /\ sess[rel[k].live].state # "none" /\ sess[rel[k].live].gen = rel[k].gen
            /\ registry.ref[rel[k].gen].status = "aborted"
        BY <2>2, <3>1, HandBase DEF LetGo, KillDisposes, IInv, RelOK, Exists, Releases
      <4> QED
        BY <3>1, <4>1 DEF SessionsStay, RefsStay
    <3> QED
      BY <2>2, <3>1 DEF ReleasesGoOn
  <2> QED
    BY <2>1, <2>2 DEF LetGo
<1> QED
  BY <1>3, <1>4, <1>6, <1>7, <1>8 DEF LetGoInv
-----------------------------------------------------------------------------
(* Registry operations that register, attach and park nothing, and leave   *)
(* terminal refs terminal.                                                 *)
Mild(r, q) ==
    /\ Calm(r, q)
    /\ \A g \in Gens : r.ref[g].status = "aborted" => q.ref[g].status = "aborted"

LEMMA MildOperations ==
    ASSUME NEW r, Sound(r), NEW g
    PROVE  /\ Mild(r, r) /\ Mild(r, Unregister(r, g)) /\ Mild(r, Terminal(r, g))
           /\ \A status \in {"running", "idle"} : Mild(r, SetStatus(r, g, status))
           /\ Unregister(r, g).ref = r.ref
<1>1. Unregister(r, g).ref = r.ref
  BY DEF Unregister, Sound, Registries
<1>2. Mild(r, r) /\ Mild(r, Unregister(r, g))
  BY <1>1, CalmSame, CalmUnregister DEF Mild
<1>3. Mild(r, Terminal(r, g))
  BY CalmTerminal, KeepsDetach DEF Mild, Terminal, Keeps
<1>4. \A status \in {"running", "idle"} : Mild(r, SetStatus(r, g, status))
  BY CalmSetStatus, KeepsSetStatus DEF Mild, Keeps
<1> QED
  BY <1>1, <1>2, <1>3, <1>4

(* A kill turns the ref it commits terminal and touches no other.          *)
LEMMA TerminalRefs ==
    ASSUME NEW r, Sound(r), NEW g
    PROVE  /\ \A h \in Gens : \/ Terminal(r, g).ref[h] = r.ref[h]
                              \/ Terminal(r, g).ref[h].status = "aborted"
           /\ Registered(r, g) => Terminal(r, g).ref[g].status = "aborted"
<1>1. CASE ~Registered(r, g)
  BY <1>1 DEF Terminal, Detach, SetStatus
<1>2. CASE Registered(r, g)
  <2> DEFINE a == [status |-> "aborted", session |-> None, file |-> r.ref[g].file]
  <2>1. Terminal(r, g) = [cur |-> g, ref |-> [r.ref EXCEPT ![g] = a]] /\ a.status = "aborted"
    BY <1>2, SessionDetached DEF Terminal
  <2>2. g \in Gens /\ r.ref \in [Gens -> Refs]
    BY <1>2 DEF Registered, Sound, Registries
  <2> HIDE DEF a
  <2> QED
    BY <2>1, <2>2
<1> QED
  BY <1>1, <1>2

(* setStatus() changes the current ref only. *)
LEMMA StatusRefs ==
    ASSUME NEW r, Sound(r), NEW g, NEW status
    PROVE  \A h \in Gens : r.cur # h \/ g # h \/ r.ref[h].status = "aborted"
              => SetStatus(r, g, status).ref[h] = r.ref[h]
  BY DEF SetStatus, Registered, Sound, Registries

LEMMA MildFrame == ASSUME HandInv, Mild(registry, registry') PROVE RefsStay /\ SessionsAttach
<1>1. RefsStay
  BY DEF Mild, Calm, RefsStay
<1>2. SessionsAttach
  BY DEF Mild, Calm, SessionsAttach
<1> QED
  BY <1>1, <1>2

LEMMA SessionForms ==
    ASSUME HandInv
    PROVE  /\ sess' = sess => SessionsStay
           /\ \A s : sess' = Disposing(sess, s) => SessionsStay
           /\ \A s, b : sess' = [sess EXCEPT ![s].run = b] => SessionsStay
           /\ \A s \in Sessions : sess[s].state # "none" =>
                 /\ sess' = [sess EXCEPT ![s].synced = TRUE] => SessionsStay
                 /\ sess' = Disposing([sess EXCEPT ![s].synced = TRUE], s) => SessionsStay
                 /\ sess' = [sess EXCEPT ![s] = [@ EXCEPT !.state = "disposed", !.run = FALSE]]
                       => SessionsStay
<1>1. sess \in [Sessions -> SessionStates]
  BY HandBase
<1>3. /\ sess' = sess => SessionsStay
      /\ \A s : sess' = Disposing(sess, s) => SessionsStay
  <2>1. ASSUME NEW s, sess' = Disposing(sess, s) PROVE SessionsStay
    BY <1>1, <2>1 DEF Disposing, SessionStates, SessionsStay
  <2> QED
    BY <2>1 DEF SessionsStay
<1>5. ASSUME NEW s, NEW b, sess' = [sess EXCEPT ![s].run = b]
      PROVE  SessionsStay
  <2>1. \A t \in Sessions : sess'[t].gen = sess[t].gen /\ sess'[t].state = sess[t].state
                           /\ sess'[t].synced = sess[t].synced
    BY <1>1, <1>5 DEF SessionStates
  <2> QED
    BY <2>1 DEF SessionsStay
<1>6. ASSUME NEW s \in Sessions, sess[s].state # "none", sess' = [sess EXCEPT ![s].synced = TRUE]
      PROVE  SessionsStay
  <2>1. \A t \in Sessions : sess'[t].gen = sess[t].gen /\ sess'[t].state = sess[t].state
                           /\ (t # s => sess'[t].synced = sess[t].synced)
    BY <1>1, <1>6 DEF SessionStates
  <2> QED
    BY <1>6, <2>1 DEF SessionsStay
<1>7. ASSUME NEW s \in Sessions, sess[s].state # "none",
             sess' = [sess EXCEPT ![s] = [@ EXCEPT !.state = "disposed", !.run = FALSE]]
      PROVE  SessionsStay
  <2>1. \A t \in Sessions : sess'[t].gen = sess[t].gen /\ sess'[t].synced = sess[t].synced
                           /\ sess'[t].state \in {sess[t].state, "disposed"}
                           /\ (t # s => sess'[t].state = sess[t].state)
    BY <1>1, <1>7 DEF SessionStates
  <2> QED
    BY <1>7, <2>1 DEF SessionsStay
<1>4. ASSUME NEW s \in Sessions, sess[s].state # "none",
             sess' = Disposing([sess EXCEPT ![s].synced = TRUE], s)
      PROVE  SessionsStay
  <2> DEFINE synced == [sess EXCEPT ![s].synced = TRUE]
  <2>1. /\ synced \in [Sessions -> SessionStates]
        /\ synced[s].state = sess[s].state /\ synced[s].gen = sess[s].gen
        /\ \A t \in Sessions : t # s => synced[t] = sess[t]
    BY <1>1 DEF SessionStates
  <2>2. sess' = Disposing(synced, s)
    BY <1>4
  <2> HIDE DEF synced
  <2>3. /\ sess'[s].gen = sess[s].gen /\ sess'[s].state # "none"
        /\ \A t \in Sessions : t # s => sess'[t] = sess[t]
    BY <1>4, <2>1, <2>2 DEF Disposing, SessionStates
  <2> QED
    BY <2>3 DEF SessionsStay
<1> QED
  BY <1>3, <1>4, <1>5, <1>6, <1>7

(* The step leaves alone the flag of a session that a revival works on.    *)
LEMMA SyncedForms ==
    ASSUME HandInv
    PROVE  /\ sess' = sess => \A t \in Sessions : sess'[t].synced = sess[t].synced
           /\ \A s : sess' = Disposing(sess, s) => \A t \in Sessions : sess'[t].synced = sess[t].synced
           /\ \A s, b : sess' = [sess EXCEPT ![s].run = b]
                 => \A t \in Sessions : sess'[t].synced = sess[t].synced
           /\ \A s : sess' = [sess EXCEPT ![s] = [@ EXCEPT !.state = "disposed", !.run = FALSE]]
                 => \A t \in Sessions : sess'[t].synced = sess[t].synced
<1>1. sess \in [Sessions -> SessionStates]
  BY HandBase
<1>2. ASSUME NEW s, sess' = Disposing(sess, s)
      PROVE  \A t \in Sessions : sess'[t].synced = sess[t].synced
  BY <1>1, <1>2 DEF Disposing, SessionStates
<1>3. ASSUME NEW s, NEW b, sess' = [sess EXCEPT ![s].run = b]
      PROVE  \A t \in Sessions : sess'[t].synced = sess[t].synced
  BY <1>1, <1>3 DEF SessionStates
<1>4. ASSUME NEW s, sess' = [sess EXCEPT ![s] = [@ EXCEPT !.state = "disposed", !.run = FALSE]]
      PROVE  \A t \in Sessions : sess'[t].synced = sess[t].synced
  BY <1>1, <1>4 DEF SessionStates
<1> QED
  BY <1>2, <1>3, <1>4

(* Calls return, wait or go on in their revival, which attaches nothing.   *)
CallsRest ==
    \A c \in Callers :
       /\ InRevival(c)' => InRevival(c) /\ call'[c].gen = call[c].gen
       /\ call'[c].pc \in {"constructing", "wiring"} =>
             call'[c] = call[c] /\ (sess'[call[c].sess].synced => sess[call[c].sess].synced)

LEMMA CallsUntouched ==
    ASSUME HandInv, UNCHANGED call, \A t \in Sessions : sess'[t].synced = sess[t].synced
    PROVE  CallsRest
<1>1. \A c \in Callers : call[c].pc \in {"constructing", "wiring"} => call[c].sess \in Sessions
  BY HandBase DEF WInv, Writers, RevivalWrites, Making
<1> QED
  BY <1>1 DEF CallsRest, InRevival

ParkRests ==
    \/ park' = park
    \/ park'.pc = "none"
    \/ \E b \in BOOLEAN : park' = [park EXCEPT !.cancelled = b]

ExecutorsRest ==
    \A g \in Gens :
       /\ Executing(g)' => Executing(g) /\ (adopted'.gen = g => adopted.gen = g)
       /\ exec'[g].pc \in {"wiring", "running"} =>
             exec[g].pc \in {"wiring", "running"} /\ exec'[g].sess = exec[g].sess

LEMMA MildStep ==
    ASSUME HandInv, Mild(registry, registry'), SessionsStay, CallsRest, ParkRests, ExecutorsRest,
           ReleasesGoOn,
           \A c \in Callers : call'[c].pc = "wiring" =>
              \/ registry'.ref[call[c].gen] = registry.ref[call[c].gen]
              \/ registry'.ref[call[c].gen].status = "aborted"
    PROVE  Steady
<1>1. RefsStay /\ SessionsAttach
  BY MildFrame
<1>2. park' = park \/ park'.pc = "none"
      \/ (park'.pc = park.pc /\ park'.gen = park.gen /\ park'.sess = park.sess)
  BY HandBase DEF ParkRests, Parks
<1>3. ParkGoesOn
  BY <1>2 DEF ParkGoesOn
<1>4. ExecutorsGoOn
  BY DEF ExecutorsRest, ExecutorsGoOn, CallsRest, Mild, Calm
<1>5. WiringGoesOn
  BY HandBase DEF WiringGoesOn, CallsRest, WiringRuns
<1> QED
  BY <1>1, <1>3, <1>4, <1>5 DEF Steady

(* What is published keeps the timer right. *)
LEMMA TimerPublish ==
    ASSUME HandInv, NEW q, NEW g, Through(registry, q, g), Publish(q, g)
    PROVE  TimerIdle' /\ adopted'.gen \in {adopted.gen, None}
<1>1. /\ adopted \in Adoptions /\ adopted.gen \in Gens \cup {None} /\ TimerIdle
      /\ registry' = q /\ adopted' = OnRegistryEvent(adopted, registry, q, g)
  BY HandBase DEF Adoptions, Publish
<1>2. CASE g = None \/ adopted.gen # g
  BY <1>1, <1>2 DEF OnRegistryEvent, TimerIdle, Through, Registered
<1>3. CASE g # None /\ adopted.gen = g /\ registry.cur = g /\ q.cur # g
  BY <1>1, <1>3 DEF OnRegistryEvent, TimerIdle, NoAdoption
<1>4. CASE g # None /\ adopted.gen = g /\ (registry.cur = g => q.cur = g)
  <2>1. \A t \in BOOLEAN : [adopted EXCEPT !.timer = t].gen = g
                           /\ [adopted EXCEPT !.timer = t].timer = t
    BY <1>1, <1>4 DEF Adoptions
  <2>2. Armed \in BOOLEAN
    BY DEF Armed
  <2>3. \/ adopted' = adopted /\ registry.ref[g].status = q.ref[g].status
        \/ adopted' = [adopted EXCEPT !.timer = FALSE]
        \/ adopted' = [adopted EXCEPT !.timer = Armed] /\ q.ref[g].status = "idle"
        \/ adopted' = adopted /\ q.ref[g].status # "running"
    BY <1>1, <1>4 DEF OnRegistryEvent
  <2> QED
    BY <1>1, <1>4, <2>1, <2>2, <2>3 DEF TimerIdle, Through, Registered
<1> QED
  BY <1>2, <1>3, <1>4

LEMMA TimerRests ==
    ASSUME HandInv, registry' = registry \/ registry'.cur = None,
           adopted' = adopted \/ ~adopted'.timer
    PROVE  TimerIdle'
  BY HandBase DEF TimerIdle, Registered

LEMMA ReleasesRest ==
    ASSUME HandInv,
           \A k \in Killers :
              \/ rel'[k] = rel[k]
              \/ rel[k].pc = "parking" /\ rel'[k] = [rel[k] EXCEPT !.pc = "commit"]
    PROVE  ReleasesGoOn
<1>1. \A k \in Killers : [rel[k] EXCEPT !.pc = "commit"].pc = "commit"
  BY HandBase DEF Releases
<1> QED
  BY <1>1 DEF ReleasesGoOn, KillDisposes
-----------------------------------------------------------------------------
(* A session reports nothing before it is synced. *)
LEMMA SessionSteady ==
    ASSUME HandInv, NEW s \in Sessions, DisposeDone(s) \/ StartRun(s) \/ EndRun(s)
    PROVE  Steady /\ TimerIdle'
<1>1. UNCHANGED <<park, call, rel, exec>>
  BY DEF DisposeDone, StartRun, EndRun
<1>2. ReleasesGoOn /\ ParkRests
  BY <1>1, ReleasesRest DEF ParkRests
<1>3. ASSUME adopted'.gen \in {adopted.gen, None}
      PROVE  ExecutorsRest
  BY <1>1, <1>3, AgentRegistryAssumption DEF ExecutorsRest, Executing, None
<1>4. CASE DisposeDone(s)
  <2> DEFINE g == sess[s].gen
  <2>1. /\ \E q \in {registry, Unregister(registry, g)} : Publish(q, g)
        /\ sess' = [sess EXCEPT ![s] = [@ EXCEPT !.state = "disposed", !.run = FALSE]]
        /\ sess[s].state = "disposing"
    BY <1>4 DEF DisposeDone
  <2>2. /\ \A q \in {registry, Unregister(registry, g)} : Through(registry, q, g)
        /\ Mild(registry, registry') /\ registry'.ref = registry.ref
    BY <2>1, HandBase, ThroughSame, ThroughUnregister, MildOperations DEF Publish
  <2>3. TimerIdle' /\ adopted'.gen \in {adopted.gen, None}
    BY <2>1, <2>2, TimerPublish
  <2>4. SessionsStay /\ CallsRest
    BY <1>1, <2>1, SessionForms, SyncedForms, CallsUntouched
  <2> QED
    BY <1>2, <1>3, <2>2, <2>3, <2>4, MildStep
<1>5. CASE StartRun(s) \/ EndRun(s)
  <2> DEFINE g == OwnerOf(registry, s)
  <2>1. /\ \E b : sess' = [sess EXCEPT ![s].run = b]
        /\ \/ UNCHANGED <<registry, adopted>>
           \/ /\ sess[s].synced
              /\ \E status \in {"running", "idle"} : Publish(SetStatus(registry, g, status), g)
    BY <1>5 DEF StartRun, EndRun, Reported
  <2>2. SessionsStay /\ CallsRest
    BY <1>1, <2>1, SessionForms, SyncedForms, CallsUntouched
  <2>3. CASE UNCHANGED <<registry, adopted>>
    <3>1. TimerIdle' /\ Mild(registry, registry')
      BY <2>3, TimerRests, HandBase, MildOperations
    <3> QED
      BY <1>2, <1>3, <2>2, <2>3, <3>1, MildStep
  <2>4. ASSUME sess[s].synced,
               NEW status \in {"running", "idle"}, Publish(SetStatus(registry, g, status), g)
        PROVE  Steady /\ TimerIdle'
    <3>1. /\ Through(registry, SetStatus(registry, g, status), g)
          /\ Mild(registry, registry') /\ registry' = SetStatus(registry, g, status)
      BY <2>4, HandBase, ThroughSetStatus, MildOperations DEF Publish
    <3>2. TimerIdle' /\ adopted'.gen \in {adopted.gen, None}
      BY <2>4, <3>1, TimerPublish
    <3>3. ASSUME NEW c \in Callers, call[c].pc = "wiring"
          PROVE  registry'.ref[call[c].gen] = registry.ref[call[c].gen]
      <4>1. Wired(c) /\ ~sess[call[c].sess].synced /\ call[c].gen \in Gens
        BY <3>3, HandBase DEF WiringRuns, InRevival, Exists
      <4>2. CASE registry.cur = call[c].gen /\ g = call[c].gen
        <5>1. registry.ref[call[c].gen].session = s
          BY <4>1, <4>2, AgentRegistryAssumption DEF OwnerOf, Attached, None
        <5>2. registry.ref[call[c].gen].status = "aborted"
          BY <2>4, <4>1, <5>1 DEF Wired
        <5> QED
          BY <3>1, <4>1, <5>2, HandBase, StatusRefs
      <4> QED
        BY <3>1, <4>1, <4>2, HandBase, StatusRefs
    <3> QED
      BY <1>1, <1>2, <1>3, <2>2, <3>1, <3>2, <3>3, MildStep
  <2> QED
    BY <2>1, <2>3, <2>4
<1> QED
  BY <1>4, <1>5

LEMMA AdoptionRests ==
    ASSUME HandInv, UNCHANGED exec, adopted'.gen \in {adopted.gen, None}
    PROVE  ExecutorsRest
  BY AgentRegistryAssumption DEF ExecutorsRest, Executing, None

(* A park begins when the timer fires, and that of a ref does not while    *)
(* its session is still being wired.                                       *)
LEMMA ParkSteady == ASSUME HandInv, ParkStep PROVE Steady /\ TimerIdle'
<1>1. ReleasesGoOn
  BY HandBase, OthersLeaveReleases, ReleasesRest
<1>2. CASE TimerFires
  <2> DEFINE g == adopted.gen
  <2>1. /\ UNCHANGED <<registry, sess, call, rel, exec>>
        /\ adopted.timer /\ adopted' = [adopted EXCEPT !.timer = FALSE]
    BY <1>2 DEF TimerFires
  <2>2. ~adopted'.timer /\ adopted'.gen = g
    BY <2>1, HandBase DEF Adoptions
  <2>3. TimerIdle' /\ SessionsStay /\ Mild(registry, registry') /\ CallsRest /\ ExecutorsRest
    BY <2>1, <2>2, TimerRests, SessionForms, HandBase, MildOperations, SyncedForms, CallsUntouched,
       AdoptionRests
  <2>4. CASE park' = park
    BY <1>1, <2>1, <2>3, <2>4, MildStep DEF ParkRests
  <2>5. CASE park' # park
    <3>1. /\ Registered(registry, g) /\ Attached(registry) # None
          /\ park' = [NoPark EXCEPT !.pc = "yielding", !.gen = g, !.sess = Attached(registry)]
      BY <1>2, <2>5 DEF TimerFires
    <3>2. park'.pc = "yielding" /\ park'.gen = g
      BY <3>1 DEF NoPark
    <3>3. Exists(registry, g) /\ registry.ref[g].session # None /\ registry.ref[g].status # "running"
      BY <2>1, <3>1, HandBase DEF Registered, Attached, TimerIdle
    <3>4. registry.ref[g].status # "aborted"
      BY <3>3, HandBase DEF Sound, DetachedIn, Exists
    <3>5. ~Executing(g) /\ \A c \in Callers : call[c].pc = "wiring" => call[c].gen # g
      BY <3>3, <3>4, HandBase DEF ExecutorsAlone, WiringRuns, Wired, Exists
    <3>6. ParkGoesOn
      BY <2>1, <3>2, <3>3, <3>5 DEF ParkGoesOn
    <3>7. ExecutorsGoOn /\ WiringGoesOn
      BY <2>1, <2>2, HandBase DEF ExecutorsGoOn, Executing, InRevival, WiringGoesOn, WiringRuns
    <3> QED
      BY <1>1, <2>3, <3>6, <3>7, MildFrame DEF Steady
  <2> QED
    BY <2>4, <2>5
<1>3. CASE ParkCommits
  <2> DEFINE g == park.gen
             s == park.sess
  <2>1. /\ park.pc = "yielding" /\ Registered(registry, g) /\ Attached(registry) = s
        /\ Publish(Retired(registry, g), g) /\ sess' = Disposing(sess, s)
        /\ park' = [park EXCEPT !.pc = "disposing"] /\ UNCHANGED <<call, exec>>
    BY <1>3 DEF ParkCommits
  <2>2. /\ g \in Gens /\ s # None /\ registry.ref[g].session = s /\ registry.ref \in [Gens -> Refs]
        /\ Parking(g)
    BY <2>1, HandBase DEF Registered, Registries, Attached, WInv, ParksInTurn, Parking
  <2>3. registry.ref[g].status # "aborted" /\ s \in Sessions /\ sess[s].state # "none" /\ sess[s].gen = g
    BY <2>2, HandBase DEF Sound, DetachedIn, Owned, Parks
  <2>4. /\ registry'.ref[g].status = "parked" /\ registry'.ref[g].session = None
        /\ \A h \in Gens : h # g => registry'.ref[h] = registry.ref[h]
    <3> DEFINE a == [status |-> "parked", session |-> None, file |-> registry.ref[g].file]
    <3>1. registry' = [cur |-> g, ref |-> [registry.ref EXCEPT ![g] = a]]
      BY <2>1, <2>3, SessionDetached, HandBase DEF Publish, Retired
    <3>2. a.status = "parked" /\ a.session = None
      OBVIOUS
    <3> HIDE DEF a
    <3> QED
      BY <2>2, <3>1, <3>2
  <2>5. TimerIdle' /\ adopted'.gen \in {adopted.gen, None}
    BY <2>1, HandBase, ThroughDetach, TimerPublish DEF Retired
  <2>6. SessionsStay /\ \A t \in Sessions : sess'[t].synced = sess[t].synced
    BY <2>1, SessionForms, SyncedForms
  <2>7. RefsStay /\ SessionsAttach
    BY <2>3, <2>4 DEF RefsStay, SessionsAttach
  <2>8. ParkGoesOn
    <3>1. park'.pc = "disposing" /\ park'.gen = g /\ park'.sess = s
      BY <2>1, HandBase DEF Parks
    <3> QED
      BY <2>1, <2>3, <2>4, <2>6, <3>1 DEF ParkGoesOn, SessionsStay
  <2>9. ExecutorsGoOn
    <3>1. \A h \in Gens : Executing(h) => h # g
      BY <2>2, HandBase DEF ExecutorsAlone
    <3>2. \A h \in Gens : adopted'.gen = h => adopted.gen = h
      BY <2>5, AgentRegistryAssumption DEF None
    <3> QED
      BY <2>1, <2>4, <3>1, <3>2 DEF ExecutorsGoOn, Executing, InRevival
  <2>10. WiringGoesOn
    <3>1. \A c \in Callers : call[c].pc = "wiring" => call[c].gen # g /\ call[c].gen \in Gens
      BY <2>2, HandBase DEF WiringRuns, Wired, InRevival, Exists
    <3>2. CallsRest
      BY <2>1, <2>6, CallsUntouched
    <3> QED
      BY <2>1, <2>4, <3>1, <3>2, HandBase DEF WiringGoesOn, CallsRest, WiringRuns
  <2> QED
    BY <1>1, <2>5, <2>6, <2>7, <2>8, <2>9, <2>10 DEF Steady
<1>4. CASE ParkGivesUp \/ ParkDone
  <2>1. UNCHANGED <<registry, sess, adopted, exec>> /\ park' = NoPark /\ WakeParkWaiters
    BY <1>4 DEF ParkGivesUp, ParkDone
  <2>2. \A c \in Callers : call'[c] = call[c] \/ call'[c].pc \in {"kept", "woken"}
    BY <2>1, HandBase DEF WakeParkWaiters, Calls
  <2>3. CallsRest
    BY <2>1, <2>2 DEF CallsRest, InRevival
  <2>4. TimerIdle' /\ SessionsStay /\ Mild(registry, registry') /\ ExecutorsRest /\ ParkRests
    BY <2>1, TimerRests, SessionForms, HandBase, MildOperations, AdoptionRests DEF ParkRests, NoPark
  <2> QED
    BY <1>1, <2>1, <2>3, <2>4, MildStep
<1> QED
  BY <1>2, <1>3, <1>4 DEF ParkStep
-----------------------------------------------------------------------------
(* One call changes, and is in no revival afterwards. *)
LEMMA CallRests ==
    ASSUME HandInv, NEW c \in Callers, NEW v, call' = [call EXCEPT ![c] = v],
           v.pc \notin {"factory", "opening", "constructing", "wiring", "failing", "rejecting"},
           \A t \in Sessions : sess'[t].synced = sess[t].synced
    PROVE  CallsRest
<1>1. call'[c] = v /\ \A d \in Callers : d # c => call'[d] = call[d]
  BY HandBase
<1>2. \A d \in Callers : call[d].pc \in {"constructing", "wiring"} => call[d].sess \in Sessions
  BY HandBase DEF WInv, Writers, RevivalWrites, Making
<1> QED
  BY <1>1, <1>2 DEF CallsRest, InRevival

LEMMA EnsureSteady ==
    ASSUME HandInv, NEW c \in Callers, EnsureStep(c) \/ Forget(c)
    PROVE  Steady /\ TimerIdle'
<1>1. UNCHANGED <<registry, sess, rel, exec>>
  BY DEF EnsureStep, EnsureMeetsPark, EnsureKeeps, EnsureFindsLive, EnsureJoins, EnsureRevives,
         EnsureRefuses, Forget
<1>2. /\ SessionsStay /\ Mild(registry, registry') /\ ReleasesGoOn
      /\ \A t \in Sessions : sess'[t].synced = sess[t].synced
  BY <1>1, SessionForms, SyncedForms, HandBase, MildOperations, ReleasesRest
<1>3. ASSUME ParkRests, TimerIdle', adopted'.gen = adopted.gen, NEW v, call' = [call EXCEPT ![c] = v],
             v.pc \in {"idle", "keeping", "waiting", "joined", "returned", "threw"}
      PROVE  Steady /\ TimerIdle'
  BY <1>1, <1>2, <1>3, CallRests, AdoptionRests, MildStep
<1>4. CASE EnsureMeetsPark(c)
  <2>1. UNCHANGED adopted /\ ParkRests
    BY <1>4 DEF EnsureMeetsPark, ParkRests
  <2>2. PICK v \in {[call[c] EXCEPT !.pc = "keeping", !.gen = registry.cur],
                    [call[c] EXCEPT !.pc = "waiting"]} : call' = [call EXCEPT ![c] = v]
    BY <1>4 DEF EnsureMeetsPark
  <2>3. v.pc \in {"keeping", "waiting"}
    BY <2>2, HandBase DEF Calls
  <2> QED
    BY <1>1, <1>3, <2>1, <2>2, <2>3, TimerRests
<1>5. CASE EnsureKeeps(c)
  <2>1. /\ park' = park /\ adopted' = Rearmed(call[c].gen)
        /\ call' = [call EXCEPT ![c] = Returned(Attached(registry))]
    BY <1>5 DEF EnsureKeeps
  <2>2. TimerIdle' /\ adopted'.gen = adopted.gen
    BY <1>1, <2>1, HandBase DEF Rearmed, TimerIdle, Adoptions, Armed
  <2>3. Returned(Attached(registry)).pc = "returned"
    BY DEF Returned, IdleCall
  <2> QED
    BY <1>3, <2>1, <2>2, <2>3 DEF ParkRests
<1>6. CASE EnsureFindsLive(c) \/ EnsureJoins(c) \/ EnsureRefuses(c) \/ Forget(c)
  <2>1. /\ \E v \in {Returned(Attached(registry)), [IdleCall EXCEPT !.pc = "joined", !.gen = registry.cur],
                     Threw, IdleCall} : call' = [call EXCEPT ![c] = v]
        /\ UNCHANGED <<adopted, park>>
    BY <1>6 DEF EnsureFindsLive, EnsureJoins, EnsureRefuses, Forget
  <2>4. /\ Returned(Attached(registry)).pc = "returned" /\ Threw.pc = "threw"
        /\ [IdleCall EXCEPT !.pc = "joined", !.gen = registry.cur].pc = "joined"
        /\ IdleCall.pc = "idle"
    BY DEF Returned, IdleCall, Threw
  <2>2. \A v \in {Returned(Attached(registry)), [IdleCall EXCEPT !.pc = "joined", !.gen = registry.cur],
                  Threw, IdleCall} : v.pc \in {"idle", "keeping", "waiting", "joined", "returned", "threw"}
    BY <2>4
  <2>3. TimerIdle' /\ ParkRests /\ adopted'.gen = adopted.gen
    BY <1>1, <2>1, TimerRests DEF ParkRests
  <2> QED
    BY <1>3, <2>1, <2>2, <2>3
<1>7. CASE EnsureRevives(c)
  <2> DEFINE v == [IdleCall EXCEPT !.gen = registry.cur,
                                   !.pc = IF Warm(registry.cur) THEN "opening" ELSE "factory"]
  <2>1. /\ registry.cur # None /\ registry.ref[registry.cur].status = "parked"
        /\ call' = [call EXCEPT ![c] = v] /\ UNCHANGED <<adopted, park>>
    BY <1>7 DEF EnsureRevives, Revivable
  <2>2. v.gen = registry.cur /\ v.pc \in {"opening", "factory"}
    BY DEF IdleCall
  <2> HIDE DEF v
  <2>3. call'[c] = v /\ \A d \in Callers : d # c => call'[d] = call[d]
    BY <2>1, HandBase
  <2>4. ParkGoesOn
    BY <2>1 DEF ParkGoesOn
  <2>5. ExecutorsGoOn
    <3>1. ~Executing(registry.cur)
      BY <2>1, HandBase DEF ExecutorsAlone, Registries
    <3>2. \A g \in Gens : Executing(g) =>
             \A d \in Callers : InRevival(d)' /\ call'[d].gen = g => InRevival(d) /\ call[d].gen = g
      BY <2>2, <2>3, <3>1 DEF InRevival
    <3> QED
      BY <1>1, <2>1, <3>2 DEF ExecutorsGoOn, Executing
  <2>6. WiringGoesOn
    BY <1>1, <2>2, <2>3, HandBase DEF WiringGoesOn, WiringRuns
  <2> QED
    BY <1>1, <1>2, <2>1, <2>4, <2>5, <2>6, MildFrame, TimerRests DEF Steady
<1> QED
  BY <1>4, <1>5, <1>6, <1>7 DEF EnsureStep
-----------------------------------------------------------------------------
LEMMA SettleRests ==
    ASSUME HandInv, NEW c \in Callers, InRevival(c), NEW outcome, Settle(c, outcome),
           outcome.pc \in {"returned", "threw"},
           \A s \in Sessions : s # call[c].sess \/ ~Making(c)
              => (sess'[s].synced => sess[s].synced)
    PROVE  CallsRest
<1>1. \A d \in Callers : \/ call'[d] = outcome
                         \/ d # c /\ call'[d] = call[d]
  BY DEF Settle
<1>2. ASSUME NEW d \in Callers, d # c, call[d].pc \in {"constructing", "wiring"}
      PROVE  call[d].sess \in Sessions /\ (call[d].sess # call[c].sess \/ ~Making(c))
  <2>1. call[d].sess \in Sessions /\ sess[call[d].sess].gen = call[d].gen /\ InRevival(d)
    BY <1>2, HandBase DEF WInv, Writers, RevivalWrites, Making, InRevival
  <2>2. call[d].gen # call[c].gen
    BY <1>2, <2>1, HandBase DEF WInv, OneRevival
  <2> QED
    BY <2>1, <2>2, HandBase DEF WInv, Writers, RevivalWrites
<1> QED
  BY <1>1, <1>2 DEF CallsRest, InRevival

(* The session s is attached to the current ref g. *)
LEMMA AttachForm ==
    ASSUME HandInv, NEW g, NEW s \in Sessions, Attachable(registry, g),
           NEW status \in {"running", "idle"},
           Publish(SetStatus(Attach(registry, g, s), g, status), g)
    PROVE  /\ registry'.ref[g].status = status /\ registry'.ref[g].session = s
           /\ g \in Gens /\ registry.ref[g].status \notin {"unused", "aborted"}
           /\ registry'.cur = g
           /\ \A h \in Gens : h # g => registry'.ref[h] = registry.ref[h]
           /\ RefsStay
           /\ TimerIdle' /\ adopted'.gen \in {adopted.gen, None}
<1> DEFINE a == [status |-> status, session |-> s, file |-> registry.ref[g].file]
<1>1. registry' = [cur |-> g, ref |-> [registry.ref EXCEPT ![g] = a]]
  BY HandBase, SessionAttached DEF Publish
<1>2. /\ g \in Gens /\ registry.ref \in [Gens -> Refs]
      /\ registry.ref[g].status \notin {"unused", "aborted"}
  BY HandBase DEF Attachable, Registered, Registries, Sound, Exists
<1>3. a.status = status /\ a.session = s
  OBVIOUS
<1> HIDE DEF a
<1>4. /\ registry'.ref[g].status = status /\ registry'.ref[g].session = s
      /\ registry'.cur = g
      /\ \A h \in Gens : h # g => registry'.ref[h] = registry.ref[h]
  BY <1>1, <1>2, <1>3
<1>5. RefsStay
  BY <1>2, <1>4 DEF RefsStay
<1>6. TimerIdle' /\ adopted'.gen \in {adopted.gen, None}
  BY HandBase, ThroughAttach, TimerPublish
<1> QED
  BY <1>2, <1>4, <1>5, <1>6
LEMMA RevivalSteady ==
    ASSUME HandInv, NEW c \in Callers, RevivalStep(c)
    PROVE  Steady /\ TimerIdle'
<1> DEFINE g == call[c].gen
           s == call[c].sess
<1>1. UNCHANGED <<park, rel, exec>>
  BY DEF RevivalStep, FactoryReturns, FactoryDeclines, RevivalClaims, RevivalAttaches, RevivalFails,
         RevivalConstructionFails, RevivalStartupFails, RevivalWiringFails, RevivalReturns,
         RevivalRejected
<1>2. ReleasesGoOn /\ ParkRests /\ ParkGoesOn
  BY <1>1, ReleasesRest DEF ParkRests, ParkGoesOn
<1>3. InRevival(c) /\ g \in Gens /\ ~Executing(g)
      /\ \A d \in Callers : d # c /\ InRevival(d) => call[d].gen # g
  <2>1. InRevival(c)
    BY DEF InRevival, RevivalStep, FactoryReturns, FactoryDeclines, RevivalClaims, RevivalAttaches,
           RevivalFails, RevivalConstructionFails, RevivalStartupFails, RevivalWiringFails,
           RevivalReturns, RevivalRejected
  <2> QED
    BY <2>1, HandBase DEF WInv, OneRevival, ExecutorsAlone, Exists
<1>4. Making(c) => s \in Sessions /\ sess[s].gen = g /\ sess[s].state # "none"
  BY HandBase DEF WInv, Writers, RevivalWrites
<1>5. \A d \in Callers : d # c /\ call[d].pc \in {"constructing", "wiring"} =>
         /\ call[d].sess \in Sessions /\ sess[call[d].sess].state # "none"
         /\ call[d].gen # g /\ (Making(c) => call[d].sess # s)
  BY <1>3, <1>4, HandBase DEF WInv, Writers, RevivalWrites, Making, InRevival
<1>6. /\ Threw.pc = "threw" /\ Returned(s).pc = "returned"
      /\ call \in [Callers -> Calls] /\ sess \in [Sessions -> SessionStates]
  BY HandBase DEF Threw, Returned, IdleCall
(* Nothing is attached. *)
<1>7. ASSUME UNCHANGED registry, SessionsStay, CallsRest, ExecutorsRest,
             adopted' = adopted \/ ~adopted'.timer
      PROVE  Steady /\ TimerIdle'
  BY <1>1, <1>2, <1>7, HandBase, MildOperations, MildStep, TimerRests
<1>8. CASE FactoryReturns(c)
  <2>1. /\ call[c].pc = "factory" /\ adopted'.gen = g /\ ~adopted'.timer /\ UNCHANGED <<registry, sess>>
        /\ \/ Settle(c, Threw)
           \/ call' = [call EXCEPT ![c] = [@ EXCEPT !.pc = "opening", !.cold = TRUE]]
    BY <1>8 DEF FactoryReturns, ColdAdoption
  <2>2. ExecutorsRest
    BY <1>1, <1>3, <2>1 DEF ExecutorsRest, Executing
  <2>3. CallsRest
    <3>1. CASE Settle(c, Threw)
      BY <1>3, <1>6, <2>1, <3>1, SettleRests
    <3>2. CASE call' = [call EXCEPT ![c] = [@ EXCEPT !.pc = "opening", !.cold = TRUE]]
      <4>1. call'[c].pc = "opening" /\ call'[c].gen = g /\ \A d \in Callers : d # c => call'[d] = call[d]
        BY <1>6, <3>2 DEF Calls
      <4> QED
        BY <1>3, <1>5, <2>1, <4>1 DEF CallsRest, InRevival
    <3> QED
      BY <2>1, <3>1, <3>2
  <2> QED
    BY <1>7, <2>1, <2>2, <2>3, SessionForms
<1>9. CASE FactoryDeclines(c) \/ RevivalFails(c) \/ RevivalWiringFails(c) \/ RevivalRejected(c)
  <2>1. /\ UNCHANGED <<registry, sess>> /\ Settle(c, Threw)
        /\ adopted' = adopted \/ (~adopted'.timer /\ adopted'.gen = None)
    BY <1>9 DEF FactoryDeclines, RevivalFails, RevivalWiringFails, RevivalRejected, DropCold, NoAdoption
  <2>2. CallsRest
    BY <1>3, <1>6, <2>1, SettleRests
  <2>3. ExecutorsRest
    BY <1>1, <2>1, AdoptionRests
  <2> QED
    BY <1>7, <2>1, <2>2, <2>3, SessionForms
<1>10. CASE RevivalConstructionFails(c)
  <2>1. /\ UNCHANGED <<registry, adopted>> /\ sess' = [sess EXCEPT ![s].state = "disposing"]
        /\ call' = [call EXCEPT ![c].pc = "failing"] /\ call[c].pc = "constructing"
    BY <1>10 DEF RevivalConstructionFails
  <2>2. call'[c].pc = "failing" /\ call'[c].gen = g /\ \A d \in Callers : d # c => call'[d] = call[d]
    BY <1>6, <2>1 DEF Calls
  <2>3. \A t \in Sessions : /\ sess'[t].gen = sess[t].gen /\ sess'[t].synced = sess[t].synced
                            /\ sess'[t].state \in {sess[t].state, "disposing"}
    BY <1>6, <2>1 DEF SessionStates
  <2>4. SessionsStay
    BY <1>4, <2>1, <2>3, HandBase DEF SessionsStay, Making, WInv, Writers, RevivalWrites
  <2>5. CallsRest
    BY <1>3, <1>5, <2>2, <2>3 DEF CallsRest, InRevival
  <2>6. ExecutorsRest
    BY <1>1, <2>1, AdoptionRests
  <2> QED
    BY <1>7, <2>1, <2>4, <2>5, <2>6
<1>11. CASE RevivalStartupFails(c)
  <2>1. /\ UNCHANGED <<registry, adopted>> /\ sess' = Disposing(sess, s)
        /\ call' = [call EXCEPT ![c].pc = "failing"]
    BY <1>11 DEF RevivalStartupFails
  <2>2. call'[c].pc = "failing" /\ call'[c].gen = g /\ \A d \in Callers : d # c => call'[d] = call[d]
    BY <1>6, <2>1 DEF Calls
  <2>3. SessionsStay /\ \A t \in Sessions : sess'[t].synced = sess[t].synced
    BY <2>1, SessionForms, SyncedForms
  <2>4. CallsRest
    BY <1>3, <1>5, <2>2, <2>3 DEF CallsRest, InRevival
  <2>5. ExecutorsRest
    BY <1>1, <2>1, AdoptionRests
  <2> QED
    BY <1>7, <2>1, <2>3, <2>4, <2>5
<1>12. CASE RevivalReturns(c)
  <2> DEFINE synced == [sess EXCEPT ![s].synced = TRUE]
  <2>1. /\ call[c].pc = "wiring"
        /\ \/ /\ Claimable(registry, g) \/ Registered(registry, g)
              /\ Publish(SetStatus(Attach(registry, g, s), g, "idle"), g)
              /\ sess' = synced /\ Settle(c, Returned(s))
              /\ Claimable(registry, g) \/ registry.ref[g].status = "running"
           \/ /\ sess' = Disposing(synced, s) /\ UNCHANGED <<registry, adopted>>
              /\ call' = [call EXCEPT ![c].pc = "rejecting"]
    BY <1>12 DEF RevivalReturns
  <2>2. Making(c) /\ s \in Sessions /\ sess[s].state # "none" /\ Wired(c)
    BY <1>4, <2>1, HandBase DEF Making, WiringRuns
  <2>3. /\ synced \in [Sessions -> SessionStates]
        /\ \A t \in Sessions : t # s => synced[t].synced = sess[t].synced
    BY <1>6, <2>2 DEF SessionStates
  <2>4. CASE /\ sess' = Disposing(synced, s) /\ UNCHANGED <<registry, adopted>>
             /\ call' = [call EXCEPT ![c].pc = "rejecting"]
    <3>1. call'[c].pc = "rejecting" /\ call'[c].gen = g /\ \A d \in Callers : d # c => call'[d] = call[d]
      BY <1>6, <2>4 DEF Calls
    <3>2. SessionsStay
      BY <2>2, <2>4, SessionForms
    <3>3. \A t \in Sessions : t # s => sess'[t].synced = sess[t].synced
      <4> HIDE DEF synced
      <4> QED
        BY <2>3, <2>4 DEF Disposing, SessionStates
    <3>4. CallsRest
      BY <1>3, <1>5, <2>2, <3>1, <3>3 DEF CallsRest, InRevival
    <3>5. ExecutorsRest
      BY <1>1, <2>4, AdoptionRests
    <3> QED
      BY <1>7, <2>4, <3>2, <3>4, <3>5
  <2>5. CASE /\ Claimable(registry, g) \/ Registered(registry, g)
             /\ Publish(SetStatus(Attach(registry, g, s), g, "idle"), g)
             /\ sess' = synced /\ Settle(c, Returned(s))
             /\ Claimable(registry, g) \/ registry.ref[g].status = "running"
    <3>1. registry.ref[g].status = "running" /\ registry.ref[g].session = s /\ Attachable(registry, g)
      BY <2>2, <2>5 DEF Claimable, Wired, Attachable, Registered
    <3>2. /\ registry'.ref[g].status = "idle" /\ registry'.ref[g].session = s /\ registry'.cur = g
          /\ \A h \in Gens : h # g => registry'.ref[h] = registry.ref[h]
          /\ TimerIdle' /\ adopted'.gen \in {adopted.gen, None}
      BY <2>2, <2>5, <3>1, AttachForm
    <3>3. Mild(registry, registry')
      BY <3>1, <3>2 DEF Mild, Calm, Attachable, Registered
    <3>4. SessionsStay
      BY <2>2, <2>5, SessionForms
    <3>5. CallsRest
      <4> HIDE DEF synced
      <4>1. \A t \in Sessions : t # s \/ ~Making(c) => (sess'[t].synced => sess[t].synced)
        BY <2>2, <2>3, <2>5
      <4> QED
        BY <1>3, <1>6, <2>5, <4>1, SettleRests
    <3>6. ExecutorsRest
      BY <1>1, <3>2, AdoptionRests
    <3>7. \A d \in Callers : call'[d].pc = "wiring" => registry'.ref[call[d].gen] = registry.ref[call[d].gen]
      <4>1. \A d \in Callers : \/ call'[d] = Returned(s)
                               \/ d # c /\ call'[d] = call[d]
        BY <2>5 DEF Settle
      <4>2. \A d \in Callers : call'[d].pc = "wiring" => InRevival(d) /\ d # c
        BY <1>6, <4>1 DEF InRevival
      <4> QED
        BY <1>3, <3>2, <4>2, HandBase DEF Exists
    <3> QED
      BY <1>2, <3>2, <3>3, <3>4, <3>5, <3>6, <3>7, MildStep
  <2> QED
    BY <2>1, <2>4, <2>5
(* The session that is being built reports nothing yet. *)
<1>13. ASSUME NEW t \in Sessions, RevivalClaims(c, t) PROVE Steady /\ TimerIdle'
  <2>1. /\ call[c].pc = "opening" /\ sess[t].state = "none" /\ UNCHANGED <<registry, adopted>>
        /\ sess' = [sess EXCEPT ![t] = [@ EXCEPT !.state = "building", !.gen = g]]
        /\ call' = [call EXCEPT ![c] = [@ EXCEPT !.pc = "constructing", !.sess = t]]
    BY <1>13 DEF RevivalClaims, NextSession
  <2>2. /\ call'[c].pc = "constructing" /\ call'[c].gen = g /\ call'[c].sess = t
        /\ \A d \in Callers : d # c => call'[d] = call[d]
    BY <1>6, <2>1 DEF Calls
  <2>3. /\ sess'[t].state = "building" /\ \A u \in Sessions : u # t => sess'[u] = sess[u]
        /\ sess'[t].synced = sess[t].synced /\ ~sess[t].synced
    BY <1>6, <2>1, HandBase DEF SessionStates, WiringRuns
  <2>4. SessionsStay
    BY <2>1, <2>3 DEF SessionsStay
  <2>5. RefsStay /\ SessionsAttach /\ TimerIdle'
    BY <2>1, HandBase, MildOperations, MildFrame, TimerRests
  <2>6. ExecutorsGoOn
    BY <1>1, <1>3, <2>1, <2>2 DEF ExecutorsGoOn, Executing, InRevival
  <2>7. WiringGoesOn
    BY <1>5, <2>1, <2>2, <2>3, HandBase DEF WiringGoesOn, WiringRuns
  <2> QED
    BY <1>2, <2>4, <2>5, <2>6, <2>7 DEF Steady
<1>14. CASE RevivalAttaches(c)
  <2>1. /\ call[c].pc = "constructing" /\ Attachable(registry, g)
        /\ Publish(SetStatus(Attach(registry, g, s), g, "running"), g)
        /\ sess' = [sess EXCEPT ![s].state = "live"]
        /\ call' = [call EXCEPT ![c].pc = "wiring"]
    BY <1>14 DEF RevivalAttaches
  <2>2. Making(c) /\ s \in Sessions /\ sess[s].gen = g /\ ~sess[s].synced
    BY <1>4, <2>1, HandBase DEF Making, WiringRuns
  <2>3. /\ registry'.ref[g].status = "running" /\ registry'.ref[g].session = s
        /\ \A h \in Gens : h # g => registry'.ref[h] = registry.ref[h]
        /\ RefsStay /\ TimerIdle' /\ adopted'.gen \in {adopted.gen, None}
    BY <2>1, <2>2, AttachForm
  <2>4. /\ call'[c].pc = "wiring" /\ call'[c].gen = g /\ call'[c].sess = s
        /\ \A d \in Callers : d # c => call'[d] = call[d]
    BY <1>6, <2>1 DEF Calls
  <2>5. /\ sess'[s].state = "live"
        /\ \A t \in Sessions : /\ sess'[t].gen = sess[t].gen /\ sess'[t].synced = sess[t].synced
                                /\ sess'[t].state \in {sess[t].state, "live"}
    BY <1>6, <2>1, <2>2 DEF SessionStates
  <2>6. ~Parking(g) /\ ~Parking(g)'
    BY <1>1, <2>1, HandBase DEF WInv, RevivedDetached, Parking, Attachable, Registered
  <2>7. SessionsStay
    BY <2>5 DEF SessionsStay
  <2>8. SessionsAttach
    BY <2>2, <2>3, <2>5, <2>6 DEF SessionsAttach
  <2>9. ExecutorsGoOn
    <3>1. \A h \in Gens : adopted'.gen = h => adopted.gen = h
      BY <2>3, AgentRegistryAssumption DEF None
    <3> QED
      BY <1>1, <1>3, <2>3, <2>4, <3>1 DEF ExecutorsGoOn, Executing, InRevival
  <2>10. WiringGoesOn
    <3> SUFFICES ASSUME NEW d \in Callers
                 PROVE  /\ call'[d].pc = "wiring" =>
                             \/ Wired(d)'
                             \/ /\ call'[d] = call[d]
                                /\ registry'.ref[call[d].gen] = registry.ref[call[d].gen]
                        /\ call'[d].pc \in {"constructing", "wiring"} => ~sess'[call'[d].sess].synced
      BY DEF WiringGoesOn
    <3>1. CASE d = c
      <4>1. Wired(c)'
        BY <2>3, <2>4, <2>6 DEF Wired, Parking
      <4>2. ~sess'[call'[c].sess].synced
        BY <2>2, <2>4, <2>5
      <4> QED
        BY <3>1, <4>1, <4>2
    <3>2. CASE d # c
      <4>1. call[d].pc = "wiring" => call[d].gen \in Gens
        BY HandBase DEF InRevival, Exists
      <4>2. call'[d] = call[d]
        BY <2>4, <3>2
      <4>3. call[d].pc = "wiring" => registry'.ref[call[d].gen] = registry.ref[call[d].gen]
        BY <1>5, <2>3, <3>2, <4>1
      <4>4. call[d].pc \in {"constructing", "wiring"} => ~sess'[call[d].sess].synced
        BY <1>5, <2>5, <3>2, HandBase DEF WiringRuns
      <4> QED
        BY <4>2, <4>3, <4>4
    <3> QED
      BY <3>1, <3>2
  <2> QED
    BY <1>2, <2>3, <2>7, <2>8, <2>9, <2>10 DEF Steady
<1> QED
  BY <1>8, <1>9, <1>10, <1>11, <1>12, <1>13, <1>14 DEF RevivalStep
-----------------------------------------------------------------------------
(* A step that registers the ref g, which nobody knows yet. *)
LEMMA RegisterSteady ==
    ASSUME HandInv, NEW g \in Gens, registry.ref[g].status = "unused",
           NEW v, v \in Registries, v.ref = registry.ref,
           NEW status \in Statuses, NEW f, registry' = Register(v, g, status, f),
           UNCHANGED <<sess, park, call, rel>>, adopted'.gen \in {adopted.gen, None},
           \A h \in Gens : h # g => exec'[h] = exec[h],
           exec'[g].pc \notin {"wiring", "running"},
           exec'[g].pc = "constructing" => status = "running"
    PROVE  Steady /\ TimerIdle'
<1>1. /\ registry'.cur = g /\ registry'.ref[g].status = status /\ registry'.ref[g].session = None
      /\ status # "unused"
      /\ \A h \in Gens : h # g => registry'.ref[h] = registry.ref[h]
  BY DEF Register, Registries, Statuses
<1>2. /\ adopted'.gen # g
      /\ \A c \in Callers : InRevival(c) => call[c].gen # g /\ call[c].gen \in Gens
      /\ \A h \in Gens : adopted'.gen = h => adopted.gen = h
  BY HandBase, AgentRegistryAssumption DEF Exists, None
<1>3. TimerIdle'
  BY <1>1, <1>2 DEF TimerIdle, Registered
<1>4. RefsStay /\ SessionsStay /\ SessionsAttach /\ ParkGoesOn /\ ReleasesGoOn
  BY <1>1 DEF RefsStay, SessionsStay, SessionsAttach, ParkGoesOn, ReleasesGoOn
<1>5. ExecutorsGoOn
  BY <1>1, <1>2 DEF ExecutorsGoOn, Executing, InRevival
<1>6. WiringGoesOn
  BY <1>1, <1>2, HandBase DEF WiringGoesOn, WiringRuns, InRevival
<1> QED
  BY <1>3, <1>4, <1>5, <1>6 DEF Steady

(* What belongs to a running executor is no revival's. *)
LEMMA ExecutorsOwn ==
    ASSUME HandInv, NEW g \in Gens, Executing(g)
    PROVE  /\ g # None
           /\ \A c \in Callers : InRevival(c) => call[c].gen # g /\ call[c].gen \in Gens
           /\ exec[g].pc \in {"wiring", "running"} =>
                 /\ exec[g].sess \in Sessions /\ sess[exec[g].sess].state # "none"
                 /\ \A c \in Callers : call[c].pc \in {"constructing", "wiring"}
                                         => call[c].sess \in Sessions \ {exec[g].sess}
<1>1. g # None /\ \A c \in Callers : InRevival(c) => call[c].gen # g /\ call[c].gen \in Gens
  BY HandBase, AgentRegistryAssumption DEF ExecutorsAlone, Exists, None
<1>2. \A c \in Callers : call[c].pc \in {"constructing", "wiring"} =>
         InRevival(c) /\ call[c].sess \in Sessions /\ sess[call[c].sess].gen = call[c].gen
  BY HandBase DEF WInv, Writers, RevivalWrites, Making, InRevival
<1> QED
  BY <1>1, <1>2, HandBase DEF ExecutorsAlone

LEMMA ExecutorSteady ==
    ASSUME HandInv, NEW g \in Gens,
           ExecutorStep(g) \/ ScanRegisters(g) \/ \E f \in Files : Spawn(g, f)
    PROVE  Steady /\ TimerIdle'
<1>1. UNCHANGED <<park, call, rel>>
  BY DEF ExecutorStep, SpawnClaims, ProbeReturns, ProbeRefuses, SpawnAttaches, SpawnFails,
         SpawnStartupFails, SpawnReturns, ExecutorKeepsAlive, ScanRegisters, Spawn
<1>2. ReleasesGoOn /\ ParkRests
  BY <1>1, ReleasesRest DEF ParkRests
(* Nothing is registered or attached. *)
<1>3. ASSUME Mild(registry, registry'), TimerIdle', SessionsStay, CallsRest,
             \A h \in Gens : h # g => exec'[h] = exec[h],
             exec'[g].pc \in {"probing", "claiming", "done"},
             \A h \in Gens : h # g /\ adopted'.gen = h => adopted.gen = h,
             \A c \in Callers : call[c].pc = "wiring"
                => registry'.ref[call[c].gen] = registry.ref[call[c].gen]
      PROVE  Steady /\ TimerIdle'
  <2>1. ExecutorsRest
    BY <1>3 DEF ExecutorsRest, Executing
  <2> QED
    BY <1>1, <1>2, <1>3, <2>1, MildStep
<1>4. sess' = sess => SessionsStay /\ CallsRest
  BY <1>1, SessionForms, CallsUntouched
<1>5. \A s : sess' = Disposing(sess, s) => SessionsStay /\ CallsRest
  BY <1>1, SessionForms, SyncedForms, CallsUntouched
<1>6. /\ exec \in [Gens -> Executors] /\ sess \in [Sessions -> SessionStates]
      /\ \A pc \in {"probing", "claiming", "constructing", "running", "done"} :
            [exec[g] EXCEPT !.pc = pc].pc = pc /\ [exec[g] EXCEPT !.pc = pc].sess = exec[g].sess
  BY HandBase DEF Executors
<1>7. ASSUME NEW f \in Files, registry.cur = None, registry.ref[g].status = "unused",
             registry' = Register(registry, g, "running", f),
             exec' = [exec EXCEPT ![g].pc = "constructing"],
             UNCHANGED <<sess, adopted>>
      PROVE  Steady /\ TimerIdle'
  <2>1. exec'[g].pc = "constructing" /\ \A h \in Gens : h # g => exec'[h] = exec[h]
    BY <1>6, <1>7
  <2>2. "running" \in Statuses
    BY DEF Statuses
  <2> QED
    BY <1>1, <1>7, <2>1, <2>2, HandBase, RegisterSteady
<1>8. ASSUME UNCHANGED <<sess, adopted>>,
             registry' = registry \/ (\E h : registry' = Unregister(registry, h)),
             \A h \in Gens : h # g => exec'[h] = exec[h],
             exec'[g].pc \in {"probing", "claiming", "done"}
      PROVE  Steady /\ TimerIdle'
  <2>1. Mild(registry, registry') /\ registry'.ref = registry.ref
    BY <1>8, HandBase, MildOperations
  <2>2. TimerIdle'
    BY <1>8, <2>1, HandBase DEF TimerIdle, Registered, Unregister, Registries
  <2> QED
    BY <1>3, <1>4, <1>8, <2>1, <2>2
<1>9. ASSUME NEW f \in Files, Spawn(g, f) PROVE Steady /\ TimerIdle'
  <2>1. registry.ref[g].status = "unused" /\ UNCHANGED <<sess, adopted>>
    BY <1>9 DEF Spawn, NextGen
  <2>2. \/ /\ registry.cur = None /\ registry' = Register(registry, g, "running", f)
           /\ exec' = [exec EXCEPT ![g].pc = "constructing"]
        \/ /\ registry' = Unregister(registry, registry.cur)
           /\ exec' = [exec EXCEPT ![g].pc = "claiming"]
        \/ /\ registry' = registry
           /\ exec' = [exec EXCEPT ![g] = [@ EXCEPT !.pc = "probing", !.target = registry.cur]]
    BY <1>9 DEF Spawn
  <2>3. [exec[g] EXCEPT !.pc = "probing", !.target = registry.cur].pc = "probing"
    BY <1>6 DEF Executors
  <2> QED
    BY <1>6, <1>7, <1>8, <2>1, <2>2, <2>3
<1>10. ASSUME NEW f \in Files, SpawnClaims(g, f) PROVE Steady /\ TimerIdle'
  <2>1. registry.ref[g].status = "unused" /\ UNCHANGED <<sess, adopted>>
    BY <1>10, HandBase DEF SpawnClaims, WInv, NewRefs, Unmade
  <2>2. \/ /\ registry.cur = None /\ registry' = Register(registry, g, "running", f)
           /\ exec' = [exec EXCEPT ![g].pc = "constructing"]
        \/ registry' = registry /\ exec' = [exec EXCEPT ![g].pc = "done"]
    BY <1>10 DEF SpawnClaims
  <2> QED
    BY <1>6, <1>7, <1>8, <2>1, <2>2
<1>11. CASE ProbeReturns(g) \/ ProbeRefuses(g)
  <2>1. /\ UNCHANGED <<sess, adopted>>
        /\ registry' = registry \/ (\E h : registry' = Unregister(registry, h))
        /\ \E pc \in {"claiming", "done"} : exec' = [exec EXCEPT ![g].pc = pc]
    BY <1>11 DEF ProbeReturns, ProbeRefuses
  <2>2. exec'[g].pc \in {"claiming", "done"} /\ \A h \in Gens : h # g => exec'[h] = exec[h]
    BY <1>6, <2>1
  <2> QED
    BY <1>8, <2>1, <2>2
<1>12. CASE ScanRegisters(g)
  <2> DEFINE v == Unregister(registry, scan.expected)
             status == IF scan.tombstoned THEN "aborted" ELSE "parked"
  <2>1. /\ registry.ref[g].status = "unused" /\ exec[g].pc = "unused" /\ UNCHANGED <<sess, exec>>
        /\ registry' = Register(v, g, status, scan.file)
        /\ adopted' = OnRegistryEvent(adopted, registry, v, scan.expected)
    BY <1>12 DEF ScanRegisters, NextGen
  <2>2. v \in Registries /\ v.ref = registry.ref /\ status \in Statuses
    BY HandBase DEF Unregister, Registries, Statuses
  <2>3. adopted'.gen \in {adopted.gen, None}
    <3> HIDE DEF v
    <3> QED
      BY <2>1, HandBase DEF OnRegistryEvent, NoAdoption, Adoptions
  <2> HIDE DEF v, status
  <2> QED
    BY <1>1, <2>1, <2>2, <2>3, RegisterSteady
<1>13. CASE SpawnFails(g)
  <2>1. /\ \E q \in {registry, Unregister(registry, g)} : Publish(q, g)
        /\ exec' = [exec EXCEPT ![g].pc = "done"] /\ UNCHANGED sess
    BY <1>13 DEF SpawnFails
  <2>2. /\ \A q \in {registry, Unregister(registry, g)} : Through(registry, q, g)
        /\ Mild(registry, registry') /\ registry'.ref = registry.ref
    BY <2>1, HandBase, ThroughSame, ThroughUnregister, MildOperations DEF Publish
  <2>3. TimerIdle' /\ adopted'.gen \in {adopted.gen, None}
    BY <2>1, <2>2, TimerPublish
  <2>4. \A h \in Gens : adopted'.gen = h => adopted.gen = h
    BY <2>3, AgentRegistryAssumption DEF None
  <2> QED
    BY <1>3, <1>4, <1>6, <2>1, <2>2, <2>3, <2>4
<1>14. CASE SpawnStartupFails(g)
  <2>1. /\ UNCHANGED <<registry, adopted>> /\ sess' = Disposing(sess, exec[g].sess)
        /\ exec' = [exec EXCEPT ![g].pc = "done"]
    BY <1>14 DEF SpawnStartupFails
  <2>2. Mild(registry, registry') /\ TimerIdle'
    BY <2>1, HandBase, MildOperations, TimerRests
  <2> QED
    BY <1>3, <1>5, <1>6, <2>1, <2>2
<1>15. CASE SpawnReturns(g)
  <2>1. /\ exec[g].pc = "wiring" /\ UNCHANGED <<registry, adopted>>
        /\ sess' = [sess EXCEPT ![exec[g].sess].synced = TRUE]
        /\ exec' = [exec EXCEPT ![g].pc = "running"]
    BY <1>15 DEF SpawnReturns
  <2>2. /\ exec[g].sess \in Sessions /\ sess[exec[g].sess].state # "none"
        /\ \A c \in Callers : call[c].pc \in {"constructing", "wiring"}
                                => call[c].sess \in Sessions \ {exec[g].sess}
    BY <2>1, ExecutorsOwn DEF Executing
  <2>3. SessionsStay
    BY <2>1, <2>2, SessionForms
  <2>4. CallsRest
    BY <1>1, <1>6, <2>1, <2>2 DEF CallsRest, InRevival
  <2>5. ExecutorsRest
    BY <1>6, <2>1 DEF ExecutorsRest, Executing
  <2>6. Mild(registry, registry') /\ TimerIdle'
    BY <2>1, HandBase, MildOperations, TimerRests
  <2> QED
    BY <1>1, <1>2, <2>1, <2>3, <2>4, <2>5, <2>6, MildStep
(* The run is over: the ref turns idle, and its timer starts. *)
<1>16. CASE ExecutorKeepsAlive(g)
  <2>1. /\ exec[g].pc = "running" /\ exec' = [exec EXCEPT ![g].pc = "done"]
        /\ \/ /\ OwnsRef(g) /\ registry' = SetStatus(registry, g, "idle") /\ UNCHANGED sess
              /\ adopted' = [gen |-> g, timer |-> Armed, cold |-> NoCaller]
           \/ sess' = Disposing(sess, exec[g].sess) /\ UNCHANGED <<registry, adopted>>
    BY <1>16 DEF ExecutorKeepsAlive
  <2>2. g # None /\ \A c \in Callers : InRevival(c) => call[c].gen # g /\ call[c].gen \in Gens
    BY <2>1, ExecutorsOwn DEF Executing
  <2>3. CASE sess' = Disposing(sess, exec[g].sess) /\ UNCHANGED <<registry, adopted>>
    <3>1. Mild(registry, registry') /\ TimerIdle'
      BY <2>3, HandBase, MildOperations, TimerRests
    <3> QED
      BY <1>3, <1>5, <1>6, <2>1, <2>3, <3>1
  <2>4. CASE /\ OwnsRef(g) /\ registry' = SetStatus(registry, g, "idle") /\ UNCHANGED sess
             /\ adopted' = [gen |-> g, timer |-> Armed, cold |-> NoCaller]
    <3>1. Mild(registry, registry') /\ Through(registry, registry', g)
      BY <2>4, HandBase, MildOperations, ThroughSetStatus
    <3>2. \A c \in Callers : call[c].pc = "wiring" => registry'.ref[call[c].gen] = registry.ref[call[c].gen]
      BY <2>2, <3>1 DEF Through, InRevival
    <3>3. registry'.ref[g].status # "running"
      BY <2>4, HandBase DEF OwnsRef, SetStatus, Registered, Sound, Registries, Refs
    <3>4. TimerIdle'
      BY <2>4, <3>3 DEF TimerIdle
    <3> QED
      BY <1>3, <1>4, <1>6, <2>1, <2>4, <3>1, <3>2, <3>4
  <2> QED
    BY <2>1, <2>3, <2>4
<1>17. ASSUME NEW s \in Sessions, SpawnAttaches(g, s) PROVE Steady /\ TimerIdle'
  <2>1. /\ exec[g].pc = "constructing" /\ sess[s].state = "none" /\ Attachable(registry, g)
        /\ Publish(SetStatus(Attach(registry, g, s), g, "running"), g)
        /\ sess' = [sess EXCEPT ![s] = [@ EXCEPT !.state = "live", !.gen = g]]
        /\ exec' = [exec EXCEPT ![g] = [@ EXCEPT !.pc = "wiring", !.sess = s]]
    BY <1>17 DEF SpawnAttaches, NextSession
  <2>2. /\ registry'.ref[g].status = "running" /\ registry'.ref[g].session = s
        /\ \A h \in Gens : h # g => registry'.ref[h] = registry.ref[h]
        /\ RefsStay /\ TimerIdle' /\ adopted'.gen \in {adopted.gen, None}
    BY <2>1, AttachForm
  <2>3. /\ sess'[s].state = "live" /\ sess'[s].gen = g /\ sess'[s].synced = sess[s].synced
        /\ \A t \in Sessions : t # s => sess'[t] = sess[t]
    BY <1>6, <2>1 DEF SessionStates
  <2>4. exec'[g].pc = "wiring" /\ exec'[g].sess = s /\ \A h \in Gens : h # g => exec'[h] = exec[h]
    BY <1>6, <2>1 DEF Executors
  <2>5. Executing(g) /\ ~Parking(g) /\ \A c \in Callers : InRevival(c) => call[c].gen # g /\ call[c].gen \in Gens
    BY <2>1, HandBase, ExecutorsOwn DEF Executing, ExecutorsAlone
  <2>6. SessionsStay
    BY <2>1, <2>3 DEF SessionsStay
  <2>7. SessionsAttach
    BY <2>2, <2>3, <2>5 DEF SessionsAttach
  <2>8. ParkGoesOn
    BY <1>1 DEF ParkGoesOn
  <2>9. ExecutorsGoOn
    <3>1. \A h \in Gens : adopted'.gen = h => adopted.gen = h
      BY <2>2, AgentRegistryAssumption DEF None
    <3> QED
      BY <1>1, <2>2, <2>3, <2>4, <2>5, <3>1 DEF ExecutorsGoOn, Executing, InRevival
  <2>10. WiringGoesOn
    <3>1. \A c \in Callers : call[c].pc \in {"constructing", "wiring"} =>
             call[c].sess \in Sessions /\ call[c].sess # s
      BY <2>1, HandBase DEF WInv, Writers, RevivalWrites, Making
    <3> QED
      BY <1>1, <2>2, <2>3, <2>5, <3>1, HandBase DEF WiringGoesOn, WiringRuns, InRevival
  <2> QED
    BY <1>2, <2>2, <2>6, <2>7, <2>8, <2>9, <2>10 DEF Steady
<1> QED
  BY <1>9, <1>10, <1>11, <1>12, <1>13, <1>14, <1>15, <1>16, <1>17 DEF ExecutorStep
-----------------------------------------------------------------------------
(* A kill turns the ref it captures the session of terminal, and a plain   *)
(* release at most takes the id from its ref.                              *)
LEMMA ReleaseSteady ==
    ASSUME HandInv, NEW k \in Killers,
           \/ \E kind \in KillKinds : Kill(k, kind)
           \/ \E g \in Gens, kind \in KillKinds : ExecutorAborts(g, k, kind)
           \/ ReleaseStep(k)
    PROVE  Steady /\ TimerIdle'
<1>1. /\ IInv /\ rel \in [Killers -> Releases] /\ \A j \in Killers : rel[j] \in Releases
      /\ Sound(registry) /\ exec \in [Gens -> Executors]
  BY HandBase
<1>2. UNCHANGED call
  BY DEF Kill, ExecutorAborts, ReleaseStep, KillAborted, ReleaseCommits, TombstonePersisted,
         ReleaseDisposed, ReleaseFinishes
<1>3. \A h \in Gens : exec'[h] = exec[h] \/ exec'[h].pc = "done"
  <2>1. ASSUME NEW g \in Gens, NEW kind \in KillKinds, ExecutorAborts(g, k, kind)
        PROVE  \A h \in Gens : exec'[h] = exec[h] \/ exec'[h].pc = "done"
    BY <1>1, <2>1 DEF ExecutorAborts, Executors
  <2>2. CASE (\E kind \in KillKinds : Kill(k, kind)) \/ ReleaseStep(k)
    BY <2>2 DEF Kill, ReleaseStep, KillAborted, ReleaseCommits, TombstonePersisted, ReleaseDisposed,
                ReleaseFinishes
  <2> QED
    BY <2>1, <2>2
(* Nothing is attached, and a running ref at most turns terminal. *)
<1>4. ASSUME NEW g, registry' \in {registry, Terminal(registry, g), Unregister(registry, g)},
             adopted'.gen \in {adopted.gen, None}, TimerIdle', ParkRests,
             sess' = sess \/ (\E s : sess' = Disposing(sess, s)), ReleasesGoOn
      PROVE  Steady
  <2>1. /\ Mild(registry, registry')
        /\ \A h \in Gens : registry'.ref[h] = registry.ref[h] \/ registry'.ref[h].status = "aborted"
    BY <1>1, <1>4, MildOperations, TerminalRefs
  <2>2. SessionsStay /\ CallsRest
    BY <1>2, <1>4, SessionForms, SyncedForms, CallsUntouched
  <2>3. ExecutorsRest
    <3>1. \A h \in Gens : adopted'.gen = h => adopted.gen = h
      BY <1>4, AgentRegistryAssumption DEF None
    <3> QED
      BY <1>3, <3>1 DEF ExecutorsRest, Executing
  <2>4. \A c \in Callers : call'[c].pc = "wiring" =>
           \/ registry'.ref[call[c].gen] = registry.ref[call[c].gen]
           \/ registry'.ref[call[c].gen].status = "aborted"
    BY <1>2, <2>1, HandBase DEF InRevival, Exists
  <2> QED
    BY <1>4, <2>1, <2>2, <2>3, <2>4, MildStep
(* The adoption at most goes, with its timer. *)
<1>5. ASSUME NEW g, registry' \in {registry, Terminal(registry, g)},
             adopted' = adopted \/ adopted' = NoAdoption, ParkRests,
             sess' = sess \/ (\E s : sess' = Disposing(sess, s)), ReleasesGoOn
      PROVE  Steady /\ TimerIdle'
  <2>1. /\ registry'.cur \in {registry.cur, None}
        /\ \A h \in Gens : registry'.ref[h] = registry.ref[h] \/ registry'.ref[h].status = "aborted"
    BY <1>1, <1>5, MildOperations, TerminalRefs DEF Mild, Calm
  <2>2. adopted'.gen \in {adopted.gen, None}
    BY <1>5 DEF NoAdoption
  <2>3. TimerIdle'
    <3>1. registry.cur \in Gens \cup {None}
      BY HandBase DEF Registries
    <3> QED
      BY <1>5, <2>1, <3>1, HandBase DEF TimerIdle, Registered, NoAdoption
  <2> QED
    BY <1>4, <1>5, <2>2, <2>3
(* The commit captures the session of the ref it turns terminal. *)
<1>6. ASSUME NEW g, Exists(registry, g), registry' = Terminal(registry, g), UNCHANGED sess,
             \A j \in Killers : j # k => rel'[j] = rel[j],
             rel'[k].gen = g, rel'[k].live = Captured(g)
      PROVE  ReleasesGoOn
  <2>1. ASSUME Captured(g) # None
        PROVE  /\ sess[Captured(g)].state # "none" /\ sess[Captured(g)].gen = g
               /\ registry'.ref[g].status = "aborted"
    BY <1>1, <1>6, <2>1, HandBase, TerminalRefs DEF Captured, Owned, Exists
  <2> QED
    BY <1>6, <2>1 DEF ReleasesGoOn, KillDisposes
(* A plain release disposes of nothing for good. *)
<1>7. ASSUME \A j \in Killers : j # k => rel'[j] = rel[j], ~KillDisposes(rel'[k])
      PROVE  ReleasesGoOn
  BY <1>7 DEF ReleasesGoOn
<1>8. ASSUME NEW r \in Releases, NEW expected, ReleaseFrom(k, expected, r)
      PROVE  Steady /\ TimerIdle'
  <2>1. /\ adopted' = adopted \/ adopted' = NoAdoption
        /\ sess' = sess \/ (\E s : sess' = Disposing(sess, s))
        /\ r.kind \in Tombstones => sess' = sess
    BY <1>8 DEF ReleaseFrom, ReleaseCommit
  <2>2. ParkRests
    <3>1. park.cancelled \in BOOLEAN
      BY HandBase DEF Parks
    <3>2. \/ park' = park
          \/ park' = [park EXCEPT !.cancelled = park.cancelled \/ park.pc = "yielding"]
      BY <1>8 DEF ReleaseFrom
    <3> QED
      BY <3>1, <3>2 DEF ParkRests
  <2>3. /\ \A j \in Killers : j # k => rel'[j] = rel[j]
        /\ \/ rel'[k] = IdleRelease /\ registry' = registry
           \/ rel'[k].pc = "parking" /\ registry' = registry
           \/ rel'[k].kind \notin Tombstones /\ registry' = registry
           \/ \E g \in Gens :
                 /\ r.kind \in Tombstones
                 /\ Exists(registry, g) /\ registry' = Terminal(registry, g)
                 /\ rel'[k].gen = g /\ rel'[k].live = Captured(g)
    BY <1>1, <1>8, FromRecord
  <2>4. CASE /\ registry' = registry
             /\ \/ rel'[k] = IdleRelease \/ rel'[k].pc = "parking"
                \/ rel'[k].kind \notin Tombstones
    <3>1. ReleasesGoOn
      BY <1>7, <2>3, <2>4 DEF KillDisposes, IdleRelease
    <3> QED
      BY <1>5, <2>1, <2>2, <2>4, <3>1
  <2>5. ASSUME NEW g \in Gens, r.kind \in Tombstones,
               Exists(registry, g), registry' = Terminal(registry, g),
               rel'[k].gen = g, rel'[k].live = Captured(g)
        PROVE  Steady /\ TimerIdle'
    BY <1>5, <1>6, <2>1, <2>2, <2>3, <2>5
  <2> QED
    BY <2>3, <2>4, <2>5
<1>9. ASSUME NEW kind \in KillKinds, Kill(k, kind) PROVE Steady /\ TimerIdle'
  <2> DEFINE r == [IdleRelease EXCEPT !.kind = kind, !.target = registry.cur]
             expected == IF kind = "hubKill" THEN registry.cur ELSE None
  <2>1. registry.cur \in Gens
    BY <1>1, <1>9 DEF Kill, Sound, Exists
  <2>2. r \in Releases
    BY <2>1, RequestMade
  <2>3. [r EXCEPT !.pc = "aborting"].pc = "aborting"
    BY DEF IdleRelease
  <2>4. \/ /\ rel' = [rel EXCEPT ![k] = [r EXCEPT !.pc = "aborting"]]
           /\ UNCHANGED <<registry, sess, adopted, park>>
        \/ ReleaseFrom(k, expected, r)
    BY <1>9 DEF Kill
  <2> HIDE DEF r, expected
  <2>5. CASE ReleaseFrom(k, expected, r)
    BY <1>8, <2>2, <2>5
  <2>6. CASE /\ rel' = [rel EXCEPT ![k] = [r EXCEPT !.pc = "aborting"]]
             /\ UNCHANGED <<registry, sess, adopted, park>>
    <3>1. ReleasesGoOn /\ ParkRests
      BY <1>1, <1>7, <2>3, <2>6 DEF KillDisposes, ParkRests
    <3> QED
      BY <1>5, <2>6, <3>1
  <2> QED
    BY <2>4, <2>5, <2>6
<1>10. CASE KillAborted(k)
  <2>1. \E expected : ReleaseFrom(k, expected, rel[k])
    BY <1>10 DEF KillAborted
  <2> QED
    BY <1>1, <1>8, <2>1
<1>11. ASSUME NEW g \in Gens, NEW kind \in KillKinds, ExecutorAborts(g, k, kind) PROVE Steady /\ TimerIdle'
  <2> DEFINE r == [IdleRelease EXCEPT !.kind = kind, !.target = g]
  <2>1. r \in Releases
    BY RequestMade
  <2>2. \/ ReleaseFrom(k, g, r)
        \/ sess' = Disposing(sess, exec[g].sess) /\ UNCHANGED <<registry, adopted, park, rel>>
    BY <1>11 DEF ExecutorAborts
  <2> HIDE DEF r
  <2>3. CASE ReleaseFrom(k, g, r)
    BY <1>8, <2>1, <2>3
  <2>4. CASE sess' = Disposing(sess, exec[g].sess) /\ UNCHANGED <<registry, adopted, park, rel>>
    <3>1. ReleasesGoOn /\ ParkRests
      BY <2>4, ReleasesRest DEF ParkRests
    <3> QED
      BY <1>5, <2>4, <3>1
  <2> QED
    BY <2>2, <2>3, <2>4
<1>12. CASE ReleaseCommits(k)
  <2> DEFINE g == rel[k].gen
  <2>1. /\ Exists(registry, g) /\ ReleaseCommit(k, g, rel[k]) /\ UNCHANGED <<adopted, park>>
    BY <1>1, <1>12 DEF ReleaseCommits, IInv, RelOK
  <2>2. /\ rel'[k].live = Captured(g) /\ rel'[k].gen = g /\ rel'[k].kind = rel[k].kind
        /\ \A j \in Killers : j # k => rel'[j] = rel[j]
    BY <1>1, <2>1, CommitRecord
  <2>3. CASE rel[k].kind \in Tombstones
    <3>1. registry' = Terminal(registry, g) /\ sess' = sess
      BY <2>1, <2>3 DEF ReleaseCommit
    <3>2. ReleasesGoOn /\ ParkRests
      BY <1>6, <2>1, <2>2, <3>1 DEF ParkRests
    <3> QED
      BY <1>5, <2>1, <3>1, <3>2
  <2>4. CASE rel[k].kind \notin Tombstones
    <3>1. registry' = registry /\ (sess' = sess \/ \E s : sess' = Disposing(sess, s))
      BY <2>1, <2>4 DEF ReleaseCommit
    <3>2. ReleasesGoOn /\ ParkRests
      BY <1>7, <2>1, <2>2, <2>4 DEF KillDisposes, ParkRests
    <3> QED
      BY <1>5, <2>1, <3>1, <3>2
  <2> QED
    BY <2>3, <2>4
<1>13. ASSUME UNCHANGED <<registry, adopted, park>>,
              sess' = sess \/ (\E s : sess' = Disposing(sess, s)),
              \A j \in Killers : j # k => rel'[j] = rel[j],
              KillDisposes(rel'[k]) => /\ KillDisposes(rel[k])
                                       /\ rel'[k].live = rel[k].live /\ rel'[k].gen = rel[k].gen
       PROVE  Steady /\ TimerIdle'
  <2>1. ReleasesGoOn /\ ParkRests
    BY <1>13 DEF ReleasesGoOn, ParkRests
  <2> QED
    BY <1>5, <1>13, <2>1
<1>14. ASSUME NEW ok \in BOOLEAN, TombstonePersisted(k, ok) PROVE Steady /\ TimerIdle'
  <2> DEFINE pc == IF rel[k].live = None THEN "cleanup" ELSE "disposing"
  <2>1. /\ UNCHANGED <<registry, adopted, park>> /\ rel[k].pc = "persisting"
        /\ sess' = sess \/ (\E s : sess' = Disposing(sess, s))
        /\ rel' = [rel EXCEPT ![k] = [@ EXCEPT !.ok = ok, !.pc = pc]]
    BY <1>14 DEF TombstonePersisted
  <2> HIDE DEF pc
  <2>2. /\ rel'[k].live = rel[k].live /\ rel'[k].gen = rel[k].gen /\ rel'[k].kind = rel[k].kind
        /\ \A j \in Killers : j # k => rel'[j] = rel[j]
    BY <1>1, <2>1 DEF Releases
  <2> QED
    BY <1>13, <2>1, <2>2 DEF KillDisposes
<1>15. CASE ReleaseDisposed(k)
  <2>1. /\ UNCHANGED <<registry, sess, adopted, park>> /\ rel'[k].pc = "cleanup"
        /\ \A j \in Killers : j # k => rel'[j] = rel[j]
    BY <1>1, <1>15 DEF ReleaseDisposed, Releases
  <2> QED
    BY <1>13, <2>1 DEF KillDisposes
(* A plain release takes the id from its ref and changes no ref. *)
<1>16. CASE ReleaseFinishes(k)
  <2> DEFINE g == rel[k].gen
  <2>1. /\ \E q \in {registry, Unregister(registry, g)} : Publish(q, g)
        /\ UNCHANGED <<sess, park>> /\ rel' = [rel EXCEPT ![k] = IdleRelease]
    BY <1>16 DEF ReleaseFinishes
  <2>2. \A q \in {registry, Unregister(registry, g)} : Through(registry, q, g)
    BY <1>1, ThroughSame, ThroughUnregister
  <2>3. /\ TimerIdle' /\ adopted'.gen \in {adopted.gen, None}
        /\ registry' \in {registry, Unregister(registry, g)}
    BY <2>1, <2>2, TimerPublish DEF Publish
  <2>4. rel'[k].pc = "idle" /\ \A j \in Killers : j # k => rel'[j] = rel[j]
    BY <1>1, <2>1 DEF IdleRelease
  <2>5. ReleasesGoOn /\ ParkRests
    BY <1>7, <2>1, <2>4 DEF KillDisposes, ParkRests
  <2> QED
    BY <1>4, <2>1, <2>3, <2>5
<1> QED
  BY <1>9, <1>10, <1>11, <1>12, <1>14, <1>15, <1>16 DEF ReleaseStep
-----------------------------------------------------------------------------
LEMMA FreshHand ==
    ASSUME registry = EmptyRegistry, sess = [s \in Sessions |-> NoSession], park = NoPark,
           adopted = NoAdoption, call = [c \in Callers |-> IdleCall],
           rel = [k \in Killers |-> IdleRelease], exec = [g \in Gens |-> IdleExecutor]
    PROVE  TimerIdle /\ LetGoInv
<1>1. /\ \A c \in Callers : call[c].pc = "idle"
      /\ \A s \in Sessions : ~sess[s].synced
      /\ \A g \in Gens : exec[g].pc = "unused" /\ registry.ref[g].session = None
      /\ \A k \in Killers : rel[k].pc = "idle"
      /\ park.pc = "none" /\ ~adopted.timer
  BY DEF IdleCall, NoSession, IdleExecutor, NoPark, NoAdoption, IdleRelease, EmptyRegistry
<1> QED
  BY <1>1 DEF TimerIdle, LetGoInv, Owned, ExecutorsAlone, Executing, ParksExist, WiringRuns, LetGo,
         KillDisposes

LEMMA RestartHand == ASSUME Restart PROVE TimerIdle' /\ LetGoInv'
<1>1. /\ \A c \in Callers : call'[c].pc = "idle"
      /\ \A s \in Sessions : ~sess'[s].synced
      /\ \A g \in Gens : exec'[g].pc = "unused" /\ registry'.ref[g].session = None
      /\ \A k \in Killers : rel'[k].pc = "idle"
      /\ park'.pc = "none" /\ ~adopted'.timer
  BY DEF Restart, IdleCall, NoSession, IdleExecutor, NoPark, NoAdoption, IdleRelease, EmptyRegistry
<1> QED
  BY <1>1 DEF TimerIdle, LetGoInv, Owned, ExecutorsAlone, Executing, ParksExist, WiringRuns, LetGo,
         KillDisposes

LEMMA NextHandInv == HandInv /\ [Next]_vars => HandInv'
<1> SUFFICES ASSUME HandInv, [Next]_vars PROVE HandInv'
  OBVIOUS
<1>1. WInv' /\ IInv'
  BY NextWInv DEF HandInv, WInv
<1>2. ASSUME Steady /\ TimerIdle' PROVE HandInv'
  BY <1>1, <1>2, SteadyStep DEF HandInv
<1>3. CASE ParkStep
  BY <1>2, <1>3, ParkSteady
<1>4. ASSUME NEW s \in Sessions, DisposeDone(s) \/ StartRun(s) \/ EndRun(s) PROVE HandInv'
  BY <1>2, <1>4, SessionSteady
<1>5. ASSUME NEW c \in Callers, EnsureStep(c) \/ RevivalStep(c) \/ Forget(c) PROVE HandInv'
  BY <1>2, <1>5, EnsureSteady, RevivalSteady
<1>6. ASSUME NEW g \in Gens, ExecutorStep(g) \/ ScanRegisters(g) \/ \E f \in Files : Spawn(g, f)
      PROVE  HandInv'
  BY <1>2, <1>6, ExecutorSteady
<1>7. ASSUME NEW k \in Killers,
             \/ \E kind \in KillKinds : Kill(k, kind)
             \/ \E g \in Gens, kind \in KillKinds : ExecutorAborts(g, k, kind)
             \/ ReleaseStep(k)
      PROVE  HandInv'
  BY <1>2, <1>7, ReleaseSteady
<1>8. CASE (\E f \in Files : ScanStarts(f)) \/ ScanSkips \/ UNCHANGED vars
  <2>1. UNCHANGED <<registry, sess, adopted, park, call, rel, exec>>
    BY <1>8 DEF ScanStarts, ScanSkips, vars
  <2>2. /\ Mild(registry, registry') /\ SessionsStay /\ CallsRest /\ ParkRests
        /\ ExecutorsRest /\ ReleasesGoOn /\ TimerIdle'
    BY <2>1, HandBase, MildOperations, SessionForms, CallsUntouched, AdoptionRests, ReleasesRest, TimerRests
    DEF ParkRests
  <2> QED
    BY <1>2, <2>1, <2>2, MildStep
<1>9. CASE Restart
  BY <1>1, <1>9, RestartHand DEF HandInv
<1> QED
  BY <1>3, <1>4, <1>5, <1>6, <1>7, <1>8, <1>9 DEF Next

(* No park and no kill is disposing of an attached session. *)
LEMMA AttachedSafe ==
    ASSUME HandInv, NEW g \in Gens, registry.ref[g].session # None
    PROVE  ~BeingDisposedOf(registry.ref[g].session)
<1> DEFINE s == registry.ref[g].session
<1>1. sess[s].gen = g /\ registry.ref[g].status # "aborted"
  BY HandBase DEF Owned, Sound, DetachedIn
<1>2. ~(park.pc = "disposing" /\ park.sess = s)
  BY <1>1, HandBase DEF LetGo
<1>3. \A k \in Killers : ~(/\ rel[k].pc \in {"persisting", "disposing"}
                          /\ rel[k].kind \in Tombstones /\ rel[k].live = s)
  BY <1>1, HandBase DEF LetGo, KillDisposes
<1> QED
  BY <1>2, <1>3 DEF BeingDisposedOf

(* What the step returns is attached. *)
HandsOutAttached ==
    \A c \in Callers :
       call'[c].pc = "returned" /\ call[c].pc # "returned"
          => \E g \in Gens : registry.ref[g].session # None /\ call'[c].sess = registry.ref[g].session

LEMMA CallHandsOut ==
    ASSUME HandInv, NEW c \in Callers, EnsureStep(c) \/ RevivalStep(c) \/ Forget(c)
    PROVE  HandsOutAttached
<1>1. call \in [Callers -> Calls]
  BY HandBase
<1>2. \A pc : [call[c] EXCEPT !.pc = pc].pc = pc
  BY <1>1 DEF Calls
<1>3. /\ Threw.pc = "threw" /\ IdleCall.pc = "idle"
      /\ \A s : Returned(s).pc = "returned" /\ Returned(s).sess = s
  BY DEF Threw, Returned, IdleCall
<1>4. ASSUME NEW v, v.pc # "returned", call' = [call EXCEPT ![c] = v]
      PROVE  HandsOutAttached
  BY <1>1, <1>4 DEF HandsOutAttached
<1>5. CASE EnsureKeeps(c) \/ EnsureFindsLive(c)
  <2>1. Attached(registry) # None /\ call' = [call EXCEPT ![c] = Returned(Attached(registry))]
    BY <1>5 DEF EnsureKeeps, EnsureFindsLive
  <2>2. registry.cur \in Gens /\ Attached(registry) = registry.ref[registry.cur].session
    BY <2>1, HandBase DEF Attached, Registries
  <2> QED
    BY <1>1, <1>3, <2>1, <2>2 DEF HandsOutAttached
<1>6. CASE EnsureMeetsPark(c)
  <2>1. \E v \in {[call[c] EXCEPT !.pc = "keeping", !.gen = registry.cur], [call[c] EXCEPT !.pc = "waiting"]} :
           call' = [call EXCEPT ![c] = v]
    BY <1>6 DEF EnsureMeetsPark
  <2>2. [call[c] EXCEPT !.pc = "keeping", !.gen = registry.cur].pc = "keeping"
    BY <1>1 DEF Calls
  <2> QED
    BY <1>2, <1>4, <2>1, <2>2
<1>7. CASE EnsureJoins(c) \/ EnsureRevives(c)
  <2> DEFINE pc == IF Warm(registry.cur) THEN "opening" ELSE "factory"
  <2>1. /\ [IdleCall EXCEPT !.pc = "joined", !.gen = registry.cur].pc = "joined"
        /\ [IdleCall EXCEPT !.gen = registry.cur, !.pc = pc].pc \in {"opening", "factory"}
    BY DEF IdleCall
  <2>2. \E v \in {[IdleCall EXCEPT !.pc = "joined", !.gen = registry.cur],
                  [IdleCall EXCEPT !.gen = registry.cur, !.pc = pc]} : call' = [call EXCEPT ![c] = v]
    BY <1>7 DEF EnsureJoins, EnsureRevives
  <2> HIDE DEF pc
  <2> QED
    BY <1>4, <2>1, <2>2
<1>8. CASE EnsureRefuses(c) \/ Forget(c)
  BY <1>3, <1>4, <1>8 DEF EnsureRefuses, Forget
<1>9. CASE FactoryReturns(c) \/ FactoryDeclines(c) \/ RevivalFails(c) \/ RevivalWiringFails(c)
           \/ RevivalRejected(c)
  <2>1. \/ Settle(c, Threw)
        \/ call' = [call EXCEPT ![c] = [@ EXCEPT !.pc = "opening", !.cold = TRUE]]
    BY <1>9 DEF FactoryReturns, FactoryDeclines, RevivalFails, RevivalWiringFails, RevivalRejected
  <2>2. [call[c] EXCEPT !.pc = "opening", !.cold = TRUE].pc = "opening"
    BY <1>1 DEF Calls
  <2>3. CASE Settle(c, Threw)
    BY <1>3, <2>3 DEF Settle, HandsOutAttached
  <2> QED
    BY <1>4, <2>1, <2>2, <2>3
<1>10. ASSUME NEW s \in Sessions, RevivalClaims(c, s) PROVE HandsOutAttached
  <2>1. /\ call' = [call EXCEPT ![c] = [call[c] EXCEPT !.pc = "constructing", !.sess = s]]
        /\ [call[c] EXCEPT !.pc = "constructing", !.sess = s].pc = "constructing"
    BY <1>1, <1>10 DEF RevivalClaims, Calls
  <2> QED
    BY <1>4, <2>1
<1>11. CASE RevivalAttaches(c) \/ RevivalConstructionFails(c) \/ RevivalStartupFails(c)
  <2>1. \E pc \in {"wiring", "failing"} : call' = [call EXCEPT ![c] = [call[c] EXCEPT !.pc = pc]]
    BY <1>11 DEF RevivalAttaches, RevivalConstructionFails, RevivalStartupFails
  <2> QED
    BY <1>2, <1>4, <2>1
(* The revived session has stayed attached since the revival attached it. *)
<1>12. CASE RevivalReturns(c)
  <2> DEFINE g == call[c].gen
             s == call[c].sess
  <2>1. /\ call[c].pc = "wiring"
        /\ \/ /\ Claimable(registry, g) \/ registry.ref[g].status = "running"
              /\ Settle(c, Returned(s))
           \/ call' = [call EXCEPT ![c] = [call[c] EXCEPT !.pc = "rejecting"]]
    BY <1>12 DEF RevivalReturns
  <2>2. Wired(c) /\ g \in Gens /\ s \in Sessions
    BY <2>1, HandBase DEF WiringRuns, InRevival, Exists, WInv, Writers, RevivalWrites, Making
  <2>3. CASE call' = [call EXCEPT ![c] = [call[c] EXCEPT !.pc = "rejecting"]]
    BY <1>2, <1>4, <2>3
  <2>4. CASE /\ Claimable(registry, g) \/ registry.ref[g].status = "running"
             /\ Settle(c, Returned(s))
    <3>1. registry.ref[g].session = s /\ s # None
      BY <2>2, <2>4, AgentRegistryAssumption DEF Claimable, Wired, None
    <3>2. \A d \in Callers : call'[d] = call[d] \/ call'[d] = Returned(s)
      BY <2>4 DEF Settle
    <3> QED
      BY <1>3, <2>2, <3>1, <3>2 DEF HandsOutAttached
  <2> QED
    BY <2>1, <2>3, <2>4
<1> QED
  BY <1>5, <1>6, <1>7, <1>8, <1>9, <1>10, <1>11, <1>12 DEF EnsureStep, RevivalStep

LEMMA NextHandsOut ==
    ASSUME HandInv, [Next]_vars
    PROVE  HandsOutAttached
<1>1. CASE ParkStep
  <2>1. \A c \in Callers : call'[c] = call[c] \/ call'[c].pc \in {"kept", "woken"}
    BY <1>1, HandBase DEF ParkStep, TimerFires, ParkCommits, ParkGivesUp, ParkDone, WakeParkWaiters, Calls
  <2> QED
    BY <2>1 DEF HandsOutAttached
<1>2. ASSUME NEW c \in Callers, EnsureStep(c) \/ RevivalStep(c) \/ Forget(c) PROVE HandsOutAttached
  BY <1>2, CallHandsOut
<1>3. CASE UNCHANGED call
  BY <1>3 DEF HandsOutAttached
<1>4. ASSUME NEW s \in Sessions, DisposeDone(s) \/ StartRun(s) \/ EndRun(s) PROVE UNCHANGED call
  BY <1>4 DEF DisposeDone, StartRun, EndRun
<1>5. ASSUME NEW g \in Gens, ExecutorStep(g) \/ ScanRegisters(g) \/ \E f \in Files : Spawn(g, f)
      PROVE  UNCHANGED call
  BY <1>5
  DEF ExecutorStep, SpawnClaims, ProbeReturns, ProbeRefuses, SpawnAttaches, SpawnFails,
      SpawnStartupFails, SpawnReturns, ExecutorKeepsAlive, ScanRegisters, Spawn
<1>6. ASSUME NEW k \in Killers,
             \/ \E kind \in KillKinds : Kill(k, kind)
             \/ \E g \in Gens, kind \in KillKinds : ExecutorAborts(g, k, kind)
             \/ ReleaseStep(k)
      PROVE  UNCHANGED call
  BY <1>6 DEF Kill, ExecutorAborts, ReleaseStep, KillAborted, ReleaseCommits, TombstonePersisted,
              ReleaseDisposed, ReleaseFinishes
<1>7. CASE (\E f \in Files : ScanStarts(f)) \/ ScanSkips \/ UNCHANGED vars
  BY <1>3, <1>7 DEF ScanStarts, ScanSkips, vars
<1>8. CASE Restart
  BY <1>8 DEF Restart, IdleCall, HandsOutAttached
<1> QED
  BY <1>1, <1>2, <1>3, <1>4, <1>5, <1>6, <1>7, <1>8 DEF Next

(* ensureLive() never returns a session that a park or a kill is disposing *)
(* of: neither the one it finds or keeps, nor the one it has just revived, *)
(* however long the reviver took after it attached it and whatever other   *)
(* releases, plain ones included, and restarts come in between.            *)
THEOREM DisposingNeverHandedOut == Spec => NeverHandsOutDisposing
<1> DEFINE HandsOut == \A c \in Callers : call'[c].pc = "returned" /\ call[c].pc # "returned"
                                            => ~BeingDisposedOf(call'[c].sess)
<1>1. Init => HandInv
  BY InitIInv, FreshWrites, FreshHand DEF Init, HandInv
<1>2. HandInv /\ [Next]_vars => HandInv'
  BY NextHandInv
<1>3. HandInv /\ [Next]_vars => HandsOut
  <2> SUFFICES ASSUME HandInv, [Next]_vars, NEW c \in Callers,
                      call'[c].pc = "returned", call[c].pc # "returned"
               PROVE  ~BeingDisposedOf(call'[c].sess)
    OBVIOUS
  <2>1. PICK g \in Gens : registry.ref[g].session # None /\ call'[c].sess = registry.ref[g].session
    BY NextHandsOut DEF HandsOutAttached
  <2> QED
    BY <2>1, AttachedSafe DEF BeingDisposedOf
<1> HIDE DEF HandsOut
<1>4. Spec => [][HandsOut]_vars
  BY <1>1, <1>2, <1>3, PTL DEF Spec
<1> QED
  BY <1>4 DEF NeverHandsOutDisposing, HandsOut
=============================================================================
