------------------------------- MODULE IrcBus -------------------------------
(***************************************************************************)
(* Messages between agents: packages/coding-agent/src/irc/bus.ts, with the *)
(* receiving end in each session (session/irc-bridge.ts, the wake turns of *)
(* agent-session.ts), the hub tool's send, wait and inbox                  *)
(* (tools/hub/messaging.ts) and the relay of a wake turn's output          *)
(* (task/executor.ts).                                                     *)
(*                                                                         *)
(* A message is its identity; From, To and whether it is a relay are       *)
(* fixed.  A turn is a black box that sees its input, may send and wait,   *)
(* and ends.  Park, revival and kill are those of AgentLifecycle, reduced  *)
(* to what the bus sees of them.  Left out: the display-only relay to the  *)
(* main session, steering of a child by its parent, auto-replies, plan     *)
(* mode and the yield contract of pool workers.                            *)
(***************************************************************************)
EXTENDS Naturals, SequencesExt, FiniteSets

CONSTANTS Agents, Messages, Waits,
          From, To,   \* sender and recipient of each message
          RelayOf,    \* the relay that answers a message, or NoMessage
          AskWait,    \* the wait of a send with await:true, or NoWait
          Owner,      \* the agent of each wait
          Filter,     \* the peer a wait is for, or Anyone
          Adopted,    \* kept-alive subagents: parked, revived, their wakes relayed
          Cap,        \* MAILBOX_CAP
          MaxSends,   \* bound: the messages that turns send; relays come on top
          NoMessage, NoWait, Anyone

Asks == {AskWait[m] : m \in Messages} \ {NoWait}
Relays == {RelayOf[m] : m \in Messages} \ {NoMessage}

ASSUME IrcBusAssumption ==
    /\ From \in [Messages -> Agents] /\ To \in [Messages -> Agents]
    /\ RelayOf \in [Messages -> Messages \cup {NoMessage}] /\ NoMessage \notin Messages
    /\ AskWait \in [Messages -> Waits \cup {NoWait}] /\ NoWait \notin Waits
    /\ Owner \in [Waits -> Agents]
    /\ Filter \in [Waits -> Agents \cup {Anyone}] /\ Anyone \notin Agents
    /\ Adopted \subseteq Agents /\ Cap \in Nat \ {0} /\ MaxSends \in Nat
    /\ \A m \in Messages :
        /\ From[m] # To[m]
        /\ RelayOf[m] # NoMessage =>
            /\ From[RelayOf[m]] = To[m] /\ To[RelayOf[m]] = From[m]
            /\ m \notin Relays /\ To[m] \in Adopted
        /\ AskWait[m] # NoWait => Owner[AskWait[m]] = From[m] /\ Filter[AskWait[m]] = To[m]
        /\ m \in Relays => AskWait[m] = NoWait
    /\ \A m, n \in Messages :  \* a relay answers one message, a wait is of one send
        m # n => /\ RelayOf[m] # NoMessage => RelayOf[m] # RelayOf[n]
                 /\ AskWait[m] # NoWait => AskWait[m] # AskWait[n]

VARIABLES
    ref,      \* status of each agent in the registry
    sess,     \* its session: attached, being disposed but attached, none
    phase,    \* whether the session runs a turn, or awaits what a turn left to do
    owed,     \* messages whose senders the running wake turn owes its output
    pending,  \* interrupts and asides of the session
    seen,     \* messages in the agent's conversation
    before,   \* what its recipient had sent when a message woke it
    due,      \* wake turns that ended and have yet to relay their output
    mailbox, waiters,
    stage,    \* where each message is on its way through the bus
    receipt,
    lastSent, \* #lastSent: the last message of a kept-alive subagent to each agent;
              \* only the relay of a wake turn asks for it
    wait, got, \* each wait and the message it returned
    ended,    \* asks that saw a terminal end and wait for the replies
    told,     \* history: asks told of the stop once their question was read
    taken,    \* messages read with op "inbox"
    lost      \* messages dropped on purpose or by accident, see the actions

session == <<ref, sess, phase, owed, pending, seen>>
replies == <<before, due>>
receipts == <<receipt, lastSent>>
verdicts == <<ended, told>>
vars == <<session, replies, mailbox, waiters, stage, receipts, wait, got, verdicts, taken, lost>>

(* The relays left to send, and whether the turn died.                     *)
WakeTurns == [todo : SUBSET Messages, failed : BOOLEAN]

TypeOK ==
    /\ ref \in [Agents -> {"live", "parked", "gone", "aborted"}]
    /\ sess \in [Agents -> {"up", "dying", "none"}]
    /\ phase \in [Agents -> {"idle", "turn", "wake", "settling"}]
    /\ owed \in [Agents -> SUBSET Messages]
    /\ pending \in [Agents -> Seq(Messages)]
    /\ seen \in [Agents -> SUBSET Messages]
    /\ before \in [Messages -> SUBSET Messages]
    /\ due \in [Agents -> SUBSET WakeTurns]
    /\ mailbox \in [Agents -> Seq(Messages)]
    /\ \A a \in Agents : Len(mailbox[a]) <= Cap
    /\ waiters \in [Agents -> Seq(Waits)]
    /\ stage \in [Messages -> {"unsent", "gate", "passed", "bounced", "refused", "out"}]
    /\ receipt \in [Messages -> {"none", "ok", "failed"}]
    /\ lastSent \in [Adopted -> [Agents -> Messages \cup {NoMessage}]]
    /\ wait \in [Waits -> {"new", "waiting", "message", "timeout", "aborted", "stopped"}]
    /\ got \in [Waits -> Messages \cup {NoMessage}]
    /\ ended \subseteq Asks
    /\ told \subseteq Asks
    /\ taken \subseteq Messages
    /\ lost \subseteq Messages

Init ==
    /\ ref = [a \in Agents |-> "live"]
    /\ sess = [a \in Agents |-> "up"]
    /\ phase = [a \in Agents |-> "idle"]
    /\ owed = [a \in Agents |-> {}]
    /\ pending = [a \in Agents |-> <<>>]
    /\ seen = [a \in Agents |-> {}]
    /\ before = [m \in Messages |-> {}]
    /\ due = [a \in Agents |-> {}]
    /\ mailbox = [a \in Agents |-> <<>>]
    /\ waiters = [a \in Agents |-> <<>>]
    /\ stage = [m \in Messages |-> "unsent"]
    /\ receipt = [m \in Messages |-> "none"]
    /\ lastSent = [a \in Adopted |-> [b \in Agents |-> NoMessage]]
    /\ wait = [w \in Waits |-> "new"]
    /\ got = [w \in Waits |-> NoMessage]
    /\ ended = {}
    /\ told = {}
    /\ taken = {}
    /\ lost = {}

-----------------------------------------------------------------------------
(* Sessions. *)

Running(a) == phase[a] \in {"turn", "wake"}
InTurn(a) == sess[a] = "up" /\ Running(a)
Resting(a) == sess[a] = "up" /\ ~Running(a)

-----------------------------------------------------------------------------
(* Waits. *)

Accepts(w, m) == Filter[w] \in {Anyone, From[m]}

(* The rest of a list once the waits of W are taken out: kept[n] is what   *)
(* is left of the first n.                                                 *)
Rest(s, W) ==
    LET kept[n \in 0..Len(s)] ==
            IF n = 0 THEN <<>>
            ELSE IF s[n] \in W THEN kept[n - 1] ELSE Append(kept[n - 1], s[n])
    IN kept[Len(s)]

(* cleanup() of the settled waits takes them out of the lists. *)
Without(ws, W) == [a \in Agents |-> Rest(ws[a], W)]

(* The waits of an agent, and the asks that await it. *)
WaitingOf(a) == {w \in Waits : wait[w] = "waiting" /\ Owner[w] = a}
(* Variant: the end of a turn is not watched. *)
NoAskers(a) == {}

AskersOf(a) == {w \in Asks : wait[w] = "waiting" /\ Filter[w] = a}

(* Variant: a settled wait stays in the list. *)
KeepWaiter(W, outcome) ==
    /\ wait' = [w \in Waits |-> IF w \in W THEN outcome ELSE wait[w]]
    /\ UNCHANGED waiters

SettleWaits(W, outcome) ==
    /\ wait' = [w \in Waits |-> IF w \in W THEN outcome ELSE wait[w]]
    /\ waiters' = Without(waiters, W)

SettleBoth(aborted, stopped) ==
    /\ wait' = [w \in Waits |-> IF w \in aborted THEN "aborted"
                               ELSE IF w \in stopped THEN "stopped" ELSE wait[w]]
    /\ waiters' = Without(waiters, aborted \cup stopped)

-----------------------------------------------------------------------------
(* #deliver, from the hand-over on; b holds waiters and wait as the        *)
(* synchronous part of the send left them.                                 *)

Now == [waiters |-> waiters, wait |-> wait]

(* A relay that was sent is done with.                                     *)
Relayed(m) ==
    [due EXCEPT ![From[m]] = {[t EXCEPT !.todo = {q \in @ : RelayOf[q] # m}] : t \in @}]

(* send() returns.                                                         *)
Settled(m, how) ==
    /\ receipt' = [receipt EXCEPT ![m] = how]
    /\ lastSent' = IF how = "ok" /\ From[m] \in Adopted
                   THEN [lastSent EXCEPT ![From[m]][To[m]] = m] ELSE lastSent
    /\ due' = Relayed(m)

Keep(b) == waiters' = b.waiters /\ wait' = b.wait

(* A failed send of an ask cancels the wait.  A message the wait already   *)
(* consumed is then never shown: executeSend looks at the error only.      *)
Fails(m, b) ==
    LET w == AskWait[m] IN
    /\ Settled(m, "failed")
    /\ IF w # NoWait /\ b.wait[w] = "waiting"
       THEN /\ wait' = [b.wait EXCEPT ![w] = "aborted"]
            /\ waiters' = Without(b.waiters, {w})
            /\ UNCHANGED lost
       ELSE /\ Keep(b)
            /\ lost' = IF w # NoWait /\ got[w] # NoMessage THEN lost \cup {got[w]} ELSE lost

Matching(m, b) == {n \in DOMAIN b.waiters[To[m]] : Accepts(b.waiters[To[m]][n], m)}

(* The oldest matching waiter returns the message from its tool call. *)
ToWaiter(m, b) ==
    LET n == CHOOSE k \in Matching(m, b) : \A l \in Matching(m, b) : k <= l
        w == b.waiters[To[m]][n]
    IN /\ Matching(m, b) # {}
       /\ wait' = [b.wait EXCEPT ![w] = "message"]
       /\ got' = [got EXCEPT ![w] = m]
       /\ waiters' = [b.waiters EXCEPT ![To[m]] = RemoveAt(@, n)]
       /\ stage' = [stage EXCEPT ![m] = "out"]
       /\ Settled(m, "ok")
       /\ UNCHANGED <<session, before, mailbox, verdicts, taken, lost>>

NoSession(m, b) ==
    /\ Matching(m, b) = {}
    /\ sess[To[m]] = "none"
    /\ Fails(m, b)
    /\ stage' = [stage EXCEPT ![m] = "refused"]
    /\ UNCHANGED <<session, before, mailbox, got, verdicts, taken>>

(* deliver() throws on a disposed session; the catch follows later. *)
ToDying(m, b) ==
    /\ Matching(m, b) = {}
    /\ sess[To[m]] = "dying"
    /\ stage' = [stage EXCEPT ![m] = "bounced"]
    /\ Keep(b)
    /\ UNCHANGED <<session, replies, receipts, mailbox, got, verdicts, taken, lost>>

(* Variant: the message is buffered although the hand-off succeeds. *)
BufferedToo(m) == [mailbox EXCEPT ![To[m]] = Append(@, m)]

MailboxAfterHandOff(m) == mailbox

(* A running turn gets it at its next step boundary. *)
ToBusy(m, b) ==
    /\ Matching(m, b) = {}
    /\ InTurn(To[m])
    /\ pending' = [pending EXCEPT ![To[m]] = Append(@, m)]
    /\ stage' = [stage EXCEPT ![m] = "out"]
    /\ mailbox' = MailboxAfterHandOff(m)
    /\ Keep(b)
    /\ Settled(m, "ok")
    /\ UNCHANGED <<ref, sess, phase, owed, seen, before, got, verdicts, taken, lost>>

(* wakeSources(): the first record of each sender, and no relay.           *)
Wakers(records) ==
    {records[n] : n \in {k \in DOMAIN records :
        /\ RelayOf[records[k]] # NoMessage
        /\ \A l \in 1..(k - 1) :
            RelayOf[records[l]] # NoMessage => From[records[l]] # From[records[k]]}}

SentBy(a) == {m \in Messages : From[m] = a /\ stage[m] # "unsent"}

(* An idle session starts a wake turn for the records.  The observer of a  *)
(* kept-alive subagent registers the reply the turn owes at its start.     *)
WakeFor(a, records) ==
    /\ phase' = [phase EXCEPT ![a] = IF a \in Adopted THEN "wake" ELSE "turn"]
    /\ seen' = [seen EXCEPT ![a] = @ \cup ToSet(records)]
    /\ owed' = [owed EXCEPT ![a] = Wakers(records)]
    /\ before' = [m \in Messages |-> IF m \in Wakers(records) THEN SentBy(a) ELSE before[m]]

ToIdle(m, b) ==
    /\ Matching(m, b) = {}
    /\ Resting(To[m])
    /\ WakeFor(To[m], <<m>>)
    /\ stage' = [stage EXCEPT ![m] = "out"]
    /\ Keep(b)
    /\ Settled(m, "ok")
    /\ UNCHANGED <<ref, sess, pending, mailbox, got, verdicts, taken, lost>>

HandOver(m, b) ==
    \/ ToWaiter(m, b)
    \/ NoSession(m, b)
    \/ ToDying(m, b)
    \/ ToBusy(m, b)
    \/ ToIdle(m, b)

-----------------------------------------------------------------------------
(* send(). *)

Gone(a) == ref[a] \in {"gone", "aborted"}
Gated(a) == ref[a] = "parked" \/ a \in Adopted

Refuse(m, b) ==
    /\ Gone(To[m])
    /\ Fails(m, b)
    /\ stage' = [stage EXCEPT ![m] = "refused"]
    /\ UNCHANGED <<session, before, mailbox, got, verdicts, taken>>

(* A parked or adopted recipient: await ensureLive(). *)
AwaitLive(m, b) ==
    /\ ~Gone(To[m])
    /\ Gated(To[m])
    /\ stage' = [stage EXCEPT ![m] = "gate"]
    /\ Keep(b)
    /\ UNCHANGED <<session, replies, receipts, mailbox, got, verdicts, taken, lost>>

Submit(m, b) ==
    /\ stage[m] = "unsent"
    /\ \/ Refuse(m, b)
       \/ AwaitLive(m, b)
       \/ ~Gone(To[m]) /\ ~Gated(To[m]) /\ HandOver(m, b)

MaySend(a) ==
    InTurn(a) /\ Cardinality({m \in Messages \ Relays : stage[m] # "unsent"}) < MaxSends

Send(m) ==
    /\ MaySend(From[m])
    /\ m \notin Relays
    /\ AskWait[m] = NoWait
    /\ Submit(m, Now)

(* await:true: the wait is there before the message goes out; a peer that  *)
(* is gone already settles it at once.                                     *)
Ask(m) ==
    LET w == AskWait[m] IN
    /\ MaySend(From[m])
    /\ w # NoWait
    /\ Submit(m, IF Gone(To[m])
                 THEN [Now EXCEPT !.wait[w] = "stopped"]
                 ELSE [Now EXCEPT !.wait[w] = "waiting", !.waiters[From[m]] = Append(@, w)])

(* sentSince(): whether the last message to the waker that got through was *)
(* sent since the turn started.  A relay of the turn before, sent while    *)
(* this one ran, counts, and so does what a later turn has sent.           *)
AlreadyMessaged(q) ==
    LET last == lastSent[To[q]][From[q]] IN last # NoMessage /\ last \notin before[q]

(* relayWakeTurnOutput(), which asks only when the run has been finalized  *)
(* and the relays before are out: nothing to send...                       *)
SkipRelay(q) ==
    /\ \E t \in due[To[q]] :
        /\ q \in t.todo /\ ~t.failed
        /\ AlreadyMessaged(q)
        /\ \A r \in t.todo : stage[RelayOf[r]] = "unsent"
    /\ due' = Relayed(RelayOf[q])
    /\ UNCHANGED <<session, before, mailbox, waiters, stage, receipts, wait, got, verdicts,
                   taken, lost>>

(* ...or the output of the turn, to the agent that woke it.  A turn that   *)
(* died is always reported.                                                *)
Relay(q) ==
    /\ \E t \in due[To[q]] :
        /\ q \in t.todo
        /\ t.failed \/ ~AlreadyMessaged(q)
        /\ \A r \in t.todo : stage[RelayOf[r]] = "unsent"
    /\ Submit(RelayOf[q], Now)

(* All relays of a turn are out: its promise is resolved, and what waits   *)
(* in the session may resume it.                                           *)
RelaysAreOut(a) ==
    /\ \E t \in due[a] : t.todo = {} /\ due' = [due EXCEPT ![a] = @ \ {t}]
    /\ phase' = [phase EXCEPT ![a] = IF @ = "settling" THEN "idle" ELSE @]
    /\ UNCHANGED <<ref, sess, owed, pending, seen, before, mailbox, waiters, stage, receipts,
                   wait, got, verdicts, taken, lost>>

(* ensureLive() resolves while the session is attached, or throws; the     *)
(* hand-over that follows looks at the registry again.                     *)
GateOpens(m) ==
    /\ stage[m] = "gate"
    /\ ref[To[m]] = "live" /\ sess[To[m]] = "up"
    /\ stage' = [stage EXCEPT ![m] = "passed"]
    /\ UNCHANGED <<session, replies, mailbox, waiters, receipts, wait, got, verdicts, taken, lost>>

GateFails(m) ==
    /\ stage[m] = "gate"
    /\ ~(ref[To[m]] = "live" /\ sess[To[m]] = "up")
    /\ Fails(m, Now)
    /\ stage' = [stage EXCEPT ![m] = "refused"]
    /\ UNCHANGED <<session, before, mailbox, got, verdicts, taken>>

Proceed(m) == stage[m] = "passed" /\ HandOver(m, Now)

(* Variant: no cap. *)
Uncapped(mail) == mail

Capped(mail) == IF Len(mail) > Cap THEN Tail(mail) ELSE mail

(* #enqueue: a failed hand-off is kept, the oldest mail makes room. *)
Bounce(m) ==
    LET mail == Append(mailbox[To[m]], m) IN
    /\ stage[m] = "bounced"
    /\ stage' = [stage EXCEPT ![m] = "out"]
    /\ mailbox' = [mailbox EXCEPT ![To[m]] = Capped(mail)]
    /\ LET w == AskWait[m]
           swallowed == IF w # NoWait /\ got[w] # NoMessage THEN {got[w]} ELSE {}
           dropped == ToSet(mail) \ ToSet(Capped(mail))
       IN /\ SettleWaits({w} \cap WaitingOf(From[m]), "aborted")
          /\ lost' = lost \cup swallowed \cup dropped
    /\ Settled(m, "failed")
    /\ UNCHANGED <<session, before, got, verdicts, taken>>

-----------------------------------------------------------------------------
(* Reading. *)

(* The first that passes the filter, in the pending records of the         *)
(* session, then in the mailbox; else a waiter.                            *)
Readable(w, s) == {n \in DOMAIN s : Accepts(w, s[n])}
FirstOf(w, s) == CHOOSE k \in Readable(w, s) : \A l \in Readable(w, s) : k <= l

(* Variant: the message is looked at and left. *)
Peek(s, n) == s

TakeOut(s, n) == RemoveAt(s, n)

HubWait(w) ==
    LET a == Owner[w]
        p == pending[a]
        b == mailbox[a]
    IN
    /\ InTurn(a)
    /\ w \notin Asks
    /\ wait[w] = "new"
    /\ \/ /\ Readable(w, p) # {}
          /\ got' = [got EXCEPT ![w] = p[FirstOf(w, p)]]
          /\ pending' = [pending EXCEPT ![a] = TakeOut(p, FirstOf(w, p))]
          /\ wait' = [wait EXCEPT ![w] = "message"]
          /\ UNCHANGED <<mailbox, waiters>>
       \/ /\ Readable(w, p) = {} /\ Readable(w, b) # {}
          /\ got' = [got EXCEPT ![w] = b[FirstOf(w, b)]]
          /\ mailbox' = [mailbox EXCEPT ![a] = TakeOut(b, FirstOf(w, b))]
          /\ wait' = [wait EXCEPT ![w] = "message"]
          /\ UNCHANGED <<pending, waiters>>
       \/ /\ Readable(w, p) = {} /\ Readable(w, b) = {}
          /\ waiters' = [waiters EXCEPT ![a] = Append(@, w)]
          /\ wait' = [wait EXCEPT ![w] = "waiting"]
          /\ UNCHANGED <<got, pending, mailbox>>
    /\ UNCHANGED <<ref, sess, phase, owed, seen, replies, stage, receipts, verdicts, taken, lost>>

Inbox(a) ==
    /\ InTurn(a)
    /\ taken' = taken \cup ToSet(mailbox[a]) \cup ToSet(pending[a])
    /\ taken' # taken
    /\ mailbox' = [mailbox EXCEPT ![a] = <<>>]
    /\ pending' = [pending EXCEPT ![a] = <<>>]
    /\ UNCHANGED <<ref, sess, phase, owed, seen, replies, waiters, stage, receipts, wait, got,
                   verdicts, lost>>

(* A wait is over without a message: its window, a peer message or a user  *)
(* interrupt, or nobody left to write (hub waits).                         *)
WaitEnds(w, why) ==
    /\ wait[w] = "waiting"
    /\ SettleWaits({w}, why)
    /\ UNCHANGED <<session, replies, mailbox, stage, receipts, got, verdicts, taken, lost>>

TimeOut(w) == WaitEnds(w, "timeout")

Interrupted(w) == pending[Owner[w]] # <<>> /\ WaitEnds(w, "aborted")

NobodyRuns(w) ==
    /\ w \notin Asks
    /\ \A a \in Agents \ {Owner[w]} : Filter[w] \in {Anyone, a} => ~Running(a)
    /\ WaitEnds(w, "aborted")

-----------------------------------------------------------------------------
(* Turns. *)

(* A prompt of somebody else; queued records go in front of it. *)
Prompt(a) ==
    /\ Resting(a)
    /\ phase' = [phase EXCEPT ![a] = "turn"]
    /\ seen' = [seen EXCEPT ![a] = @ \cup ToSet(pending[a])]
    /\ pending' = [pending EXCEPT ![a] = <<>>]
    /\ UNCHANGED <<ref, sess, owed, replies, mailbox, waiters, stage, receipts, wait, got,
                   verdicts, taken, lost>>

StepBoundary(a) ==
    /\ InTurn(a)
    /\ pending[a] # <<>>
    /\ seen' = [seen EXCEPT ![a] = @ \cup ToSet(pending[a])]
    /\ pending' = [pending EXCEPT ![a] = <<>>]
    /\ UNCHANGED <<ref, sess, phase, owed, replies, mailbox, waiters, stage, receipts, wait,
                   got, verdicts, taken, lost>>

(* Variant: the reply is registered at the end of the turn. *)
OwesWhenOver(a) == due[a] # {}

(* Replies a session still owes: of the running wake turn, and of those    *)
(* that ended.                                                             *)
OwesReplies(a) == phase[a] = "wake" \/ due[a] # {}

(* The question of an ask has left the bus and the queues of the peer.     *)
QuestionRead(w) ==
    \E q \in Messages : AskWait[q] = w /\ stage[q] = "out" /\ q \notin ToSet(pending[To[q]])

(* A terminal agent_end, with the waits that end by an abort: those who    *)
(* await the agent are told at once, or when the replies it owes are out.  *)
Stops(a, askers, aborted) ==
    LET now == IF OwesReplies(a) THEN {} ELSE askers IN
    /\ SettleBoth(aborted, now)
    /\ told' = told \cup {w \in now : QuestionRead(w)}
    /\ ended' = ended \cup (askers \ now)

(* What the observer of a wake turn is left to relay. *)
TurnOver(a, failed) ==
    /\ owed' = [owed EXCEPT ![a] = {}]
    /\ due' = IF phase[a] = "wake"
              THEN [due EXCEPT ![a] = @ \cup {[todo |-> owed[a], failed |-> failed]}]
              ELSE due

(* #endInFlight: the end is terminal if nothing is left to read.  The      *)
(* session is idle while the output of a wake turn is prepared and sent.   *)
EndTurn(a, failed) ==
    /\ InTurn(a)
    /\ WaitingOf(a) = {}
    /\ phase' = [phase EXCEPT ![a] = IF @ = "wake" THEN "settling" ELSE "idle"]
    /\ TurnOver(a, failed)
    /\ Stops(a, IF pending[a] = <<>> THEN AskersOf(a) ELSE {}, {})
    /\ UNCHANGED <<ref, sess, pending, seen, before, mailbox, stage, receipts, got, taken, lost>>

(* abort(): terminal, although records may be left; what is left resumes   *)
(* the session without a wait for the relays.                              *)
Abort(a, failed) ==
    /\ InTurn(a)
    /\ phase' = [phase EXCEPT ![a] = "idle"]
    /\ TurnOver(a, failed)
    /\ Stops(a, AskersOf(a), WaitingOf(a))
    /\ UNCHANGED <<ref, sess, pending, seen, before, mailbox, stage, receipts, got, taken, lost>>

(* #resumeStrandedIrcAsides: what arrived after the last boundary wakes    *)
(* the session again, after a wake turn that ended by itself once its      *)
(* relays are out.                                                         *)
Resume(a) ==
    /\ sess[a] = "up" /\ phase[a] = "idle"
    /\ pending[a] # <<>>
    /\ WakeFor(a, pending[a])
    /\ pending' = [pending EXCEPT ![a] = <<>>]
    /\ UNCHANGED <<ref, sess, due, mailbox, waiters, stage, receipts, wait, got, verdicts, taken,
                   lost>>

(* newSession(): the records belong to the conversation that is left. *)
NewSession(a) ==
    /\ a \notin Adopted
    /\ Resting(a)
    /\ pending[a] # <<>>
    /\ lost' = lost \cup ToSet(pending[a])
    /\ pending' = [pending EXCEPT ![a] = <<>>]
    /\ UNCHANGED <<ref, sess, phase, owed, seen, replies, mailbox, waiters, stage, receipts, wait,
                   got, verdicts, taken>>

(* The awaited peer stopped, owes nothing any more, and its session is     *)
(* still the one that did.                                                 *)
Verdict(w) ==
    LET now == {w} \cap WaitingOf(Owner[w]) IN
    /\ w \in ended
    /\ ~OwesReplies(Filter[w])
    /\ ended' = ended \ {w}
    /\ SettleWaits(now, "stopped")
    /\ told' = told \cup {v \in now : QuestionRead(v)}
    /\ UNCHANGED <<session, replies, mailbox, stage, receipts, got, taken, lost>>

-----------------------------------------------------------------------------
(* The lifecycle, as the bus sees it. *)

(* The idle time to park is minutes: not while relays are on their way and *)
(* verdicts wait for them, nor before left records have resumed the        *)
(* session.                                                                *)
Park(a) ==
    /\ a \in Adopted
    /\ sess[a] = "up" /\ phase[a] = "idle"
    /\ pending[a] = <<>>
    /\ due[a] = {}
    /\ \A w \in ended : Filter[w] # a
    /\ ref' = [ref EXCEPT ![a] = "parked"]
    /\ sess' = [sess EXCEPT ![a] = "none"]
    /\ UNCHANGED <<phase, owed, pending, seen, replies, mailbox, waiters, stage, receipts, wait,
                   got, verdicts, taken, lost>>

Revive(a) ==
    /\ ref[a] = "parked"
    /\ ref' = [ref EXCEPT ![a] = "live"]
    /\ sess' = [sess EXCEPT ![a] = "up"]
    /\ UNCHANGED <<phase, owed, pending, seen, replies, mailbox, waiters, stage, receipts, wait,
                   got, verdicts, taken, lost>>

(* A release: the session is disposed first, and detached when that is     *)
(* done; beginDispose() flushes the queues into the transcript and the     *)
(* running turn is aborted.                                                *)
Dispose(a) ==
    /\ sess[a] = "up"
    /\ sess' = [sess EXCEPT ![a] = "dying"]
    /\ phase' = [phase EXCEPT ![a] = "idle"]
    /\ \E failed \in BOOLEAN : TurnOver(a, failed)
    /\ seen' = [seen EXCEPT ![a] = @ \cup ToSet(pending[a])]
    /\ pending' = [pending EXCEPT ![a] = <<>>]
    /\ SettleWaits(WaitingOf(a), "aborted")
    /\ UNCHANGED <<ref, before, mailbox, stage, receipts, got, verdicts, taken, lost>>

(* onChange: those who wait for the agent hear of it. *)
Detach(a) ==
    /\ sess[a] = "dying"
    /\ sess' = [sess EXCEPT ![a] = "none"]
    /\ \E status \in {"gone", "aborted"} : ref' = [ref EXCEPT ![a] = status]
    /\ SettleWaits(AskersOf(a), "stopped")
    /\ ended' = {w \in ended : Filter[w] # a}
    /\ UNCHANGED <<phase, owed, pending, seen, replies, mailbox, stage, receipts, got, told,
                   taken, lost>>

-----------------------------------------------------------------------------
Turn(a) ==
    \/ Prompt(a)
    \/ StepBoundary(a)
    \/ \E failed \in BOOLEAN : EndTurn(a, failed) \/ Abort(a, failed)
    \/ RelaysAreOut(a)
    \/ Resume(a)
    \/ NewSession(a)

Lifecycle(a) == Park(a) \/ Revive(a) \/ Dispose(a) \/ Detach(a)

InFlight(m) == GateOpens(m) \/ GateFails(m) \/ Proceed(m) \/ Bounce(m)

Next ==
    \/ \E m \in Messages : Send(m) \/ Ask(m) \/ SkipRelay(m) \/ Relay(m) \/ InFlight(m)
    \/ \E w \in Waits :
        HubWait(w) \/ TimeOut(w) \/ Interrupted(w) \/ NobodyRuns(w) \/ Verdict(w)
    \/ \E a \in Agents : Turn(a) \/ Inbox(a) \/ Lifecycle(a)

Spec == Init /\ [][Next]_vars

(* Awaits of the bus settle, the poll for peer interrupts (agent-loop.ts)  *)
(* runs, a hub wait has a window and is told when its peers all stopped,   *)
(* and a turn that waits for nothing ends.  The window of an ask may be    *)
(* disabled; prompts, sends and parks need not come.                       *)
FairSpec ==
    /\ Spec
    /\ \A m \in Messages : WF_vars(InFlight(m)) /\ WF_vars(SkipRelay(m) \/ Relay(m))
    /\ \A w \in Waits : WF_vars(Interrupted(w)) /\ WF_vars(Verdict(w))
    /\ \A w \in Waits \ Asks : WF_vars(NobodyRuns(w)) /\ WF_vars(TimeOut(w))
    /\ \A a \in Agents :
        /\ WF_vars(\E failed \in BOOLEAN : EndTurn(a, failed))
        /\ WF_vars(RelaysAreOut(a))
        /\ WF_vars(Resume(a))
        /\ WF_vars(Detach(a))

-----------------------------------------------------------------------------
(* Properties. *)

Positions(s, x) == {n \in DOMAIN s : s[n] = x}

(* Where a message that left the bus can be. *)
Places(m) ==
    {<<"mailbox", n>> : n \in Positions(mailbox[To[m]], m)}
        \cup {<<"pending", n>> : n \in Positions(pending[To[m]], m)}
        \cup {<<"wait", w>> : w \in {v \in Waits : got[v] = m /\ m \notin lost}}
        \cup {<<"seen", a>> : a \in {b \in Agents : m \in seen[b]}}
        \cup {<<"taken", 0>> : x \in {m} \cap taken}
        \cup {<<"lost", 0>> : x \in {m} \cap lost}

(* A message is read at most once and never disappears without a trace:    *)
(* what left the bus is in one place, what did not is in none.             *)
OnePlace ==
    \A m \in Messages : Cardinality(Places(m)) = IF stage[m] = "out" THEN 1 ELSE 0

(* A delivered message never lingers in the mailbox (bus.ts:112-116), and  *)
(* what a failed receipt was given for was not put into the conversation.  *)
ReceiptIsTrue ==
    \A m \in Messages :
        /\ receipt[m] = "ok" => Positions(mailbox[To[m]], m) = {}
        /\ receipt[m] = "failed" => \A a \in Agents : m \notin seen[a]

(* The waiters of an agent are its waits that wait, each once: none that   *)
(* is settled is left to swallow a message, none that waits is forgotten.  *)
WaitersWait ==
    \A a \in Agents :
        /\ ToSet(waiters[a]) = WaitingOf(a)
        /\ IsInjective(waiters[a])

(* An asker told that its peer stopped without an answer is not answered   *)
(* after all: once its question was read, the verdict waits for the output *)
(* of the turn the question woke ("so a reply produced after the terminal  *)
(* agent_end still resolves the waiter", irc-bridge.ts:51-54).             *)
VerdictIsFinal ==
    [][\A q \in Messages :
        RelayOf[q] # NoMessage /\ stage[RelayOf[q]] = "unsent" /\ stage'[RelayOf[q]] # "unsent"
            => AskWait[q] \notin told]_vars

(* An ask is settled without the help of its window: by a message, by the  *)
(* stop of the peer, its end, or a failure of the send.                    *)
AskSettles == \A w \in Asks : wait[w] = "waiting" ~> wait[w] # "waiting"

IsDue(q) == \E t \in due[To[q]] : q \in t.todo

(* "Hand a woken subagent's turn output to whoever woke it, when the       *)
(* subagent did not answer them itself" (executor.ts:2575).                *)
WakerIsAnswered ==
    [][\A q \in Messages :
        IsDue(q) /\ ~IsDue(q)' /\ stage'[RelayOf[q]] = "unsent" =>
            \E m \in Messages \ (Relays \cup before[q]) :
                From[m] = To[q] /\ To[m] = From[q] /\ stage[m] # "unsent"]_vars
=============================================================================
