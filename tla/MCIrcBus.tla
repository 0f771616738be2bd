------------------------------ MODULE MCIrcBus ------------------------------
(* IrcBus with an asker and a kept-alive subagent, which owes a relay for  *)
(* every message that wakes it.                                            *)
EXTENDS IrcBus

CONSTANTS Asker, Sub, question, answer, ask, hub,
          Notes  \* messages of the asker that do not ask

Prompting == Notes \cup {question}
MCAgents == {Asker, Sub}
MCMessages == Prompting \cup {answer} \cup {<<"relay", m>> : m \in Prompting}
MCWaits == {ask, hub}
MCFrom == [m \in MCMessages |-> IF m \in Prompting THEN Asker ELSE Sub]
MCTo == [m \in MCMessages |-> IF m \in Prompting THEN Sub ELSE Asker]
MCRelayOf == [m \in MCMessages |-> IF m \in Prompting THEN <<"relay", m>> ELSE NoMessage]
MCAskWait == [m \in MCMessages |-> IF m = question THEN ask ELSE NoWait]
MCOwner == [w \in MCWaits |-> IF w = ask THEN Asker ELSE Sub]
MCFilter == [w \in MCWaits |-> IF w = ask THEN Sub ELSE Anyone]
MCAdopted == {Sub}
=============================================================================
