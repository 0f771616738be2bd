SPECIFICATION FairSpec
CONSTANTS
    Asker = Asker
    Sub = Sub
    question = question
    answer = answer
    ask = ask
    hub = hub
    Notes = {note}
    NoMessage = NoMessage
    NoWait = NoWait
    Anyone = Anyone
    Agents <- MCAgents
    Messages <- MCMessages
    Waits <- MCWaits
    From <- MCFrom
    To <- MCTo
    RelayOf <- MCRelayOf
    AskWait <- MCAskWait
    Owner <- MCOwner
    Filter <- MCFilter
    Adopted <- MCAdopted
    Cap = 1
    MaxSends = 2
PROPERTIES
    WakerIsAnswered
CHECK_DEADLOCK FALSE
