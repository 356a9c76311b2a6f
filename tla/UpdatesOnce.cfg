SPECIFICATION FairSpec
CONSTANTS
    text = text
    confirm = confirm
    group = group
    Update <- SomeUpdates
    Ignorable <- GroupUpdates
    EarlyCommit <- Confirmations
    Copy = {c1, c2}
    MaxMishaps = 3
CHECK_DEADLOCK FALSE
PROPERTIES ImplementsContract EveryUpdateSettles
