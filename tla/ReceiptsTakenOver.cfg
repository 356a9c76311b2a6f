SPECIFICATION FairSpec
CONSTANTS
    Worker = {w1, w2}
    Receipts = 1
    MaxFaults = 3
INVARIANTS WaitingIsWorkedOn WarnedOnce NothingStaleStored
PROPERTIES ImplementsContract ReceiptsSettle
CHECK_DEADLOCK FALSE
