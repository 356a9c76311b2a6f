SPECIFICATION FairSpec
CONSTANTS
    Expense = {e1, e2}
    NoExpense = NoExpense
    DraftId = {d1}
    NoDraft = NoDraft
    Request = {r1, r2}
    s1 = s1
    s2 = s2
    Deployments <- OneOrTwoServers
    Edits <- SomeEdits
    MaxRevision = 3
INVARIANTS ExpenseMeansConfirmed NoLostEdit ConfirmedOnce ConfirmedNamesItsExpense
PROPERTIES FinalStays UserValuesWin AbandonedDraftsEnd
