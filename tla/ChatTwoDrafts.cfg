SPECIFICATION Spec
CONSTANTS
    DraftId = {d1, d2}
    NoDraft = NoDraft
    WebOps <- NoWeb
    Edits <- NoEdits
    Results <- SomeResults
    MERCHANT_MIN_CONFIDENCE = 60
    DATE_MIN_CONFIDENCE = 70
    TOTAL_MIN_CONFIDENCE = 80
    CURRENCY_MIN_CONFIDENCE = 80
    MIN_LEAD_OVER_ALTERNATIVE = 15
    MAX_RECEIPT_AGE = 366
    FUTURE_TRANSACTION_DATE_TOLERANCE = 1
    FirstDate = 0
    LastDate = 36889
    NameOf <- ShopNames
    CurrencyScale <- Scales
    Precision = 1000
    MAX_MAJOR_UNITS = 999999
SYMMETRY Symmetry
INVARIANTS UserCanGoOn
PROPERTIES ClosedStays
CHECK_DEADLOCK FALSE
