SPECIFICATION DashboardSpec
CONSTANTS
    Day <- SomeDays
    FirstOfMonth <- FirstDays
    LastOfMonth <- LastDays
    FirstDay = 1
    LastDay = 14
    DaysPerWeek = 3
    MAX_PERIOD_DAYS = 12
    MAX_DAILY_BUCKET_PERIOD_DAYS = 5
    Currency <- Names
    Code <- Codes
    EUR = "EUR"
    UAH = "UAH"
    Scale <- Scales
    RateUnit = 2
    Bodies <- SomeBodies
    NoBody = NoBody
    NoRate = NoRate
    Expense = {1, 2, 3}
    Tables <- SomeTables
    NoRow = NoRow
    Asked = {}
    Todays = {10}
    Chosen = {"EUR", "UAH"}
    NoPeriod = NoPeriod
    NoCurrency = NoCurrency
    NoConversion = NoConversion
    UNCATEGORIZED_KEY = 0
    NoMerchant = 0
    TOP_MERCHANT_COUNT = 1
    BASIS_POINTS = 100
CONSTRAINT Apart
INVARIANTS PartsAddUp InsightsAreTrue ComparisonIsFair NothingIsSilent
PROPERTIES FirstAnswerWins
