\* One subscription, one receipt, a daily tariff for three days, a subscription renewed twice, two
\* purchases in the App Store.
SPECIFICATION AllSpec
CONSTANTS
    Subs = {s1}
    Callers = {trial, shop}
    Careful = {trial}
    MaxPurchases = 3
    MaxRetries = 3
    MaxRestarts = 1
    NoSub = NoSub
    Payments = {p1}
    Workers = {loop, forced}
    MaxAttempts = 2
    MaxCrashes = 1
    MaxErrors = 2
    Nothing = Nothing
    MaxDays = 2
    MaxMoney = 2
    MaxPresses = 2
    MaxFaults = 1
    Requests = {r1, r2}
    Period = 2
    MaxNow = 2
    Purchases = {1, 2}
    Amount <- MCAmount
    MaxEvents <- MCMaxEvents
    Apps = {app}
    Webhooks = {notice}
CHECK_DEADLOCK FALSE
INVARIANTS
    AllTypesOK
    NoticedIsKept
    CopiesDiffer
    ReceiptsExplained
    NoneForgotten
    BooksBalance
    ChargedIsGained
    NoNeedlessRenewal
    AppleBooksBalance
    FollowsApple
PROPERTIES
    QueuesDrain
    MoneyBuysService
    MoneyRenews
