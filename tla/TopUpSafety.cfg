\* Two orders of one user, two webhooks, the auto-check and a manual check, a purchase.
SPECIFICATION Spec
CONSTANTS
    alice = alice
    bob = bob
    w1 = w1
    w2 = w2
    auto = auto
    manual = manual
    shop = shop
    nobody = nobody
    NoOne = nobody
    Payments <- MCPayments
    Users <- OneUser
    Owner <- SameOwner
    Amount <- MCAmount
    Webhooks = {w1, w2}
    Checks = {auto, manual}
    AutoLoop = auto
    Spenders = {shop}
    Buyer <- MCBuyer
    Price <- MCPrice
    FaultKinds = {"crash", "db", "api"}
    MaxFaults = 1
SYMMETRY WebhookSymmetry
INVARIANTS
    TypeOK
    PaidIffDeposited
    MoneyConserved
PROPERTY
    ImplementsLedger
