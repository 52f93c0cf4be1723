\* An order of each of two users, two webhooks, the auto-check and a manual check, a purchase.
SPECIFICATION Spec
CONSTANTS
    alice = alice
    bob = bob
    w1 = w1
    w2 = w2
    auto = auto
    manual = manual
    shop = shop
    nobody = nobody
    NoOne = nobody
    Payments <- MCPayments
    Users <- TwoUsers
    Owner <- OneEach
    Amount <- MCAmount
    Webhooks = {w1, w2}
    Checks = {auto, manual}
    AutoLoop = auto
    Spenders = {shop}
    Buyer <- MCBuyer
    Price <- MCPrice
    FaultKinds = {"db", "python"}
    MaxFaults = 1
SYMMETRY WebhookSymmetry
INVARIANTS
    NoLockCycle
    NeverOverCredited
