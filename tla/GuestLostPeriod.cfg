\* Two purchases of one user that two requests activate at the same time, no faults.
SPECIFICATION Spec
CONSTANTS
    p1 = p1
    p2 = p2
    alice = alice
    bob = bob
    w1 = w1
    w2 = w2
    monitor = monitor
    a1 = a1
    a2 = a2
    nobody = nobody
    NoOne = nobody
    Purchases = {p1, p2}
    Users = {alice}
    Recipient <- MCRecipient
    Gifts = {}
    CodeGifts = {}
    SettlesFirst = {}
    Mismatched = {}
    Webhooks = {w1}
    Monitor = monitor
    Activators = {a1, a2}
    MaxRetries = 1
    FaultKinds = {}
    MaxFaults = 0
INVARIANT
    EveryPurchaseCounts
