\* A purchase and a gift with a code, two users, a webhook, the monitor, activations, a fault.
SPECIFICATION Spec
CONSTANTS
    p1 = p1
    p2 = p2
    alice = alice
    bob = bob
    w1 = w1
    w2 = w2
    monitor = monitor
    a1 = a1
    a2 = a2
    nobody = nobody
    NoOne = nobody
    Purchases = {p1, p2}
    Users = {alice, bob}
    Recipient <- MCRecipient
    Gifts = {p2}
    CodeGifts = {p2}
    SettlesFirst = {p1}
    Mismatched = {}
    Webhooks = {w1}
    Monitor = monitor
    Activators = {a1}
    MaxRetries = 1
    FaultKinds = {"crash", "exception", "price"}
    MaxFaults = 1
INVARIANTS
    TypeOK
    NothingForNothing
    DeliveredMeansGranted
PROPERTIES
    NeverRequeued
    CodeKeepsItsOwner
