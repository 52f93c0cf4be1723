\* Two orders, the auto-check, a purchase; and a guest purchase and a gift, the monitor; a fault in each.
SPECIFICATION BothSpec
CONSTANTS
    p1 = p1
    p2 = p2
    alice = alice
    bob = bob
    w1 = w1
    w2 = w2
    monitor = monitor
    a1 = a1
    a2 = a2
    nobody = nobody
    hook = hook
    auto = auto
    shop = shop
    NoOne = nobody
    Purchases = {p1, p2}
    Users = {alice}
    Recipient <- MCRecipient
    Gifts = {p2}
    CodeGifts = {p2}
    SettlesFirst = {p1}
    Mismatched = {p2}
    Webhooks = {w1, w2}
    Monitor = monitor
    Activators = {}
    MaxRetries = 1
    FaultKinds = {"crash", "exception"}
    MaxFaults = 1
INVARIANT
    OnePeriodPerPayment
PROPERTIES
    EventuallyAnswered
    EventuallyCredited
