\* Two merges of one account next to its payments.
SPECIFICATION AllSpec
CONSTANTS
    alice = alice
    bob = bob
    carol = carol
    t1 = t1
    t2 = t2
    t3 = t3
    t4 = t4
    t5 = t5
    c1 = c1
    c2 = c2
    s1 = s1
    s2 = s2
    None = None
    Users <- MCUsers
    Referrer <- Circle
    Topups <- MCTopups
    Owner <- Owners
    Qualifying = {t1, t2}
    MaxCommissions = 1
    GroupEarners = {bob}
    FaultKinds = {"crash", "db"}
    MaxFaults = 1
    Partners = {alice}
    Requests = {1, 2}
    Amounts = {1}
    Sessions = {s1, s2}
    BotSessions = {}
    MaxEarned = 2
    Referrers = {alice, bob}
    Campaigns = {c1, c2}
    Partner <- PartnerOf
    Bonus <- BonusOf
    Customers = {alice, bob}
    BonusCodes = {money}
    DiscountCodes = {half}
    GroupCodes = {half}
    Activations = {r1, r2}
    Insiders = {alice}
    MaxUses = 1
    MaxRows = 3
    MaxPromoFaults = 1
    NoUser = NoUser
    NoCode = NoCode
    Accounts = {1, 2, 3}
    Tokens = {k1, k2}
    Primary <- MCPrimary
    Secondary <- MCSecondary
    Providers <- MCProviders
    FirstLogins <- MCLogins
    Orders = {o1, o2}
    FirstOwner <- MCFirstOwner
    Listed = {o1}
    Mergers = {s1, s2}
    Webhooks = {w1}
    MaxRestores = 1
    MaxMergeFaults = 1
    k1 = k1
    k2 = k2
    o1 = o1
    o2 = o2
CHECK_DEADLOCK FALSE
INVARIANT
    LoginsMove
