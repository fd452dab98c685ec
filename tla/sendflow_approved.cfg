SPECIFICATION Spec
CONSTANTS
    a1 = a1  a2 = a2
    few = few  many = many
    r1 = r1
    low = low  high = high
    t1 = t1  t2 = t2
    Accounts = {a1, a2}
    Start = a1
    Amounts = {2}
    Wallets = {few}
    Trusted <- MCTrusted
    Whole <- MCWhole
    DrainFee <- MCDrainFee
    Recipients = {r1}
    Rates = {low}
    FallbackRate = low
    Tasks = {t1, t2}
    Events = {1, 2, 3, 4, 5}
    MaxEdits = 3
    MaxLoops = 1
    MaxFaults = 0
    None = None
INVARIANT ApprovedIsSent
