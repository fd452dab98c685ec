SPECIFICATION FairSpec
CONSTANTS
    a = a  b = b
    t1 = t1  t2 = t2
    j1 = j1  j2 = j2
    Accounts = {a, b}
    Txs = {t1, t2}
    Owner <- MCOwner
    Deep = {t2}
    Sent = {t1}
    Selections <- MCSelections
    Fresh = {a}
    Jobs = {j1}
    MaxFaults = 2
    MaxReorgs = 1
PROPERTIES FailuresAreIsolated Followed
