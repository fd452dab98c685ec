SPECIFICATION Spec
CONSTANTS
    a = a  b = b
    t1 = t1  t2 = t2
    j1 = j1  j2 = j2
    Accounts = {a}
    Txs = {t1, t2}
    Owner <- MCOwner
    Deep = {t2}
    Sent = {t1}
    Selections <- MCSelections
    Fresh = {a}
    Jobs = {j1, j2}
    MaxFaults = 1
    MaxReorgs = 1
SYMMETRY Symmetric
INVARIANTS TypeOK PersistedFirst ReorgsAreReal StoredIsTold
PROPERTY UpdatesKeep
