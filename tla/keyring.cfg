SPECIFICATION Spec
CONSTANTS
    c1 = c1  r1 = r1
    t1 = t1  t2 = t2  t3 = t3  t4 = t4
    None = None
    Callers = {c1}
    Readers = {r1}
    MaxIndex = 7
    BatchSize = 3
    Txs = {t1, t2, t3, t4}
    Rank <- MCRank
    Limits = {1, 2}
INVARIANTS RangeCovered PagesAreRight
