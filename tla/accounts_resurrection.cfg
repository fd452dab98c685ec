SPECIFICATION Spec
CONSTANTS
    c1 = c1  c2 = c2  c3 = c3  c4 = c4
    i1 = i1  i2 = i2  i3 = i3  i4 = i4
    main = main  test = test  signet = signet
    Calls = {c1, c2, c3}
    Ids = {i1, i2, i3, i4}
    Networks <- MainOnly
    CoinType <- MainCoinType
    BatchNetworks <- BatchMain
    Slots = {0, 1, 2, 3}
    ReqSlots = {0, 1}
    Ops = {"create", "delete", "update"}
    MaxFaults = 0
    NoId = NoId
    NoAccount = NoAccount
    NoPath = NoPath
SYMMETRY Symmetric
INVARIANT StoredAreWhole
