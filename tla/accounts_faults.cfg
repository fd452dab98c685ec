SPECIFICATION FairSpec
CONSTANTS
    c1 = c1  c2 = c2  c3 = c3  c4 = c4
    i1 = i1  i2 = i2  i3 = i3  i4 = i4
    main = main  test = test  signet = signet
    Calls = {c1, c2}
    Ids = {i1, i2, i3, i4}
    Networks <- SharedNetworks
    CoinType <- SharedCoinType
    BatchNetworks <- BatchMain
    Slots = {0, 1, 2, 3}
    ReqSlots = {0, 1}
    Ops = {"createNext", "create", "createMany", "delete"}
    MaxFaults = 2
    NoId = NoId
    NoAccount = NoAccount
    NoPath = NoPath
INVARIANTS MutualExclusion ResultIsRequested
PROPERTIES BatchFindsStored AllCallsFinish
