SPECIFICATION Spec
CONSTANTS
    a = a  c1 = c1  c2 = c2
    mine = mine  back = back  other = other
    r1 = r1  r2 = r2
    None = None  Nobody = Nobody
    Accounts = {a}
    Coins = {c1, c2}
    Scripts = {mine, back, other}
    CoinOwner <- MCOwner
    CoinValue <- MCValue
    ScriptOwner <- MCScriptOwner
    ChangeScript <- MCChange
    Fee = 2
    Dust = 1
    Messages <- MCMessages
    Bech32 = {a}
    Asked <- MCAsked
    Requests = {r1, r2}
    MaxFaults = 1
INVARIANTS TypeOK  RectifiableIsHarmless SentIsRecorded 
