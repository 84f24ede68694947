\* One deal with two payees: payouts signed over, a hold, the long-stop, outcomes the record may refuse.
SPECIFICATION Spec
CONSTANTS
    buyer = buyer
    seller = seller
    backer = backer
    feeSafe = feeSafe
    None = None
    d1 = d1
    d2 = d2
    Deals = {d1}
    Users = {buyer, seller, backer, feeSafe}
    FeeRecipient = feeSafe
    Subjects = {seller}
    Nonces = {1}
    BPS = 2
    MaxFeeBps = 1
    FeeRates = {1}
    YieldShares = {0}
    DealCaps = {2}
    TotalCaps = {3}
    MaxPayees = 2
    Longstop = 1
    MaxHorizon = 1
    HoldStep = 1
    HoldCap = 1
    MinYieldTerm = 1
    Payers = {buyer}
    Payees = {seller, backer}
    Assignees = {backer}
    MaxTime = 2
    MaxAmount = 1
    MaxFunded = 1
    Acts = {}
    Purse <- Purse1
PROPERTIES OnlyRecipientsGain AssigneeFirst DealsAreAccounts OutcomesKept
