SPECIFICATION DemoSpec
CONSTANTS
    courier1 = courier1
    courier2 = courier2
    courier3 = courier3
    Accounts = {courier1, courier2, courier3}
    Couriers <- MCCouriers
    Vaults = {v1, v2}
    Sellers = {seller}
    Registry = registry
    Factories = {registry}
    NoFactory = NoFactory
    NoAccount = NoAccount
    NoVault = NoVault
    NoRequest = NoRequest
    Nothing = Nothing
    WithdrawalDelay = 0
    MemberCapBps = 10000
    Stake = 1
    MaxStake = 6
    MaxTime = 5
    MaxRequests = 2
    MaxBids = 3
    MaxNodes = 2
    Amounts = {1}
    RequestTerms <- MCRequestTerms
    BidTerms <- MCBidTerms
    Policies <- MCPolicies
INVARIANTS ManifestIsTrue RerunNeedsOnlyCapacity
PROPERTIES EndToEndDelivers
CHECK_DEADLOCK FALSE
