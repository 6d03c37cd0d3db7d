SPECIFICATION Spec
CONSTANTS
    Accounts = {alice, bob}
    Vaults = {v1, v2}
    Sellers = {seller}
    Registry = registry
    Factories = {registry}
    NoFactory = NoFactory
    NoAccount = NoAccount
    NoVault = NoVault
    NoRequest = NoRequest
    WithdrawalDelay = 1
    MemberCapBps = 20000
    MaxStake = 4
    MaxTime = 4
    MaxRequests = 2
    MaxBids = 1
    Amounts = {2}
    Windows = {1}
    Prices = {1}
    Deadlines = {3}
    RequestTerms <- MCRequestTerms
    BidTerms <- MCBidTerms
    Policies <- MCPolicies
SYMMETRY Alike
INVARIANTS TypeOK OneVaultPerDelivery SlashNeverBlocked
PROPERTIES FailureIsCompensated PartsFit
CHECK_DEADLOCK FALSE
