SPECIFICATION FairAgentSpec
CONSTANTS
    Accounts = {alice}
    Vaults = {v1}
    Sellers = {seller}
    Registry = registry
    Factories = {registry}
    NoFactory = NoFactory
    NoAccount = NoAccount
    NoVault = NoVault
    NoRequest = NoRequest
    WithdrawalDelay = 3
    MemberCapBps = 20000
    MaxStake = 2
    MaxTime = 3
    MaxRequests = 1
    MaxBids = 2
    Amounts = {2}
    AgentMaxPrice = 1
    RequestTerms <- MCRequestTerms
    BidTerms <- MCBidTerms
    Policies <- MCPolicies
PROPERTIES ListenerAgrees WinnerIsUndominated AcceptsWithinLimits WatchEnds
CHECK_DEADLOCK FALSE
