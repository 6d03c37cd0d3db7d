SPECIFICATION ClientsSpec
CONSTANTS
    alice = alice
    bob = bob
    Accounts = {alice, bob}
    Vaults = {v1}
    Sellers = {seller}
    Registry = registry
    Factories = {registry}
    NoFactory = NoFactory
    NoAccount = NoAccount
    NoVault = NoVault
    NoRequest = NoRequest
    WithdrawalDelay = 0
    MemberCapBps = 20000
    MaxStake = 4
    MaxTime = 4
    MaxRequests = 1
    MaxBids = 3
    MaxCommands = 4
    MaxPending = 2
    Amounts = {1}
    Asks <- MCAsks
    Offers <- MCOffers
    RequestTerms <- MCRequestTerms
    BidTerms <- MCBidTerms
    Policies <- MCPolicies
    Found <- MCFound
INVARIANTS CodesOnFile
PROPERTIES ListedBidIsAccepted
CHECK_DEADLOCK FALSE
