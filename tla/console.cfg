SPECIFICATION ConsoleSpec
CONSTANTS
    alice = alice
    Accounts = {alice}
    Vaults = {v1, v2}
    Sellers = {seller}
    Registry = registry
    Factories = {registry}
    NoFactory = NoFactory
    NoAccount = NoAccount
    NoVault = NoVault
    NoRequest = NoRequest
    Nothing = Nothing
    WithdrawalDelay = 1
    MemberCapBps = 20000
    MaxStake = 4
    MaxTime = 1
    MaxRequests = 2
    MaxBids = 3
    Amounts = {2}
    Slots = {t1, t2}
    MaxClicks = 3
    MaxMoves = 1
    FormMaxPrice = 2
    PreferTrusted = FALSE
    Scenes <- MCScenes
    RequestTerms <- MCRequestTerms
    BidTerms <- MCBidTerms
    Policies <- MCPolicies
SYMMETRY Alike
INVARIANTS NeverAhead CodesAreKept
PROPERTIES UndisturbedRefreshRepairs PickedBidIsAccepted
CHECK_DEADLOCK FALSE
