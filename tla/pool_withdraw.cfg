SPECIFICATION FairSpec
CONSTANTS
    Accounts = {alice, bob}
    Vaults = {v1, v2}
    Factories = {registry}
    NoFactory = NoFactory
    NoAccount = NoAccount
    WithdrawalDelay = 1
    MemberCapBps = 20000
    MaxStake = 4
    MaxTime = 3
    Amounts = {1, 2}
    Values = {1, 2}
    ManualVaults = {}
INVARIANTS ReservationLedger OpenClaimCanSettle FreeCapacityIsReservable
PROPERTIES CapacityLostOnlyByWithdrawal StakeLeavesByPaymentOrSlash WithdrawalCompletes
CHECK_DEADLOCK FALSE
