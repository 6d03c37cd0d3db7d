SPECIFICATION Spec
CONSTANTS
    Accounts = {alice, bob, carol, dan}
    Vaults = {v1, v2}
    Factories = {registry}
    NoFactory = NoFactory
    NoAccount = NoAccount
    WithdrawalDelay = 1
    MemberCapBps = 20000
    MaxStake = 6
    MaxTime = 1
    Amounts = {1, 3}
    Values = {1, 3}
    ManualVaults = {v2}
SYMMETRY Alike
INVARIANTS TypeOK Solvency
PROPERTIES CourierPaysFirst SharedProRata SlashMakesWhole
CHECK_DEADLOCK FALSE
