SPECIFICATION MailboxSpec
CONSTANTS
    courier = courier
    Accounts = {courier}
    Vaults = {v1, v2}
    NoVault = NoVault
    MaxTime = 4
    Offers <- MCOffers
    Runs = {r1, r2}
    Posts = {p1}
    Pause = 2
SYMMETRY Alike
INVARIANT SensorsGateTheMailbox
CHECK_DEADLOCK FALSE
