SPECIFICATION FairSpec
CONSTANTS
    courier = courier
    Accounts = {courier}
    Vaults = {v1, v2}
    NoVault = NoVault
    MaxTime = 5
    Windows = {0, 1}
    Refusals = {{}, {"courier"}, {"buyer"}}
    Offers <- MCOffers
INVARIANTS TypeOK WaysForward StrandedOnlyByLateDeposit
PROPERTIES CourierPaidWhenDue PickupCommits KeepsEscrowPromise EveryDeliverySettles
CHECK_DEADLOCK FALSE
