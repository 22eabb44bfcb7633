SPECIFICATION FairSpec
CONSTANTS
    Keys <- MCKeys
    Drivers <- MCDrivers
    Limits <- MCLimits
    ListPageSize = 2
    ServicePage = 1
    MaxWrites = 3
INVARIANTS
    InOrderOnce
    
PROPERTY
    EveryListReturns
