SPECIFICATION DogFairSpec
CONSTANTS
    wifi = wifi
    ble = ble
    Services <- Both
    Reached <- WIFI
    Fragile <- WIFI
    Limit <- Limits
    PingEvery = 2
    MaxLag = 2
INVARIANT DogTypeOK
PROPERTY SparesTheResponsive
PROPERTY HungIsReplaced
PROPERTY ConnectionIsMended
