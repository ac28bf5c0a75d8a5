CONSTANTS
    Families <- MCFamilies
    Drivers <- MCDrivers
    Configs <- MCConfigs
SPECIFICATION SchemaSpec
INVARIANTS
    
    NothingLostUnasked
    CreatesInOrder
    DropsInOrder
CHECK_DEADLOCK FALSE
