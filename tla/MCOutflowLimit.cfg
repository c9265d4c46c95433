\* Every interleaving of slots, outflows and configurations.
SPECIFICATION Spec
CONSTANTS
    WAD = 10
    MaxSlot = 9
    MaxReleased <- MCMaxReleased
    Configs <- MCConfigs
    Quantities <- MCQuantities
INVARIANTS
    TypeOK
    CountersMatchHistory
    RecoversAfterTwoWindows
    RemainingIsWhatUpdateAdmits
PROPERTIES
    OutflowIsBounded
