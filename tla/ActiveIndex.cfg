\* Two instances with two objects each, which always report the same; pages of one
\* object.
SPECIFICATION FairSpec
CONSTANTS
    Instances <- TwoInstances
    Infos = {x}
    Garbled = Garbled
    None = None
    Failed = Failed
    PageSize = 1
INVARIANTS ListingIsCurrent MissingOnlyInRace StoresAgree
PROPERTY ListingEnds
