SPECIFICATION Spec
CONSTANTS
    Hosts <- MCHosts
    Providers <- MCProviders
    DotPaths <- MCDotPaths
    Links <- MCLinkUrls
    Locations <- MCLocations
    Memos <- MCMemos
    Regions = {"global", "cn"}
INVARIANTS
    RequestBudget
    SameCard
    OwnWords
CHECK_DEADLOCK FALSE
