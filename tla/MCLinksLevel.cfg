SPECIFICATION Spec
CONSTANTS
    Hosts <- MCHosts
    Providers <- MCProviders
    DotPaths <- MCDotPaths
    Links <- MCLinkUrls
    Locations <- MCLocations
    Memos <- MCMemos
    Regions = {"global", "cn"}
INVARIANT
    SameLevel
CHECK_DEADLOCK FALSE
