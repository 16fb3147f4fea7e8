SPECIFICATION VisitorSpec
CONSTANTS
    Slugs = {1, 2, 3, 4}
    PageSize = 2
    HitCacheDepth = 2
    MaxFacetTags = 200
    MaxInt = 15
    Unranked = 1000
    UnknownPrice = 1000
    MaxTags = 2
    MaxNotTags = 1
    MaxPage = 7
    Prices = {"free", "under-5"}
    Catalogs <- MCCatalogs
    TypedAddresses <- MCTypedAddresses
    MaxClicks = 3
INVARIANTS
    PagesCoverMatches
    PathsAgree
    SidebarTellsTruth
PROPERTIES
    LinksKeepMeaning
CHECK_DEADLOCK FALSE
