SPECIFICATION Spec
CONSTANTS
    pt = pt  gt = gt  lis = lis  ant = ant
    Countries = {pt, gt}
    Cities = {lis, ant}
    NameOf <- MCName
    CountryOf <- MCCountryOf
    Rank <- MCRank
    CodeOrder <- MCCodeOrder
    Exactly <- MCExactly
    Nearly <- MCNearly
    Updates <- MCUpdates
    DealRequests <- MCDealRequests
    FlightLists = {{1, 2}}
    HotelLists = {{1, 2}}
    DealLists <- MCDealLists
    Profile = {"food"}
    Tier = FALSE
    FirstDay = 2
    LastDay = 3
    LastDate = 6
    MaxMessages = 4
    MaxEdits = 1
    None = None
    Invalid = Invalid
INVARIANTS
    SelectionFitsTrip
    PendingIsAnswerable
    SearchesWhatIsSaved
    SearchesAreBuilt
    GeneratedIsCurrent
PROPERTIES
    RetryKeepsTrip
CHECK_DEADLOCK FALSE
