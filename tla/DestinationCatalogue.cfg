SPECIFICATION CatalogueSpec
CONSTANTS
    Seeded = {"skardu", "bali"}
    Replaced = {"skardu"}
    Imported = {"rome", "murree"}
    OldPlaces = {"kachura"}
    NewPlaces = {"fort", "port", "forum"}
    Parent <- Parents
    Folder <- FirstFolder
    Facts <- CatalogueFacts
    Writers = {w1, w2}
    Countries = {"PK"}
    Selections <- OnboardingChoices
    Photos <- Folders
    PlaceRank <- Ranks
    PageSizes = {1, 2}
    MaxOperations = 3
INVARIANTS
    PagesComplete
    PreferenceIsOneChoice
    CoverKept
    SchemaFollowsRevision
CHECK_DEADLOCK FALSE
