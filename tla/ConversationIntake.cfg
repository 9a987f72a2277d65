SPECIFICATION Spec
CONSTANTS
    Requests = {r1, r2}
    Users = {u1, u2}
    Ids = {i1, i2}
    Texts = {x1}
    Trips = {t1}
    TripOwner <- Owners
    Conversations = {c1, c2, c3, c4}
    MaxLost = 1
    MaxDeleted = 1
    Deletion = deletion
    None = none
INVARIANTS
    AnswersAreTrue
PROPERTIES
    TurnsAppearInOrder
    BusyIsNotDeleted
    EveryRequestAnswered
CHECK_DEADLOCK FALSE
