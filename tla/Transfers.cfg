SPECIFICATION PanelSpec
CONSTANTS
    Sessions = {s1, s2}
    Ids = {i1, i2}
    Size = 1
    None = None
INVARIANTS
    TypeOK
    PartsOwned
    OffersPlaced
PROPERTIES
    OffersAnswered
    DropSpec
CHECK_DEADLOCK FALSE
