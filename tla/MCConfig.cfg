SPECIFICATION ConfigSpec
CONSTANTS
    Shipped <- Templates
    MaxEdits = 2
CHECK_DEADLOCK FALSE
INVARIANTS
    AcceptedIsEnough
PROPERTIES
    OverriddenIsInert
