SPECIFICATION OutputSpec
CONSTANTS
    MaxTexts = 3
INVARIANTS
    KeptUntilDelivered
    InsertedIsOwn
