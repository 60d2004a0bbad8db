SPECIFICATION FairSpec
CONSTANTS
    Node = {1, 2, 3}
    Addressable = {1, 2}
    TTL = 1
    MaxIrregular = 1
    Flaky = {}
    Faults = {}
PROPERTIES
    CheckDecides
CHECK_DEADLOCK FALSE
