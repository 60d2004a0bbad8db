SPECIFICATION FairSpec
CONSTANTS
    Node = {1, 2, 3}
    Addressable = {1, 2}
    TTL = 1
    MaxIrregular = 2
    Flaky = {1, 2}
    Faults = {"fetch", "ttl", "api"}
INVARIANTS
    FreshQuorum
PROPERTIES
    PunctualChecksDecide
CHECK_DEADLOCK FALSE
