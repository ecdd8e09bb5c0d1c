SPECIFICATION Spec
CONSTANTS
    RequiredStarts = 3
    MaxVersion = 3
    MaxProtocols = 2
INVARIANTS
    TypeOK
    NewVersionObserved
PROPERTIES
    StableEarned
