SPECIFICATION Spec
CONSTANTS
    RequiredStarts = 3
    MaxVersion = 2
    MaxProtocols = 2
PROPERTIES
    StableByLaunches
