SPECIFICATION Spec
CONSTANTS
    GridCount = 3
    VisionRange = 1
    NumSessions = 2
    NumThreads = 2
    Places <- MCPlaces
INVARIANTS TypeOK  GridsExact
PROPERTY CrossingsCollected
