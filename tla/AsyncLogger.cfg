SPECIFICATION FairSpec
CONSTANTS
    Capacity = 3
    Levels <- MCLevels
    MinLevel = 1
    MaxCalls = 8
INVARIANTS PrintedInOrder NoConcurrentAccess Accounted
PROPERTIES PublishedIsPrinted DestructorReturns
