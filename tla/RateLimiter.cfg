SPECIFICATION Spec
CONSTANTS
    Ops <- MCOps
    Capacity <- MCCapacity
    Window <- MCWindow
    MaxTime = 5
    MaxRoundTrips = 1
PROPERTY ImplementsWindow
