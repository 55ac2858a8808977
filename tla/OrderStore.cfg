CONSTANTS
    Keys = {1, 2, 3, 4, 5}
    OrdIds = {1, 2}
    NoOrd = 0
    Capacity = 4
SPECIFICATION FairSpec
PROPERTIES ImplementsMap CallsReturn
