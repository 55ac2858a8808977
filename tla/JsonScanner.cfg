SPECIFICATION Spec
CONSTANTS
    Documents <- MCDocuments
    Names <- MCNames
    Indices = {0, 1, 2}
INVARIANTS LookupsFindTheField WalksSeeEveryElement
CHECK_DEADLOCK FALSE
