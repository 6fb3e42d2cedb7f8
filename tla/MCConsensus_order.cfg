CONSTANTS
    HeightBits <- MCHeightBits
    None = None
    QueryHeights <- MCQueryHeights
    QueryDeltas <- MCQueryDeltas
    QueryIntegers <- MCQueryIntegers
    QueryWires <- MCQueryWires

SPECIFICATION Spec

INVARIANT UpgradesActivateInOrder
