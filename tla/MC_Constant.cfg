CONSTANTS
    v1 = v1
    v2 = v2
    StructWidths = {3, 4}
    Vals <- MCVals
    MaxElts = 3
INIT Init
NEXT Next
INVARIANT
    ConstantRoundTrip
