CONSTANTS
    Widths = {1, 2}
    Vals = {0, 1, 255}
    MaxElts = 4
    Versions = {12, 13}
    Modulus <- MCModulus
    HighBit <- MCHighBit
INIT Init
NEXT Next
PROPERTY
    PipelineImplementsCodec
