SPECIFICATION Spec
CONSTANTS
    File = {a, b}
    Mixes <- MCFailure
    ScanErrors = TRUE
SYMMETRY FileSymmetry
PROPERTIES
    FailedScanKeepsItems
