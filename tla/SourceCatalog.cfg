SPECIFICATION Spec
CONSTANTS
    File = {a, b}
    Mixes <- MCMixes
    ScanErrors = FALSE
SYMMETRY FileSymmetry
INVARIANTS
    CatalogAtRest
PROPERTIES
    KeepsItems
