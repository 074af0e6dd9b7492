\* A missing required field is reported at its own path (expected to be violated).
CONSTANTS
    Schemas <- MCSchemas
    Fields <- MCFields
    Previous <- MCPrevious
    Check <- MCCheck
    CustomAccepts <- MCCustomAccepts
    IntLike <- MCIntLike
    Bases <- MCBases
    Roots <- RootsContract
    Docs <- MCDocs
SPECIFICATION Spec
\* One constructor call per behaviour: the caller stops once it returns.
CHECK_DEADLOCK FALSE
INVARIANT MissingFieldAtItsPath
