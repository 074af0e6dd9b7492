\* Malformed documents raise only SchemaException (expected to be violated: TypeError escapes).
CONSTANTS
    Schemas <- MCSchemas
    Fields <- MCFields
    Previous <- MCPrevious
    Check <- MCCheck
    CustomAccepts <- MCCustomAccepts
    IntLike <- MCIntLike
    Bases <- MCBases
    Roots <- RootsWellFormed
    Docs <- MCDocs
SPECIFICATION Spec
\* One constructor call per behaviour: the caller stops once it returns.
CHECK_DEADLOCK FALSE
INVARIANT OperatorErrorsOnly
