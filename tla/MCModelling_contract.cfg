\* Accepted documents conform to the schema contract and validate again to themselves; the instance is well typed.
CONSTANTS
    Schemas <- MCSchemas
    Fields <- MCFields
    Previous <- MCPrevious
    Check <- MCCheck
    CustomAccepts <- MCCustomAccepts
    IntLike <- MCIntLike
    Bases <- MCBases
    Roots <- RootsContract
    Docs <- MCDocs
SPECIFICATION Spec
\* One constructor call per behaviour: the caller stops once it returns.
CHECK_DEADLOCK FALSE
INVARIANT TypeOK
INVARIANT AcceptedDocsConform
INVARIANT Idempotent
