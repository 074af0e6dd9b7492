\* The constructor accepts exactly the conforming documents, on schemas where sequences, custom defaults and literals meet Python semantics (expected to be violated).
CONSTANTS
    Schemas <- MCSchemas
    Fields <- MCFields
    Previous <- MCPrevious
    Check <- MCCheck
    CustomAccepts <- MCCustomAccepts
    IntLike <- MCIntLike
    Bases <- MCBases
    Roots <- RootsConformance
    Docs <- MCDocs
SPECIFICATION Spec
\* One constructor call per behaviour: the caller stops once it returns.
CHECK_DEADLOCK FALSE
PROPERTY ValidationRefines
