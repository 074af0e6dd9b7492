\* Schema-definition defects abort every call and are never reported as errors in the document (expected to be violated).
CONSTANTS
    Schemas <- MCSchemas
    Fields <- MCFields
    Previous <- MCPrevious
    Check <- MCCheck
    CustomAccepts <- MCCustomAccepts
    IntLike <- MCIntLike
    Bases <- MCBases
    Roots <- RootsDefects
    Docs <- MCDocs
SPECIFICATION Spec
\* One constructor call per behaviour: the caller stops once it returns.
CHECK_DEADLOCK FALSE
INVARIANT DefectsReportedAsDefects
