\* No upper bound is left in the dependency list (expected to be violated).
CONSTANTS
    Setups <- MCSetups
SPECIFICATION Spec
\* The script patches one text and exits.
CHECK_DEADLOCK FALSE
INVARIANT NoUpperBoundsInDependencies
