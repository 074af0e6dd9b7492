\* The patch never changes python_requires, names, lower bounds or markers; it only deletes upper bounds.
CONSTANTS
    Setups <- MCSetups
SPECIFICATION Spec
\* The script patches one text and exits.
CHECK_DEADLOCK FALSE
INVARIANT PatchOnlyDropsUpperBounds
