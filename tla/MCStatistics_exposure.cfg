\* The exported metrics never run ahead of the workers, with concurrent scrapes, restarts and malformed replies.
CONSTANTS
    i1 = i1
    i2 = i2
    s1 = s1
    s2 = s2
    Instances <- MCInstances
    Scrapers <- MCScrapers
    MaxCount = 1
    MaxRestarts = 1
    Malformed = Malformed
SYMMETRY MCSymmetry
SPECIFICATION Spec
INVARIANT TypeOK
INVARIANT ExportsNeverAhead
