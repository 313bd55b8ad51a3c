\* Two calls of reconnect(), the first of which fails.
CONSTANTS
    MaxSessions = 3
    MaxOutput = 0
SPECIFICATION Spec
INVARIANT
    GapTruthful
