SPECIFICATION SettingSpec
CONSTANTS
    Worker = {w1, w2}
    Claim = {c1, c2, c3}
    w1 = w1
    w2 = w2
    c1 = c1
    c2 = c2
    c3 = c3
    None = None
    LostAnswers = TRUE
    Crashes = TRUE
INVARIANTS
    DeletionCoversResult
    LookupIsNotPoisoned
    NoStrayResponse
PROPERTIES
    SteadyLookupEnds
\* The lookup ends.
CHECK_DEADLOCK FALSE
