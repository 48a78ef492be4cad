SPECIFICATION SchemaSpec
CONSTANTS
    nobody = nobody
    Process = {d1, d2}
    Releases = {8, 18}
    MaxMishaps = 0
INVARIANT CanonicalColumnsCome
CHECK_DEADLOCK FALSE
