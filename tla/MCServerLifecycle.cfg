SPECIFICATION Spec
CONSTANTS
    Https = {h1, h2}
    Browsers = {b1}
    Calls = {c1}
    Keys = {k1}
    Bundles = {{"client"}}
    MaxInputs = 5
INVARIANTS
    TypeOK
    OneAnswer
    ResolvedIsClean
PROPERTIES
    CloseSettles
CHECK_DEADLOCK FALSE
