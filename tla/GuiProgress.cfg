CONSTANTS
    MaxStarts = 1
    MaxTransfers = 2
    MaxReports = 1
    MaxInputs = 5
    Ports = {69}
    UsualPort = 69
    Origins = {"a", "b"}
    Inside <- Itself
SPECIFICATION Spec
INVARIANT ProgressMatches
