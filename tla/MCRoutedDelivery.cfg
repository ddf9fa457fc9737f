SPECIFICATION FairSpec
CONSTANTS
    Sources <- MCSources
    Malformed = Malformed
    Events <- MCEvents
    None = None
    Flags <- MCFlags
    Plugins = {"custom"}
    Codes = {200, 302, 429, 503}
    RetryAfters = {0, 9}
    MaxRetries = 2
    BaseDelay = 1
    MaxDelay = 2
    MaxAttempts = 2
    MaxStops = 1
INVARIANTS TypeOK OneResultPerRoute SentIsAccepted SendIsBounded StrictNeverSkips RecordIsTrue
PROPERTIES RunEnds
CHECK_DEADLOCK FALSE
