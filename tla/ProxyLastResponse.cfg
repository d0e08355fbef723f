CONSTANTS
    Variants = {"base"}
    N = 2
    Kinds = {"bind", "badbind", "search", "update", "starttls", "unbind"}
    MaxRequests = 2
    MaxEntries = 1
    Services = 2
    Fallback = TRUE
    Endless = TRUE
    TLSOffered = TRUE
SPECIFICATION FairSpec
INVARIANT LastResponseIsTold
CHECK_DEADLOCK FALSE
