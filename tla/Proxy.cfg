CONSTANTS
    Variants = {"base", "proxy", "binding", "merged"}
    N = 2
    Kinds = {"bind", "badbind", "search", "update", "starttls", "unbind"}
    MaxRequests = 2
    MaxEntries = 1
    Services = 2
    Fallback = TRUE
    Endless = FALSE
    TLSOffered = TRUE
SPECIFICATION FairSpec
INVARIANT AnsweredOnce
INVARIANT BindAnswerIsTrue
INVARIANT LastResponseIsTold
CHECK_DEADLOCK FALSE
PROPERTY RequestsAreAnswered
PROPERTY ServersAreLetGo
