\* One call of each kind that matters here, an aclose at any time, and a
\* caller of startTLS or of a search that may be cancelled.
CONSTANTS
    Plain = {}
    Multi = {m}
    StartTLS = {s}
    NoAnswer = {u}
    Cancellable = {s, m}
    MayClose = TRUE
    MaxEntries = 1
    Nobody = Nobody
    Reader = Reader
SPECIFICATION FairSpec
INVARIANT TypeOK
INVARIANT OneAnswerEach
INVARIANT AnswerWillCome
INVARIANT UpgradeWillEnd
INVARIANT WriteOnCurrentStream
PROPERTY PeerLossEndsCalls
CHECK_DEADLOCK FALSE
