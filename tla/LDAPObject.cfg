\* Two operations, one searched entry by entry and one that may be abandoned
\* or timed out, and an unbind; when the connection is lost, another is opened.
CONSTANTS
    Ops = {a, b}
    Unbinders = {u}
    Walks = {a}
    Abandoners = {b}
    Timed = {b}
    Overtaking = FALSE
    MaxConns = 2
    MaxEntries = 1
    Nobody = Nobody
SPECIFICATION FairSpec
INVARIANT CanStillFinish
INVARIANT SearchIsComplete
PROPERTY AbandonIsFinal
PROPERTY LossEndsOperations
CHECK_DEADLOCK FALSE
