\* A request whose application listens and may raise, a StartTLS, an unbind,
\* any two of them at once, and a Cancel.
CONSTANTS
    Ordinary = {a}
    StartTLS = {s}
    Unbinds = {u}
    Cancels = {c}
    Listening = {a}
    Raising = {a, s}
    MaxId = 2
    Reuse = FALSE
    MaxEntries = 1
    Nobody = Nobody
    Reader = Reader
SPECIFICATION FairSpec
INVARIANT Reachable
INVARIANT Answered
PROPERTY ReceiverIsTold
PROPERTY GoneIsNoticed
CHECK_DEADLOCK FALSE
