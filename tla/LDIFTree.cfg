CONSTANTS
    w1 = w1
    w2 = w2
    a = a
    b = b
    c = c
    Writers = {w1, w2}
    r1 = r1
    Readers = {r1}
    NamesOf <- MCNamesOf
    MaxDepth = 2
    Start <- MCStart
    Ids = {1, 2, 3, 4}
    MaxChanges = 2
    MaxCrashes = 1
    None = None
SPECIFICATION Spec
INVARIANTS EntriesAreWhole NothingIsLost LookupFindsWhatStays
