\* Two names, two levels, three entries, and a search among careful clients.
CONSTANTS
    RDNs = {x, y}
    Off = Off
    MaxDepth = 2
    Pool = {e1, e2, e3}
    Root = Root
    None = None
    Searches = {s}
    Scopes = {"one", "sub"}
    MaxChanges = 2
    Cares = {"value", "leaf", "free", "type", "suffix"}
SPECIFICATION Spec
INVARIANT LinkedIsFound
INVARIANT SearchFindsWhatStays
PROPERTY ImplementsDirectory
CHECK_DEADLOCK FALSE
SYMMETRY Names
