CONSTANTS
    Uuids = {u1, u2, u3}
    MaxChanges = 3
    MaxSearches = 3
SPECIFICATION Spec
SYMMETRY Symmetry
\* A program that has searched often enough stops.
CHECK_DEADLOCK FALSE
INVARIANT CookieIsHonest
