\* A name, one attribute and one value, given in either kind.
CONSTANTS
    Keys = {"cn", "hash"}
    RDN = "cn"
    Password = "hash"
    Values = {v}
    Strings = {"str", "bytes"}
    MaxJournal = 2
    MaxOthers = 1
    MaxPast = 2
    Overlap = FALSE
SPECIFICATION EntrySpec
\* An entry that was deleted stops.
CHECK_DEADLOCK FALSE
INVARIANT JournalMakesAttributes
 
