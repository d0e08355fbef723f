CONSTANTS
    Lines <- MCLines
    Versions <- MCVersions
    Decoded <- MCDecoded
    MaxLines = 7
SPECIFICATION StreamSpec
INVARIANTS ReadsWhatIsMeant CutRecordsAreSeen
CHECK_DEADLOCK FALSE
