\* What has been read stops.
CHECK_DEADLOCK FALSE
SPECIFICATION Spec
PROPERTIES
    ElementsAreFramed
    MessagesComeBack
    TextsComeBack
    FiltersComeBack
    SubstringsFindAll
    RecordsComeBack
    DiffsMakeTheOther
