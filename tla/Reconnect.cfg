CONSTANTS
    Tasks = {1, 2}
    RetryMax = 2
    MaxConns = 3
    MaxCalls = 3
    Interrupts = FALSE
SPECIFICATION Spec
\* A program that has made its calls stops.
CHECK_DEADLOCK FALSE
INVARIANT AsItWas
INVARIANT DoneOnceOrTwice
 
