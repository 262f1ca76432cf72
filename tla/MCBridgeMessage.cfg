CONSTANTS
    WordBytes = 4
    LenWord = 16
    MaxMemory = 9
    MaxName = 3
    Registered = {7}
    Calls <- MCCalls
SPECIFICATION Spec
INVARIANTS ReceivedIsAbi EncodedIsDecoded
\* A call that fails a check has no next step.
CHECK_DEADLOCK FALSE
