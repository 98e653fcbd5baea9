CONSTANTS
    MaxSignIns <- MCMaxSignIns
SPECIFICATION Spec
INVARIANT
    SignInsNotConcurrent
CHECK_DEADLOCK FALSE
