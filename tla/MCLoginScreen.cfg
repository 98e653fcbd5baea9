CONSTANTS
    MaxSignIns <- MCMaxSignIns
SPECIFICATION Spec
INVARIANTS
    TypeOK
    ErrorsOnlyOnInvalid
    SpinnerOnlyWhileSigningIn
CHECK_DEADLOCK FALSE
