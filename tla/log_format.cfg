SPECIFICATION Spec
CONSTANTS
    Callers = {control, other}
    Control = control
    Settings <- MCSettings
    Texts = {0, 1, 400, 411, 412, 500}
    Names <- MCNames
    NameLength = 20
    Numbers <- MCNumbers
INVARIANTS
    TypeOK
    ResolvedAtPassive
    EntriesFit
    BaseNameIsLast
CHECK_DEADLOCK FALSE
