CONSTANTS
    Letters <- MCLetters
    Digits <- MCDigits
    Others <- MCOthers
    ObjectKey <- MCObjectKey
    ObjdataKey <- MCObjdataKey
    MaxWord = 2
    ParamMax = 11
    StackInit = 1
    StackGrow = 1
    CtxIds = {c1, c2, c3}
    NULL = NULL
    EOF = EOF
    KeepTmp = FALSE
    HostFails = TRUE
    StartFailures = {"stack", "gentemp", "mkdir", "actions"}
    MaxDepth = 2
SPECIFICATION Spec
CHECK_DEADLOCK FALSE
SYMMETRY MCSymmetry
VIEW MCView
INVARIANTS
    VerdictNotLost
