CONSTANTS
    W = 8
    FourG = 8
    MaxRef = 2
    Layouts <- ManyWordLayouts
    FlagSets <- TaskFlags
SPECIFICATION Spec
CHECK_DEADLOCK FALSE
INVARIANTS
    NoDoubleGrant
