CONSTANTS
    W = 8
    FourG = 8
    MaxRef = 3
    Layouts <- OneWordLayouts
    FlagSets <- SomeFlags
SPECIFICATION Spec
INVARIANTS
    NoDoubleGrant
    NeverHalts
    RefusalHonest
PROPERTIES
    ImplementsPool
