CONSTANTS
    W = 4
    FourG = 4
    MaxRef = 3
    Layouts <- ManyWordLayouts
    FlagSets <- SomeFlags
SPECIFICATION Spec
CHECK_DEADLOCK FALSE
INVARIANTS
    TypeOK
    BitmapAgreesWithPages
    CountersExact
    LinksAreReferences
