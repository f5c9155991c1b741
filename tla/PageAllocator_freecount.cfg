CONSTANTS
    W = 8
    FourG = 8
    MaxRef = 2
    Layouts <- OneWordLayouts
    FlagSets <- TaskFlags
SPECIFICATION Spec
INVARIANTS
    FreeCountIsPagesFree
