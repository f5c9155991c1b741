CONSTANTS
    W = 64
    FourG = 2048
    MaxRef = 2
    Layouts <- Machines
    FlagSets <- ForkOnly
SPECIFICATION TaskSpec
INVARIANTS
    TaskTypeOK
    ThreadRunsAsAsked
    SwitchedOutIsResumable
    TaskOnItsOwnPage
    TaskInRam
PROPERTIES
    ThreadRuns
