SPECIFICATION Spec
CONSTANTS
    Length = 6  Page = 4  Capacity = 3
    ChunkSize = 2
    Packages <- HpmPackages
    Board = 2  Product = 1  Others = 1  Shrinks = 2
    Budgets = {3, 10, 16, 17, 20, 33, 36}
    Writes = 2
    Pieces = 2
    Longest = 7  First = 2  Block = 3  Polls = 2
    Ring = 2  Requests = 4  Frames = 2  Foreign = 1  Openings = 2
    Top = 3  InitialSequences = {0, 2}  Strays = 2
    Attempts = 2  Weak = 1
INVARIANTS TypeOK ReportsTruthful LeftoversReported OthersWorkKept BudgetSuffices AnswersCurrent SessionAsRequired RepliesInBounds SettingsReadBack
PROPERTIES ImplementsOneShot
CHECK_DEADLOCK FALSE
