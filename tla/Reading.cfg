\* Three log entries, at most two to a walk, four changes; three records of
\* two-byte headers and bodies of two or three bytes in pieces of up to four, the
\* last offset 3, so that the longer one is refused when it is read a byte at a
\* time; two changes; values of up to eight items in pages of three, at most
\* three of them where pages are counted.
SPECIFICATION ReadingSpec
CONSTANTS
    MaxEntries = 2
    Capacity = 3
    Contents = {a, b}
    MaxChanges = 4
    Header = 2
    Chunk = 4
    MaxOffset = 3
    Bodies = {2, 3}
    Limits = {1, 4}
    Room = 3
    Edits = 2
    Page = 3
    First = 2
    Most = 7
    Blocks = 3
    Longest = 8
INVARIANTS
    ReadingTypeOK
    WalkComplete
    QuietReadsSucceed
    ValuesIntact
    NothingMissed
PROPERTIES
    ReportedOnce
    ReadsEnd
CHECK_DEADLOCK FALSE
