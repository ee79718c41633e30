SPECIFICATION MCSpec
CONSTANTS
    Readers = {r}
    None = None
    MaxLogFiles = 2
    MaxLogSize = 1
    Captured = {"o"}
    Asks <- MCAsks
    MaxDigits = 3
    MaxExponent = 5
    MinInt <- MCMinInt
    MaxInt = 127
    MaxEntryBytes = 7
    Numbers <- MCNumbers
    Beside <- MCBeside
    Messages <- MCMessages
    EntryLists <- MCEntryLists
    MaxTail = 2
    DefaultTail = 2
    MaxMaxBytes = 26
    DefaultMaxBytes = 20
    Absent = Absent
    Refused = Refused
    MaxTime = 3
    MaxRuns = 4
INVARIANTS
    TypeOK
    BacksOff
    NumbersExact
    CutsBetweenCharacters
    RendersTheNewest
    OutputNotDropped
    ReadsExact
    ShowsTheRun
    NothingTwice
PROPERTIES
    LosesOnlyTheOldest
    RotatedFilesAreFinal
    FollowEnds
CHECK_DEADLOCK FALSE
