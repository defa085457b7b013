CONSTANTS
    A = A
    B = B
    lamp = lamp
    tv = tv
    Scenes = {A, B}
    Devices = {lamp, tv}
    Values = {0, 1}
    NoScene = NoScene
    Absent = Absent
    Plans <- SomePlans
    Windows <- SomeWindows
    Library <- SomeScenes
    DayLength = 2
    WeekLength = 2
    OverDate = 9
    MaxClock = 2
    MaxEdits = 1
    MaxReports = 1
    MaxRestarts = 1
SPECIFICATION AllOffSpec
INVARIANTS
    TypeOK
    RamIsDb
    OnceOnly
PROPERTIES
    StartsJustified
    NoDangling
    RunsAreRuns
    EveryRunEnds
CHECK_DEADLOCK FALSE
