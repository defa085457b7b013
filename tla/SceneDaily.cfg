CONSTANTS
    A = A
    B = B
    lamp = lamp
    tv = tv
    Scenes = {A, B}
    Devices = {lamp, tv}
    Values = {0, 1}
    NoScene = NoScene
    Absent = Absent
    Plans <- SomePlans
    Windows <- SomeWindows
    Library <- DailyScene
    DayLength = 2
    WeekLength = 2
    OverDate = 9
    MaxClock = 3
    MaxEdits = 0
    MaxReports = 0
    MaxRestarts = 0
SPECIFICATION Spec
PROPERTIES
    RunsEveryDay
CHECK_DEADLOCK FALSE
