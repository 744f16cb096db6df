SPECIFICATION FairSpec
CONSTANTS
    Tasks = {t1, t2}
    Streams = {s1}
    Threads = {ui1, ui2}
    Commands = {cli}
    Names = {"default", "local", "new"}
    Environment <- MCEnvironment
    Goals <- MCGoals
    Starts <- MCStarts
    Answers = {"approve", "stop"}
    MaxRequests = 2
INVARIANTS
    TypeOK
    FirstAnswerWins
    EventsReachTheClient
    SettingsAreSound
PROPERTIES
    CancelTakesEffect
    StreamsEnd
CHECK_DEADLOCK FALSE
