SPECIFICATION Spec
CONSTANTS
    Tasks = {t1, t2}
    Streams = {s1}
    Threads = {ui1, ui2}
    Commands = {cli}
    Names = {"default", "local", "new"}
    Environment <- MCEnvironment
    Goals <- MCGoals
    Starts <- MCActivationStarts
    Answers = {"approve", "stop"}
    MaxRequests = 2
INVARIANT ProfileGovernsTasks
CHECK_DEADLOCK FALSE
