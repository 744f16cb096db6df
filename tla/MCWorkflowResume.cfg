SPECIFICATION Spec
CONSTANTS
    Steps <- MCSteps
    Cases <- MCCases
    Retries = {0, 1}
    MaxResumes = 3
    MaxCrashes = 1
INVARIANTS
    ResumeIsSafe
CHECK_DEADLOCK FALSE
