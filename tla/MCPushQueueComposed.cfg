\* The application as its modules compose it: the processor is in no module.
SPECIFICATION FairSpec
CONSTANTS
    r1 = r1
    w1 = w1
    w2 = w2
    None = None
    Requests = {r1}
    Workers = {w1, w2}
    Processors = {}
    Attempts = 3
    MaxStalled = 1
PROPERTIES
    AnsweredIsTaken
CHECK_DEADLOCK FALSE
