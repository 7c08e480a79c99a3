CONSTANTS
    Prompts = {p1, p2}
    NoPrompt = NoPrompt
    Values = {yes, no}
    MaxHistory = 3
    MaxPending = 5
    MaxLines = 1
    MaxOnWay = 1
    MaxFailures = 2
SPECIFICATION FairSpec
INVARIANTS
    TypeOK
    NoStalePrompt
    ShownOnce
PROPERTIES
    FirstAnswerWins
    PromptIsShown
    FollowsAgent
CHECK_DEADLOCK FALSE
