SPECIFICATION Spec
CONSTANTS
    None = None
    NearTtl = 1
    DefaultTtl = 4
    NearWindow = 12
    HoursPerUnit = 6
    p1 = p1
    p2 = p2
    s1 = s1
    Scenarios <- MCScenarios
    Answers <- MCAnswers
    Horizon = 5
INVARIANTS
    ActOnlyOnGround
    ViolationSkips
    ActOnTheBest
PROPERTIES
    VerdictStands
    WaitingNeverHelps
CHECK_DEADLOCK FALSE
