CONSTANTS
    p1 = p1
    p2 = p2
    Participants <- MCParticipants
    Drafts = {}
    Scores <- MCScores
    Lengths = {1, 2}
    Stakes = {0, 2}
    ClaimScale = 2
    DaemonScale = 1
    MaxEpoch = 2
    MaxClaims = 2
SPECIFICATION Spec
CHECK_DEADLOCK FALSE
PROPERTIES
    DaemonMinesClaims
