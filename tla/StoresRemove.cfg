SPECIFICATION Spec
CONSTANTS
    Texts <- MCTexts
    Workers = {w1, w2}
    MaxTasks = 3
    MaxChanges = 3
    MaxLives = 3
    Garbled = "garbled"
    Nobody = Nobody
    AchievementNames = {n1, n2}
    MaxAchievements = 3
    MaxListCalls = 4
    MaxListLives = 2
INVARIANT RemovedIsGone
CHECK_DEADLOCK FALSE
