SPECIFICATION FairSpec
CONSTANTS
    MaxToken = 3
    MaxMessages = 2
    MaxRestarts = 1
    MaxUninstalls = 1
INVARIANTS TypeOK AuthenticatedMeansCredentials RefreshIsCurrent
PROPERTIES NoFalseLogout OnlyLoginRestores DeadSessionEnds
