SPECIFICATION Spec

CONSTANTS
    MaxToken = 3
    MaxMessages = 2
    MaxRestarts = 0
    MaxUninstalls = 0

PROPERTIES
    LoginSticks
