CONSTANTS
    Chars <- MCChars
    MaxUri = 1
    MaxAccepts = 2
    WebRoot <- MCWebRoot
    Dirs <- MCDirs
    Files <- MCFiles

SPECIFICATION FairSpec

\* main() returns after the shutdown sequence: the terminal state is real.
CHECK_DEADLOCK FALSE

PROPERTY StopReturns
