CONSTANTS
    Chars <- MCChars
    MaxUri = 5
    MaxAccepts = 1
    WebRoot <- MCWebRoot
    Dirs <- MCDirs
    Files <- MCFiles

SPECIFICATION Spec

\* main() only warns when start() fails and the process runs on without
\* the listener, and a connection count of MaxAccepts ends the model.
CHECK_DEADLOCK FALSE

INVARIANT NoHandlerAborts
