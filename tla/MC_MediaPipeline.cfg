CONSTANTS
    MaxBuilds <- MCMaxBuilds
    MaxFrames <- MCMaxFrames
    MaxRestarts <- MCMaxRestarts
    ClockStart <- MCClockStart
SPECIFICATION FairSpec
\* main() returns after the shutdown sequence: the terminal state is real.
CHECK_DEADLOCK FALSE
INVARIANTS
    TypeOK
    OnlyCurrentPipelinePlays
    StopQuiesces
PROPERTIES
    StopTerminates
    AbstractIngest
