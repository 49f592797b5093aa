CONSTANTS
    MaxBuilds <- MCMaxBuilds
    MaxFrames <- MCMaxFrames
    MaxRestarts <- MCMaxRestarts
    ClockStart <- MCClockStart

SPECIFICATION Spec

CHECK_DEADLOCK FALSE

INVARIANT
    StopUsesLivePipeline
