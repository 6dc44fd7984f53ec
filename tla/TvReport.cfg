SPECIFICATION FairSpec
CONSTANTS
    Sources = {"DTV", "HDMI"}
    DisplaySnow = FALSE
    Refusals <- MCNeverRefused
    MaxQueue = 1
INVARIANT NoStopReport
