\* Every call in any order; the vdin driver does as it is told; analogue TV shows
\* snow.
SPECIFICATION Spec
CONSTANTS
    Sources = {"TV", "DTV", "HDMI", "SPDIF"}
    DisplaySnow = TRUE
    Refusals <- MCNeverRefused
    MaxQueue = 1
INVARIANTS TsOnlyOnDtv NoOrphanPlayback FlagsTellDevices
PROPERTY StopReleases
