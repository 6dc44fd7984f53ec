\* Every call of the class.
SPECIFICATION Spec
CONSTANTS
    Types = {"fe", "av"}
    Delays <- MCDelays
    Api = {"remove", "clear", "exit"}
    MaxMsgs = 3
    MaxTime = 3
INVARIANT NoLostWakeup
\* the thread ends after an exit request or an undefined read
CHECK_DEADLOCK FALSE
