\* The queue as CTv::CTvMsgQueue uses it: sendMsg from any thread, nothing else.
SPECIFICATION FairSpec
CONSTANTS
    Types = {"fe"}
    Delays <- MCDelays
    Api = {}
    MaxMsgs = 4
    MaxTime = 3
INVARIANTS InDueOrder NoUndefinedRead
PROPERTY EveryMessageHandled
\* bounded senders: the consumer ends waiting
CHECK_DEADLOCK FALSE
