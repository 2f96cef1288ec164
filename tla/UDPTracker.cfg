\* Two calls of Announce, one after the other or at the same time, by the announce
\* timer and a stop; two answers of 73 peers fill a response.
CONSTANTS
    Caller = {timer, stop}
    MaxCalls = 2
    Fill = 2
SPECIFICATION FairSpec
CHECK_DEADLOCK FALSE
INVARIANTS
    PeersBeginWithAnswer
PROPERTIES
    AnnounceReturns
    IsTrackerCall
