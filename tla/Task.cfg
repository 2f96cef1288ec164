\* Two starts, two stops or failing Dumps, a peer being added, and refused
\* messages.
CONSTANTS
    Starter = {r1, r2}
    Closer = {s1, s2}
    Adder = {a1}
SPECIFICATION FairSpec
CHECK_DEADLOCK FALSE
INVARIANTS
    RunningMeansRun
    EndedMeansClosed
PROPERTIES
    AddersReleased
    
