\* One start and one stop, a peer being added, every message accepted.
CONSTANTS
    Starter = {r1}
    Closer = {s1}
    Adder = {a1}
SPECIFICATION QuietSpec
CHECK_DEADLOCK FALSE
PROPERTIES
    StopStops
