\* More addresses than slots, and one request.
CONSTANTS
    Addr = {a1, a2, a3, a4}
    Slots = 3
    Request = {r1}
    MaxLetIn = 2
    NoAddr = NoAddr
SPECIFICATION Spec
SYMMETRY Symmetry
CHECK_DEADLOCK FALSE
INVARIANTS
    InterestingAreKnown
PROPERTIES
    ServedWasUnchoked
    NewcomersAreUnchoked
