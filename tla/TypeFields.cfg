\* Every declaration of five struct types that MCTypeFields lists.
CONSTANTS
    T = T
    A = A
    B = B
    C = C
    D = D
    Type = {T, A, B, C, D}
    Root = T
    Leaf = Leaf
    NoTag = NoTag
    Dash = Dash
    BadTag = BadTag
SPECIFICATION Spec
CHECK_DEADLOCK FALSE
INVARIANTS
    PromotedFields
    TiesAnnihilate
    SearchEnds
