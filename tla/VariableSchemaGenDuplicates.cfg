CONSTANTS
    Packages = {p1, p2}
    Groups = {g1, g2}
    NoGroup = NoGroup
    Names = {1, 2}
    TopSchemas <- MCTopSchemas
    MaxBound = 3
SPECIFICATION Spec
CHECK_DEADLOCK FALSE


INVARIANT EachFieldOneVariable
