\* Two processes of one extension with the same --socket flag.
CONSTANTS
    Instances = {p1, p2}
    Socket = TRUE
    NoFile = NoFile
SYMMETRY MCSymmetry
SPECIFICATION Spec
INVARIANT Reachable
