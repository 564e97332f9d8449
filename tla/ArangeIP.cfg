\* Every start text of 3, 4 or 5 segments drawn from 0, 254, 255, 256 and
\* an unparsable segment, with counts 0, 1 and 3; and every arange(from,
\* to, step) over 3-bit ints, whose largest value 3 makes i += step wrap.
CONSTANTS
    Octets <- MCOctets
    Bad = Bad
    Lengths = {3, 4, 5}
    Counts = {0, 1, 3}
    IntWidth = 3
SPECIFICATION Spec
INVARIANT SuccessorIsReference
CHECK_DEADLOCK FALSE
