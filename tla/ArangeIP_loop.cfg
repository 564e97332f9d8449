\* arange(from, to, step) over 3-bit ints; one arangeIP start text.
CONSTANTS
    Octets = {0}
    Bad = Bad
    Lengths = {3}
    Counts = {1}
    IntWidth = 3
SPECIFICATION Spec
PROPERTY ArangeReturns
CHECK_DEADLOCK FALSE
