\* Two clients, one owner, reads that never fail: calls of the two
\* clients interleave between getStoreConfig and save.
CONSTANTS
    Clients = {c1, c2}
    Names = {n1, n2}
    Owners = {o1}
    Kinds = {k1, k2}
    NoKind = NoKind
    Data = {d1}
    MaxStores = 2
    MaxReadFaults = 0
    MaxWriteFaults = 0
SPECIFICATION Spec
PROPERTY CatalogRefinement
