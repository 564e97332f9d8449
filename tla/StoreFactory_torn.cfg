\* One client, one owner, one write of stores.yaml cut short.
CONSTANTS
    Clients = {c1}
    Names = {n1, n2}
    Owners = {o1}
    Kinds = {k1, k2}
    NoKind = NoKind
    Data = {d1}
    MaxStores = 2
    MaxReadFaults = 0
    MaxWriteFaults = 1
SPECIFICATION Spec
PROPERTY CatalogRefinement
