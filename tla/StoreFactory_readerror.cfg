\* One client, one owner, one failing read of stores.yaml.
CONSTANTS
    Clients = {c1}
    Names = {n1, n2}
    Owners = {o1}
    Kinds = {k1, k2}
    NoKind = NoKind
    Data = {d1}
    MaxStores = 2
    MaxReadFaults = 1
    MaxWriteFaults = 0
SPECIFICATION Spec
PROPERTY CatalogRefinement
