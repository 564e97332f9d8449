\* One client, one owner, reads that never fail: the factory as a
\* sequential program.
CONSTANTS
    Clients = {c1}
    Names = {n1, n2}
    Owners = {o1}
    Kinds = {k1}
    NoKind = NoKind
    Data = {d1, d2}
    MaxStores = 3
    MaxReadFaults = 0
    MaxWriteFaults = 0
SPECIFICATION Spec
INVARIANT TypeOK
INVARIANT PluginsCoverStores
INVARIANT PluginsUnique
PROPERTY CatalogRefinement
PROPERTY UnparsedFileKept
