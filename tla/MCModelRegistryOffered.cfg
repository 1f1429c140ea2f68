CONSTANTS
    NoSupplier = NoSupplier
    Clients = {c1, c2}
    Supplied = {m1}
    Suppliers = {p1}
    MaxCopies = 1
    Workers = {w1}
SPECIFICATION RegistrySpec
INVARIANT AvailableIsOffered
