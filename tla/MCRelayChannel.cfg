SPECIFICATION Spec
CONSTANTS
    Apps = {a1, a2}
    Daemon = daemon
    MaxLinks = 3
    MaxSends = 2
    None = None
SYMMETRY AppSymmetry
INVARIANTS
    NonceUnique
    OpenedInOrder
    RoutedToNewest
CHECK_DEADLOCK FALSE
