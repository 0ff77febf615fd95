SPECIFICATION FairSpec
CONSTANTS Pages = {page} Stores = {store} Messages = {m1}
          Capacity = 4 MaxLog = 2 MaxOpens = 2
INVARIANTS PageShowsLog NeverAheadOfTail
PROPERTIES SelectedIsAttached
CHECK_DEADLOCK FALSE
