SPECIFICATION Spec
CONSTANTS
    Slots = {s1, s2}
    Keys = {k1}
    Accounts = {own, foreign}
    Managed = {own}
    Levels = {low, high}
    MaxOrders = 2
SYMMETRY Symmetry
INVARIANTS TypeOK RepliesCanBeTrusted
PROPERTIES KeepsThePromise
