SPECIFICATION Spec
CONSTANTS
    Slots = {s1, s2}
    Keys = {k1}
    Accounts = {own}
    Managed = {own}
    Levels = {low}
    MaxOrders = 2
INVARIANTS KeyPlacesOnce
