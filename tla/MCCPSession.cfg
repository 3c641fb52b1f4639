SPECIFICATION MCSpec
CONSTANTS
    Seeders = {"seeder"}
    Loop = "loop"
    reauth_max_retries = 2
    bridge_max_failures = 2
    Callers = {"loop", "admin"}
    min_interval = 2
    max_per_hour = 2
    max_per_day = 3
    backoff <- MCbackoff
    Hour = 6
    Day = 9
    timeout_s = 1
INVARIANTS TypesOK
PROPERTIES PendingEnds SessionIsRecovered LossIsReported LockoutBudget
