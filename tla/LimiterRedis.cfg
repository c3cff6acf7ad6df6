CONSTANTS
    Algorithms = {"token_bucket", "fixed_window", "sliding_window"}
    Keys = {k1}
    Clients = {c1, c2}
    Amounts = {1, 2}
    Limit = 2
    Window = 4
    Second = 2
    MaxDelay = 1
    MaxTime = 9
SPECIFICATION Spec
INVARIANTS
    LimitHolds
    RemainingExact
