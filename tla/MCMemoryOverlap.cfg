SPECIFICATION Spec
CONSTANTS
    Items = {"vector"}
    KindOf <- MCKindOf
    Registered = {"embedding"}
    MaxAttempts = 2
    BatchSize = 1
    Cycles = {c1, c2}
    Scheduler = scheduler
    Drainers = {c1, c2, scheduler}
    NoItem = NoItem
    MaxUses = 1
    MaxCycles = 1
    MaxLate = 1
    Fallible = {"canonical", "mem0", "embeddings"}
    Requested = {"mem0"}
INVARIANT OneCycleAtATime
