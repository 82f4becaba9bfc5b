SPECIFICATION Spec
CONSTANTS
    fast = fast
    late = late
    plain = plain
    namesake = namesake
    one = one
    again = again
    other = other
    Types = {fast, late}
    Schemas = {one, other}
    EntryOf <- EntriesPlain
    SlotOf <- Slots
    StaticLimit = 2
    CacheLimit = 1
    MaxDelta = 1
    Times = {0, 2}
    Strings = {"s", "l"}
    Stacks = {}
    Locations = {"l"}
    TextOf <- Texts
    Generations = 2
    MaxEvents = 2
    Appends = TRUE
    KeptKinds = {"string"}
INVARIANTS
    StreamInv
