SPECIFICATION Spec
CONSTANTS
    Clients = {1, 2, 3}
    Setups <- OwnIds
    MaxBatch = 2
    MaxEntries = 1
    MaxEvents = 3
    Chunks <- TwoChunks
INVARIANTS StreamFaithful RegistryBounded
PROPERTY StreamsEnd
