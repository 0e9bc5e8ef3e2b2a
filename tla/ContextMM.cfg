SPECIFICATION Spec
CONSTANTS
    Chunk = {c1, c2, c3}
    chunkSizeBytes = 3
    maxFreeChunks = 1
    Size = {1, 2}
    MaxLevel = 3
INVARIANTS BlocksAreOwned ChunksAccounted
