CONSTANTS
  Ceiling = 6
  CompactAbove = 2
  MaxMessage = 4
SPECIFICATION QueueSpec
INVARIANTS CeilingHolds MemoryBounded TearIsAnnounced
